---------------------------- MODULE ServerProofs ----------------------------
(* What three parts of the server guarantee: the pictures of artists, for   *)
(* any artists, adds, polls and restarts; when a digest is due, in any zone *)
(* whose switches are far enough from the time of the slot; and what a      *)
(* digest is cut into, of any events, widths, budget and cap.               *)
EXTENDS MCServer, FiniteSetTheorems, FunctionTheorems, SequenceTheorems,
        WellFoundedInduction, TLAPS

-----------------------------------------------------------------------------
(* The pictures of artists.                                                  *)

ArtistRecord == [picture : BOOLEAN, tried : BOOLEAN]
AddRecord    == [artist : Mbid, picture : BOOLEAN, at : {"match", "upsert", "create"}]
SweepRecord  == [at : {"off", "list", "next", "wait", "match", "upsert", "record"},
                 todo : SUBSET Mbid, hand : Mbid \union {NoRow}, found : BOOLEAN,
                 polls : 0..MaxPolls]

ArtTypes ==
  /\ artists \in [Mbid -> {NoRow} \union ArtistRecord]
  /\ watched \in SUBSET Mbid /\ missed \in SUBSET Mbid /\ pictured \in SUBSET Mbid
  /\ adds \in [DOMAIN adds -> AddRecord] /\ DOMAIN adds \subseteq 1..nAdds
  /\ nAdds \in 0..MaxAdds /\ nBoots \in 1..MaxBoots
  /\ gate \in Int
  /\ sweep \in SweepRecord
  /\ sweep.at \in {"wait", "match", "upsert", "record"} => sweep.hand \in Mbid

\* Rows of artists are never deleted, and what was read of one stays so.
RowsStay ==
  /\ \A a \in watched : artists[a] # NoRow
  /\ \A r \in DOMAIN adds : adds[r].at = "create" => artists[adds[r].artist] # NoRow
  /\ \A a \in sweep.todo : artists[a] # NoRow
  /\ sweep.at \in {"wait", "match", "upsert", "record"} => artists[sweep.hand] # NoRow

\* Only the sweep puts an artist on the cooldown, and only the one in hand,
\* whose picture it has by then either stored or not found.
Cooldown ==
  /\ \A a \in sweep.todo : ~Tried(a)
  /\ sweep.at \in {"wait", "match", "upsert"} => ~Tried(sweep.hand)
  /\ sweep.at \in {"wait", "match", "upsert", "record"} => sweep.hand \notin sweep.todo
  /\ sweep.at = "record" => sweep.hand \notin missed \/ Pictured(sweep.hand)

AtLookup == {r \in DOMAIN adds : adds[r].at = "match"}

Gate == gate = Cardinality(AtLookup)

PicturesStay ==
  /\ \A a \in pictured : Pictured(a)
  /\ \A a \in missed : Pictured(a) \/ ~Tried(a)

ArtInv == ArtTypes /\ RowsStay /\ Cooldown /\ Gate /\ PicturesStay

LEMMA ArtInitially == ArtInit => ArtInv
<1>. SUFFICES ASSUME ArtInit PROVE ArtInv
  OBVIOUS
<1>1. ArtTypes
  BY ArtAssumption
     DEF ArtInit, ArtTypes, Boot, Sweeping, SweepRecord, ArtistRecord, AddRecord
<1>0. [picture |-> FALSE, tried |-> FALSE] \in [picture : BOOLEAN, tried : BOOLEAN]
  OBVIOUS
<1>2. [picture |-> FALSE, tried |-> FALSE] # NoRow
  BY <1>0, ArtAssumption, Zenon
<1>5. \A a \in Mbid : ~Pictured(a) /\ ~Tried(a) /\ (a \in Listed => artists[a] # NoRow)
  BY <1>2 DEF ArtInit, Pictured, Tried
<1>6. RowsStay /\ Cooldown /\ PicturesStay
  BY <1>5, ArtAssumption
     DEF ArtInit, RowsStay, Cooldown, PicturesStay, Boot, Sweeping
<1>3. AtLookup = {}
  BY DEF ArtInit, AtLookup
<1>4. Gate
  BY <1>3, FS_EmptySet DEF ArtInit, Gate
<1>. QED
  BY <1>1, <1>6, <1>4 DEF ArtInv

-----------------------------------------------------------------------------
(* Writing a row of artists.                                                 *)

\* What a statement on the row of artist a leaves in place.
Writes(a, picture, tried) ==
  \E row \in ArtistRecord :
    /\ row.picture = picture /\ row.tried = tried
    /\ artists' = [artists EXCEPT ![a] = row]

LEMMA WritesType ==
  ASSUME ArtTypes, NEW a \in Mbid, NEW picture \in BOOLEAN, NEW tried \in BOOLEAN,
         Writes(a, picture, tried)
  PROVE  /\ artists' \in [Mbid -> {NoRow} \union ArtistRecord]
         /\ artists'[a] # NoRow
         /\ Pictured(a)' <=> picture
         /\ Tried(a)' <=> tried
         /\ \A b \in Mbid : artists[b] # NoRow => artists'[b] # NoRow
         /\ \A b \in Mbid \ {a} : (Pictured(b)' <=> Pictured(b)) /\ (Tried(b)' <=> Tried(b))
<1>1. PICK row \in ArtistRecord :
        /\ row.picture = picture /\ row.tried = tried
        /\ artists' = [artists EXCEPT ![a] = row]
  BY DEF Writes
<1>2. row # NoRow
  BY ArtAssumption DEF ArtistRecord
<1>. QED
  BY <1>1, <1>2 DEF ArtTypes, Pictured, Tried

LEMMA UpsertWrites ==
  ASSUME ArtTypes, NEW a \in Mbid, NEW picture \in BOOLEAN, Upserts(a, picture)
  PROVE  /\ artists' \in [Mbid -> {NoRow} \union ArtistRecord]
         /\ artists'[a] # NoRow
         /\ \A b \in Mbid : artists[b] # NoRow => artists'[b] # NoRow
         /\ \A b \in Mbid : (Pictured(b) => Pictured(b)') /\ (Tried(b)' <=> Tried(b))
         /\ picture => Pictured(a)'
         /\ pictured' = IF picture THEN pictured \union {a} ELSE pictured
<1>1. PICK p \in BOOLEAN, t0 \in BOOLEAN : p = (picture \/ Pictured(a)) /\ t0 = Tried(a)
  BY DEF Pictured, Tried
<1>2. [picture |-> p, tried |-> t0] \in ArtistRecord
  BY DEF ArtistRecord
<1>3. artists' = [artists EXCEPT ![a] = [picture |-> p, tried |-> t0]]
  BY <1>1 DEF Upserts, Coalesce
<1>4. Writes(a, p, t0)
  BY <1>2, <1>3 DEF Writes
<1>5. pictured' = IF picture THEN pictured \union {a} ELSE pictured
  BY DEF Upserts
<1>. QED
  BY <1>1, <1>4, <1>5, WritesType

LEMMA SweepSteps ==
  ASSUME NEW at \in {"off", "list", "next", "wait", "match", "upsert", "record"},
         NEW left \in SUBSET Mbid, NEW hand \in Mbid \union {NoRow}
  PROVE  /\ Sweeping(at, left, hand) \in SweepRecord
         /\ Sweeping(at, left, hand).at = at
         /\ Sweeping(at, left, hand).todo = left
         /\ Sweeping(at, left, hand).hand = hand
  BY ArtAssumption DEF Sweeping, SweepRecord

LEMMA MovesOnType ==
  ASSUME ArtTypes, SweepMovesOn
  PROVE  sweep' \in SweepRecord /\ sweep'.at = "next" /\ sweep'.todo = sweep.todo
<1>1. sweep.todo \in SUBSET Mbid
  BY DEF ArtTypes, SweepRecord
<1>2. sweep' = Sweeping("next", sweep.todo, NoRow)
  BY DEF SweepMovesOn
<1>. QED
  BY <1>1, <1>2, SweepSteps

-----------------------------------------------------------------------------
(* The requests under way, and those at their lookup.                        *)

LEMMA LookupsFinite == ASSUME ArtTypes PROVE IsFiniteSet(AtLookup)
<1>1. AtLookup \subseteq 1..nAdds /\ nAdds \in Nat
  BY DEF ArtTypes, AtLookup
<1>2. IsFiniteSet(1..nAdds)
  BY <1>1, FS_Interval
<1>. QED
  BY <1>1, <1>2, FS_Subset

\* A request ends.
LEMMA EndsType ==
  ASSUME ArtTypes, NEW r \in DOMAIN adds, Ends(r)
  PROVE  /\ adds' \in [DOMAIN adds' -> AddRecord]
         /\ DOMAIN adds' = DOMAIN adds \ {r}
         /\ \A q \in DOMAIN adds' : adds'[q] = adds[q]
         /\ AtLookup' = AtLookup \ {r}
  BY DEF ArtTypes, Ends, AtLookup

\* A request goes on to another statement.
LEMMA GoesOnType ==
  ASSUME ArtTypes, NEW r \in DOMAIN adds, NEW picture \in BOOLEAN,
         NEW at \in {"upsert", "create"},
         adds' = [adds EXCEPT ![r].at = at, ![r].picture = picture]
  PROVE  /\ adds' \in [DOMAIN adds' -> AddRecord]
         /\ DOMAIN adds' = DOMAIN adds
         /\ adds'[r].artist = adds[r].artist /\ adds'[r].at = at
         /\ \A q \in DOMAIN adds \ {r} : adds'[q] = adds[q]
         /\ AtLookup' = AtLookup \ {r}
<1>1. adds \in [DOMAIN adds -> AddRecord]
  BY DEF ArtTypes
<1>2. /\ adds' \in [DOMAIN adds -> AddRecord]
      /\ adds'[r].artist = adds[r].artist /\ adds'[r].at = at
      /\ \A q \in DOMAIN adds \ {r} : adds'[q] = adds[q]
  BY <1>1 DEF AddRecord
<1>3. AtLookup' = AtLookup \ {r}
  BY <1>1, <1>2 DEF AtLookup
<1>. QED
  BY <1>2, <1>3

LEMMA GateFalls ==
  ASSUME ArtTypes, Gate, NEW r \in AtLookup, AtLookup' = AtLookup \ {r}, gate' = gate - 1
  PROVE  Gate' /\ gate' \in Int
  BY LookupsFinite, FS_RemoveElement, FS_CardinalityType DEF Gate

LEMMA GateStays ==
  ASSUME Gate, AtLookup' = AtLookup, gate' = gate
  PROVE  Gate'
  BY DEF Gate
-----------------------------------------------------------------------------
LEMMA ArtStep == ArtInv /\ [ArtNext]_artVars => ArtInv'
<1>. SUFFICES ASSUME ArtInv, [ArtNext]_artVars PROVE ArtInv'
  OBVIOUS
<1>0. /\ ArtTypes /\ RowsStay /\ Cooldown /\ Gate /\ PicturesStay
      /\ artists \in [Mbid -> {NoRow} \union ArtistRecord]
      /\ watched \in SUBSET Mbid /\ missed \in SUBSET Mbid /\ pictured \in SUBSET Mbid
      /\ adds \in [DOMAIN adds -> AddRecord] /\ DOMAIN adds \subseteq 1..nAdds
      /\ nAdds \in 0..MaxAdds /\ nBoots \in 1..MaxBoots /\ gate \in Int
      /\ sweep \in SweepRecord
      /\ MaxAdds \in Nat /\ MaxBoots \in Nat /\ MaxPolls \in Nat
  BY ArtAssumption DEF ArtInv, ArtTypes
<1>1. CASE AddBegins
  <2>0. PICK a \in Mbid, picture \in BOOLEAN :
          /\ adds' = [q \in DOMAIN adds \union {nAdds'} |-> IF q = nAdds'
               THEN [artist |-> a, picture |-> picture,
                     at |-> IF picture THEN "upsert" ELSE "match"]
               ELSE adds[q]]
          /\ gate' = IF picture THEN gate ELSE gate + 1
    BY <1>1 DEF AddBegins
  <2>1. /\ nAdds' = nAdds + 1 /\ nAdds' \in 0..MaxAdds /\ nAdds' \notin DOMAIN adds
        /\ UNCHANGED <<artists, watched, sweep, missed, pictured, nBoots>>
    BY <1>0, <1>1 DEF AddBegins, tables
  <2>2. /\ DOMAIN adds' = DOMAIN adds \union {nAdds'}
        /\ adds' \in [DOMAIN adds' -> AddRecord]
        /\ DOMAIN adds' \subseteq 1..nAdds'
        /\ adds'[nAdds'].at = IF picture THEN "upsert" ELSE "match"
        /\ \A q \in DOMAIN adds : adds'[q] = adds[q]
    BY <1>0, <2>0, <2>1 DEF AddRecord
  <2>3. Gate' /\ gate' \in Int
    <3>1. CASE picture
      <4>1. AtLookup' = AtLookup
        BY <2>1, <2>2, <3>1 DEF AtLookup
      <4>. QED
        BY <1>0, <2>0, <3>1, <4>1, GateStays
    <3>2. CASE ~picture
      <4>1. AtLookup' = AtLookup \union {nAdds'} /\ nAdds' \notin AtLookup
        BY <2>1, <2>2, <3>2 DEF AtLookup
      <4>2. IsFiniteSet(AtLookup)
        BY <1>0, LookupsFinite
      <4>3. Cardinality(AtLookup') = Cardinality(AtLookup) + 1
        BY <4>1, <4>2, FS_AddElement
      <4>. QED
        BY <1>0, <2>0, <3>2, <4>3 DEF Gate
    <3>. QED
      BY <3>1, <3>2
  <2>4. ArtTypes'
    BY <1>0, <2>1, <2>2, <2>3 DEF ArtTypes
  <2>5. RowsStay' /\ Cooldown' /\ PicturesStay'
    BY <1>0, <2>1, <2>2 DEF RowsStay, Cooldown, PicturesStay, Pictured, Tried
  <2>. QED
    BY <2>3, <2>4, <2>5 DEF ArtInv
<1>2. ASSUME NEW r \in DOMAIN adds, AddMatched(r) PROVE ArtInv'
  <2>0. PICK picture \in BOOLEAN :
          adds' = [adds EXCEPT ![r].at = "upsert", ![r].picture = picture]
    BY <1>2 DEF AddMatched
  <2>1. /\ r \in AtLookup /\ gate' = gate - 1
        /\ UNCHANGED <<artists, watched, sweep, missed, pictured, nAdds, nBoots>>
    BY <1>2 DEF AddMatched, AtLookup, tables
  <2>2. /\ adds' \in [DOMAIN adds' -> AddRecord] /\ DOMAIN adds' = DOMAIN adds
        /\ adds'[r].at = "upsert" /\ \A q \in DOMAIN adds \ {r} : adds'[q] = adds[q]
        /\ AtLookup' = AtLookup \ {r}
    BY <1>0, <2>0, GoesOnType
  <2>3. Gate' /\ gate' \in Int
    BY <1>0, <2>1, <2>2, GateFalls
  <2>4. ArtTypes'
    BY <1>0, <2>1, <2>2, <2>3 DEF ArtTypes
  <2>5. RowsStay' /\ Cooldown' /\ PicturesStay'
    BY <1>0, <2>1, <2>2 DEF RowsStay, Cooldown, PicturesStay, Pictured, Tried
  <2>. QED
    BY <2>3, <2>4, <2>5 DEF ArtInv
<1>3. ASSUME NEW r \in DOMAIN adds, AddPanics(r) PROVE ArtInv'
  <2>1. /\ r \in AtLookup /\ gate' = gate - 1 /\ Ends(r)
        /\ UNCHANGED <<artists, watched, sweep, missed, pictured, nAdds, nBoots>>
    BY <1>3 DEF AddPanics, AtLookup, tables
  <2>2. Gate' /\ gate' \in Int
    BY <1>0, <2>1, EndsType, GateFalls
  <2>3. ArtTypes'
    BY <1>0, <2>1, <2>2, EndsType DEF ArtTypes
  <2>4. RowsStay' /\ Cooldown' /\ PicturesStay'
    BY <1>0, <2>1, EndsType DEF RowsStay, Cooldown, PicturesStay, Pictured, Tried
  <2>. QED
    BY <2>2, <2>3, <2>4 DEF ArtInv
<1>4. ASSUME NEW r \in DOMAIN adds, AddUpserts(r) PROVE ArtInv'
  <2>. PICK a \in Mbid, found \in BOOLEAN : a = adds[r].artist /\ found = adds[r].picture
    BY <1>0 DEF AddRecord
  <2>0. r \notin AtLookup
    BY <1>4 DEF AddUpserts, AtLookup
  <2>1. /\ Upserts(a, found)
        /\ adds' = [adds EXCEPT ![r].at = "create", ![r].picture = found]
        /\ UNCHANGED <<watched, gate, sweep, missed, nAdds, nBoots>>
    BY <1>0, <1>4 DEF AddUpserts, AddRecord
  <2>2. /\ adds' \in [DOMAIN adds' -> AddRecord] /\ DOMAIN adds' = DOMAIN adds
        /\ adds'[r].artist = a
        /\ \A q \in DOMAIN adds \ {r} : adds'[q] = adds[q]
        /\ AtLookup' = AtLookup \ {r}
    BY <1>0, <2>1, GoesOnType
  <2>4. /\ artists' \in [Mbid -> {NoRow} \union ArtistRecord]
        /\ artists'[a] # NoRow
        /\ \A b \in Mbid : artists[b] # NoRow => artists'[b] # NoRow
        /\ \A b \in Mbid : (Pictured(b) => Pictured(b)') /\ (Tried(b)' <=> Tried(b))
        /\ found => Pictured(a)'
    BY <1>0, <2>1, UpsertWrites
  <2>5. pictured' = IF found THEN pictured \union {a} ELSE pictured
    BY <1>0, <2>1, UpsertWrites
  <2>6. Gate' /\ gate' \in Int
    BY <1>0, <2>0, <2>1, <2>2, GateStays
  <2>7. ArtTypes'
    BY <1>0, <2>0, <2>1, <2>2, <2>4, <2>5 DEF ArtTypes
  <2>8. RowsStay'
    BY <1>0, <2>0, <2>1, <2>2, <2>4 DEF RowsStay, AddRecord, ArtTypes, SweepRecord
  <2>9. Cooldown' /\ PicturesStay'
    BY <1>0, <2>0, <2>1, <2>4, <2>5 DEF Cooldown, PicturesStay, ArtTypes, SweepRecord
  <2>. QED
    BY <2>6, <2>7, <2>8, <2>9 DEF ArtInv
<1>5. ASSUME NEW r \in DOMAIN adds, AddCreates(r) PROVE ArtInv'
  <2>1. /\ adds[r].at = "create" /\ Ends(r) /\ watched' = watched \union {adds[r].artist}
        /\ adds[r].artist \in Mbid
        /\ UNCHANGED <<artists, gate, sweep, missed, pictured, nAdds, nBoots>>
    BY <1>0, <1>5 DEF AddCreates, AddRecord
  <2>2. AtLookup' = AtLookup
    BY <1>0, <2>1, EndsType DEF AtLookup
  <2>3. Gate' /\ gate' \in Int
    BY <1>0, <2>1, <2>2, GateStays
  <2>4. ArtTypes'
    BY <1>0, <2>1, <2>3, EndsType DEF ArtTypes
  <2>5. RowsStay' /\ Cooldown' /\ PicturesStay'
    BY <1>0, <2>1, EndsType DEF RowsStay, Cooldown, PicturesStay, Pictured, Tried
  <2>. QED
    BY <2>3, <2>4, <2>5 DEF ArtInv
<1>6. ASSUME NEW r \in DOMAIN adds, AddFails(r) PROVE ArtInv'
  <2>1. /\ adds[r].at # "match" /\ Ends(r)
        /\ UNCHANGED <<artists, watched, gate, sweep, missed, pictured, nAdds, nBoots>>
    BY <1>6 DEF AddFails, tables
  <2>2. AtLookup' = AtLookup
    BY <1>0, <2>1, EndsType DEF AtLookup
  <2>3. Gate' /\ gate' \in Int
    BY <1>0, <2>1, <2>2, GateStays
  <2>4. ArtTypes'
    BY <1>0, <2>1, <2>3, EndsType DEF ArtTypes
  <2>5. RowsStay' /\ Cooldown' /\ PicturesStay'
    BY <1>0, <2>1, EndsType DEF RowsStay, Cooldown, PicturesStay, Pictured, Tried
  <2>. QED
    BY <2>3, <2>4, <2>5 DEF ArtInv
<1>7. ASSUME NEW a \in Mbid, Removes(a) PROVE ArtInv'
  <2>1. /\ watched' = watched \ {a}
        /\ UNCHANGED <<artists, adds, gate, sweep, missed, pictured, nAdds, nBoots>>
    BY <1>7 DEF Removes
  <2>2. ArtTypes' /\ Gate'
    BY <1>0, <2>1 DEF ArtTypes, Gate, AtLookup
  <2>3. RowsStay' /\ Cooldown' /\ PicturesStay'
    BY <1>0, <2>1 DEF RowsStay, Cooldown, PicturesStay, Pictured, Tried
  <2>. QED
    BY <2>2, <2>3 DEF ArtInv
<1>8. ASSUME NEW a \in Mbid, CooldownEnds(a) PROVE ArtInv'
  <2>0. PICK p \in BOOLEAN : p = Pictured(a)
    BY DEF Pictured
  <2>1. /\ Writes(a, p, FALSE)
        /\ UNCHANGED <<watched, adds, gate, sweep, missed, pictured, nAdds, nBoots>>
    <3>1. artists[a] # NoRow /\ artists[a] \in ArtistRecord
      BY <1>0, <1>8 DEF CooldownEnds, Tried
    <3>3. p = artists[a].picture
      BY <2>0, <3>1 DEF Pictured, ArtistRecord
    <3>2. LET row == [artists[a] EXCEPT !.tried = FALSE]
          IN  row \in ArtistRecord /\ row.picture = p /\ row.tried = FALSE
      BY <3>3, <3>1 DEF ArtistRecord
    <3>. QED
      BY <1>8, <3>2 DEF CooldownEnds, Writes
  <2>2. /\ artists' \in [Mbid -> {NoRow} \union ArtistRecord]
        /\ \A b \in Mbid : artists[b] # NoRow => artists'[b] # NoRow
        /\ \A b \in Mbid : (Pictured(b)' <=> Pictured(b)) /\ (Tried(b)' => Tried(b))
    BY <1>0, <2>0, <2>1, WritesType
  <2>3. ArtTypes' /\ Gate'
    BY <1>0, <2>1, <2>2 DEF ArtTypes, Gate, AtLookup
  <2>4. RowsStay'
    BY <1>0, <2>1, <2>2 DEF RowsStay, AddRecord, ArtTypes, SweepRecord
  <2>5. Cooldown' /\ PicturesStay'
    BY <1>0, <2>1, <2>2 DEF Cooldown, PicturesStay, ArtTypes, SweepRecord
  <2>. QED
    BY <2>3, <2>4, <2>5 DEF ArtInv
<1>9. ASSUME SweepLists \/ SweepNext \/ SweepWaits PROVE ArtInv'
  <2>1. /\ UNCHANGED <<artists, watched, adds, gate, missed, pictured, nAdds, nBoots>>
    BY <1>9 DEF SweepLists, SweepNext, SweepWaits, tables
  <2>2. /\ sweep' \in SweepRecord
        /\ \A a \in sweep'.todo : artists[a] # NoRow /\ ~Tried(a)
        /\ sweep'.at # "upsert" /\ sweep'.at # "record"
        /\ sweep'.at \in {"wait", "match"} =>
             /\ sweep'.hand \in Mbid /\ artists[sweep'.hand] # NoRow /\ ~Tried(sweep'.hand)
             /\ sweep'.hand \notin sweep'.todo
    <3>1. CASE SweepLists
      <4>1. Missing \in SUBSET Mbid /\ \A a \in Missing : artists[a] # NoRow /\ ~Tried(a)
        BY <1>0 DEF Missing, RowsStay
      <4>2. sweep' = Sweeping("next", Missing, NoRow) \/ sweep' = Sweeping("off", {}, NoRow)
        BY <3>1 DEF SweepLists, NoSweep
      <4>. QED
        BY <4>1, <4>2, SweepSteps
    <3>2. CASE SweepNext
      <4>1. \/ sweep' = Sweeping("off", {}, NoRow)
            \/ \E a \in sweep.todo : sweep' = Sweeping("wait", sweep.todo \ {a}, a)
        BY <3>2 DEF SweepNext, NoSweep
      <4>2. CASE sweep' = Sweeping("off", {}, NoRow)
        BY <4>2, SweepSteps
      <4>3. ASSUME NEW a \in sweep.todo, sweep' = Sweeping("wait", sweep.todo \ {a}, a)
            PROVE  /\ sweep' \in SweepRecord /\ sweep'.todo = sweep.todo \ {a}
                   /\ sweep'.at = "wait" /\ sweep'.hand = a /\ a \in Mbid
        <5>1. a \in Mbid /\ sweep.todo \ {a} \in SUBSET Mbid
          BY <1>0 DEF SweepRecord
        <5>. QED
          BY <4>3, <5>1, SweepSteps
      <4>4. \A a \in sweep.todo : artists[a] # NoRow /\ ~Tried(a)
        BY <1>0 DEF RowsStay, Cooldown
      <4>. QED
        BY <4>1, <4>2, <4>3, <4>4
    <3>3. CASE SweepWaits
      <4>1. /\ sweep.at = "wait" /\ sweep'.todo = sweep.todo /\ sweep'.hand = sweep.hand
            /\ sweep' \in SweepRecord /\ sweep'.at \in {"wait", "match"}
        <5>1. sweep.polls \in 0..MaxPolls /\ sweep \in SweepRecord /\ sweep.at = "wait"
          BY <1>0, <3>3 DEF SweepWaits, SweepRecord
        <5>2. CASE sweep' = [sweep EXCEPT !.at = "match", !.polls = 0]
          <6>1. 0 \in 0..MaxPolls
            BY <1>0
          <6>. QED
            BY <5>1, <5>2, <6>1 DEF SweepRecord
        <5>3. CASE sweep.polls # MaxPolls /\ sweep' = [sweep EXCEPT !.polls = @ + 1]
          <6>1. sweep.polls + 1 \in 0..MaxPolls
            BY <1>0, <5>1, <5>3
          <6>. QED
            BY <5>1, <5>3, <6>1 DEF SweepRecord
        <5>. QED
          BY <3>3, <5>1, <5>2, <5>3 DEF SweepWaits
      <4>. QED
        BY <1>0, <4>1 DEF RowsStay, Cooldown, ArtTypes
    <3>. QED
      BY <1>9, <3>1, <3>2, <3>3
  <2>3. ArtTypes' /\ Gate'
    BY <1>0, <2>1, <2>2 DEF ArtTypes, Gate, AtLookup
  <2>4. RowsStay' /\ Cooldown' /\ PicturesStay'
    BY <1>0, <2>1, <2>2 DEF RowsStay, Cooldown, PicturesStay, Pictured, Tried
  <2>. QED
    BY <2>3, <2>4 DEF ArtInv
<1>10. CASE SweepMatches
  <2>1. /\ UNCHANGED <<artists, watched, adds, gate, pictured, nAdds, nBoots>>
        /\ sweep.at = "match" /\ sweep.hand \in Mbid
    BY <1>0, <1>10 DEF SweepMatches, tables, ArtTypes
  <2>2. /\ sweep' \in SweepRecord /\ sweep'.todo = sweep.todo
        /\ \/ sweep'.at = "next" /\ missed' = missed
           \/ sweep'.at = "record" /\ sweep'.hand = sweep.hand /\ missed' = missed \ {sweep.hand}
           \/ /\ sweep'.at = "upsert" /\ sweep'.hand = sweep.hand
              /\ missed' \in SUBSET (missed \union {sweep.hand})
    <3>1. CASE SweepMovesOn /\ UNCHANGED missed
      BY <1>0, <3>1, MovesOnType
    <3>2. CASE /\ sweep' = [sweep EXCEPT !.at = "record"]
               /\ missed' = missed \ {sweep.hand}
      BY <1>0, <3>2 DEF SweepRecord
    <3>3. ASSUME NEW found \in BOOLEAN,
                 sweep' = [sweep EXCEPT !.at = "upsert", !.found = found],
                 missed' = (missed \ {sweep.hand}) \union IF found THEN {sweep.hand} ELSE {}
          PROVE  /\ sweep' \in SweepRecord /\ sweep'.todo = sweep.todo
                 /\ sweep'.at = "upsert" /\ sweep'.hand = sweep.hand
                 /\ missed' \in SUBSET (missed \union {sweep.hand})
      BY <1>0, <3>3 DEF SweepRecord
    <3>. QED
      BY <1>10, <3>1, <3>2, <3>3 DEF SweepMatches
  <2>3. ArtTypes' /\ Gate'
    BY <1>0, <2>1, <2>2 DEF ArtTypes, Gate, AtLookup
  <2>4. RowsStay' /\ Cooldown' /\ PicturesStay'
    BY <1>0, <2>1, <2>2 DEF RowsStay, Cooldown, PicturesStay, Pictured, Tried
  <2>. QED
    BY <2>3, <2>4 DEF ArtInv
<1>11. CASE SweepUpserts
  <2>. PICK a \in Mbid, found \in BOOLEAN : a = sweep.hand /\ found = sweep.found
    BY <1>0, <1>11 DEF SweepUpserts, SweepRecord, ArtTypes
  <2>1. /\ UNCHANGED <<watched, adds, gate, nAdds, nBoots>>
        /\ sweep.at = "upsert"
        /\ sweep' = [sweep EXCEPT !.at = "record"] /\ missed' = missed \ {a}
        /\ Upserts(a, found)
    BY <1>0, <1>11 DEF SweepUpserts, SweepRecord, ArtTypes
  <2>3. /\ artists' \in [Mbid -> {NoRow} \union ArtistRecord]
        /\ \A b \in Mbid : artists[b] # NoRow => artists'[b] # NoRow
        /\ \A b \in Mbid : (Pictured(b) => Pictured(b)') /\ (Tried(b)' <=> Tried(b))
        /\ found => Pictured(a)'
    BY <1>0, <2>1, UpsertWrites
  <2>4. pictured' = IF found THEN pictured \union {a} ELSE pictured
    BY <1>0, <2>1, UpsertWrites
  <2>5. /\ sweep' \in SweepRecord /\ sweep'.at = "record"
        /\ sweep'.todo = sweep.todo /\ sweep'.hand = a
    BY <1>0, <2>1 DEF SweepRecord
  <2>6. ArtTypes' /\ Gate'
    BY <1>0, <2>1, <2>3, <2>4, <2>5 DEF ArtTypes, Gate, AtLookup
  <2>7. RowsStay'
    BY <1>0, <2>1, <2>3, <2>5 DEF RowsStay, AddRecord, SweepRecord
  <2>8. Cooldown' /\ PicturesStay'
    BY <1>0, <2>1, <2>3, <2>4, <2>5 DEF Cooldown, PicturesStay, SweepRecord
  <2>. QED
    BY <2>6, <2>7, <2>8 DEF ArtInv
<1>12. CASE SweepUpsertFails
  <2>1. /\ UNCHANGED <<artists, watched, adds, gate, missed, pictured, nAdds, nBoots>>
        /\ sweep' \in SweepRecord /\ sweep'.at = "next" /\ sweep'.todo = sweep.todo
    BY <1>0, <1>12, MovesOnType DEF SweepUpsertFails, tables
  <2>2. ArtTypes' /\ Gate'
    BY <1>0, <2>1 DEF ArtTypes, Gate, AtLookup
  <2>3. RowsStay' /\ Cooldown' /\ PicturesStay'
    BY <1>0, <2>1 DEF RowsStay, Cooldown, PicturesStay, Pictured, Tried
  <2>. QED
    BY <2>2, <2>3 DEF ArtInv
<1>13. CASE SweepRecords
  <2>. PICK a \in Mbid : a = sweep.hand
    BY <1>0, <1>13 DEF SweepRecords, ArtTypes
  <2>1. /\ UNCHANGED <<watched, adds, gate, missed, pictured, nAdds, nBoots>>
        /\ sweep.at = "record" /\ a \in Mbid /\ a \notin sweep.todo
        /\ a \notin missed \/ Pictured(a)
        /\ sweep' \in SweepRecord /\ sweep'.at = "next" /\ sweep'.todo = sweep.todo
    BY <1>0, <1>13, MovesOnType DEF SweepRecords, Cooldown
  <2>p. PICK p \in BOOLEAN : p = Pictured(a)
    BY DEF Pictured
  <2>2. artists' = artists \/ Writes(a, p, TRUE)
    <3>1. artists[a] # NoRow /\ artists[a] \in ArtistRecord
      BY <1>0, <2>1 DEF RowsStay
    <3>2. artists' = artists \/ artists' = [artists EXCEPT ![a].tried = TRUE]
      BY <1>13 DEF SweepRecords
    <3>3. LET row == [artists[a] EXCEPT !.tried = TRUE]
          IN  row \in ArtistRecord /\ row.picture = p /\ row.tried = TRUE
      <4>1. p = artists[a].picture
        BY <2>p, <3>1 DEF Pictured, ArtistRecord
      <4>. QED
        BY <3>1, <4>1 DEF ArtistRecord
    <3>. QED
      BY <3>2, <3>3 DEF Writes
  <2>3. /\ artists' \in [Mbid -> {NoRow} \union ArtistRecord]
        /\ \A b \in Mbid : artists[b] # NoRow => artists'[b] # NoRow
        /\ \A b \in Mbid : Pictured(b)' <=> Pictured(b)
        /\ \A b \in Mbid \ {a} : Tried(b)' <=> Tried(b)
    <3>1. CASE artists' = artists
      BY <1>0, <3>1 DEF Pictured, Tried
    <3>2. CASE Writes(a, p, TRUE)
      BY <1>0, <2>p, <3>2, WritesType
    <3>. QED
      BY <2>2, <3>1, <3>2
  <2>4. ArtTypes' /\ Gate'
    BY <1>0, <2>1, <2>3 DEF ArtTypes, Gate, AtLookup
  <2>5. RowsStay'
    BY <1>0, <2>1, <2>3 DEF RowsStay, AddRecord, SweepRecord
  <2>6. Cooldown' /\ PicturesStay'
    BY <1>0, <2>1, <2>3 DEF Cooldown, PicturesStay, SweepRecord
  <2>. QED
    BY <2>4, <2>5, <2>6 DEF ArtInv
<1>14. CASE ProcessRestarts
  <2>1. /\ adds' = << >> /\ gate' = 0 /\ sweep' = Sweeping("list", {}, NoRow)
        /\ nBoots' \in 1..MaxBoots
        /\ UNCHANGED <<artists, watched, missed, pictured, nAdds>>
    BY <1>0, <1>14 DEF ProcessRestarts, Boot, tables
  <2>2. /\ sweep' \in SweepRecord /\ sweep'.at = "list" /\ sweep'.todo = {}
    BY <2>1, SweepSteps
  <2>3. DOMAIN adds' = {} /\ AtLookup' = {}
    BY <2>1 DEF AtLookup
  <2>4. ArtTypes' /\ Gate'
    BY <1>0, <2>1, <2>2, <2>3, FS_EmptySet DEF ArtTypes, Gate
  <2>5. RowsStay' /\ Cooldown' /\ PicturesStay'
    BY <1>0, <2>1, <2>2, <2>3 DEF RowsStay, Cooldown, PicturesStay, Pictured, Tried
  <2>. QED
    BY <2>4, <2>5 DEF ArtInv
<1>15. CASE UNCHANGED artVars
  <2>1. UNCHANGED <<artists, watched, adds, gate, sweep, missed, pictured, nAdds, nBoots>>
    BY <1>15 DEF artVars, tables
  <2>2. ArtTypes' /\ Gate'
    BY <1>0, <2>1 DEF ArtTypes, Gate, AtLookup
  <2>3. RowsStay' /\ Cooldown' /\ PicturesStay'
    BY <1>0, <2>1 DEF RowsStay, Cooldown, PicturesStay, Pictured, Tried
  <2>. QED
    BY <2>2, <2>3 DEF ArtInv
<1>. QED
  BY <1>1, <1>2, <1>3, <1>4, <1>5, <1>6, <1>7, <1>8, <1>9, <1>10, <1>11, <1>12,
     <1>13, <1>14, <1>15 DEF ArtNext, SweepStep

LEMMA ServerSteps == [ServerNext]_serverVars => [ArtNext]_artVars
  BY DEF ServerNext, serverVars, Only

(* The types of ArtistArt and what it keeps, in every state of the server's  *)
(* parts: no picture is lost, one that was found is stored or looked for     *)
(* again, the gate is up exactly during lookups, an entry has its artist.    *)
THEOREM PicturesAreKept == ServerSpec => []ArtHolds
<1>1. ServerInit => ArtInv
  BY ArtInitially DEF ServerInit
<1>2. ArtInv /\ [ServerNext]_serverVars => ArtInv'
  BY ArtStep, ServerSteps
<1>3. ArtInv => ArtHolds
  <2>. SUFFICES ASSUME ArtInv PROVE ArtHolds
    OBVIOUS
  <2>0. /\ sweep.at \in {"off", "list", "next", "wait", "match", "upsert", "record"}
        /\ sweep.todo \subseteq Mbid /\ sweep.polls \in 0..MaxPolls
    BY DEF ArtInv, ArtTypes, SweepRecord
  <2>3. DOMAIN adds \subseteq 1..MaxAdds
    BY ArtAssumption DEF ArtInv, ArtTypes
  <2>1. ArtTypeOK
    BY <2>0, <2>3 DEF ArtInv, ArtTypes, ArtTypeOK, ArtistRecord
  <2>2. ArtIsKept
    BY DEF ArtInv, RowsStay, PicturesStay, Gate, AtLookup, ArtIsKept
  <2>. QED
    BY <2>1, <2>2 DEF ArtHolds
<1>. QED
  BY <1>1, <1>2, <1>3, PTL DEF ServerSpec

-----------------------------------------------------------------------------
(* The calendar of digests: dates, and the midnights they begin at.          *)

Midnight(d) == d * DayLength

SlotLocal(d) == Midnight(d) + SlotTime

\* The instant at which the clocks show the slot's time on a date.
SlotOf(d) ==
  SlotLocal(d) - IF Forward <= SlotLocal(d) /\ SlotLocal(d) < Back THEN Shift ELSE 0

LEMMA Units ==
  /\ DayLength \in Nat \ {0} /\ Shift \in Nat \ {0} /\ SlotTime \in Nat
  /\ Forward \in Nat /\ Back \in Nat /\ LastInstant \in Nat
  /\ Forward + Shift < Back /\ SlotWeekday \in 0..6
  BY CalendarAssumption

LEMMA MidnightType == ASSUME NEW d \in Int PROVE Midnight(d) \in Int
  BY Units DEF Midnight

LEMMA MidnightsApart ==
  ASSUME NEW d \in Int, NEW e \in Int, d < e
  PROVE  Midnight(d) + DayLength <= Midnight(e)
<1>1. (e - d - 1) * DayLength >= 0
  BY Units
<1>. QED
  BY <1>1, Units DEF Midnight

LEMMA DateAndTime ==
  ASSUME NEW l \in Int
  PROVE  /\ Date(l) \in Int /\ TimeOfDay(l) \in 0..(DayLength - 1)
         /\ l = Midnight(Date(l)) + TimeOfDay(l)
<1>1. Date(l) \in Int /\ TimeOfDay(l) \in 0..(DayLength - 1)
  BY Units DEF Date, TimeOfDay
<1>2. l - (DayLength * Date(l)) = TimeOfDay(l)
  BY Units DEF Date, TimeOfDay
<1>. QED
  BY <1>1, <1>2, Units DEF Midnight

\* A local time has one date.
LEMMA DateIs ==
  ASSUME NEW d \in Int, NEW r \in 0..(DayLength - 1)
  PROVE  Date(Midnight(d) + r) = d /\ TimeOfDay(Midnight(d) + r) = r
<1>. DEFINE l == Midnight(d) + r
<1>1. l \in Int
  BY MidnightType, Units
<1>2. PICK q \in Int, m \in 0..(DayLength - 1) :
        q = Date(l) /\ m = TimeOfDay(l) /\ l = Midnight(q) + m
  BY <1>1, DateAndTime
<1>3. ~(q < d) /\ ~(d < q)
  BY <1>2, MidnightsApart, MidnightType, Units
<1>4. q = d
  BY <1>3
<1>. QED
  BY <1>2, <1>4, MidnightType, Units

LEMMA ForwardDate ==
  \E f \in Int, r \in Nat :
    /\ Forward = Midnight(f) + r
    /\ SlotTime < r /\ Shift <= r /\ r + 2 * Shift <= DayLength
<1>1. /\ Date(Forward) \in Int /\ TimeOfDay(Forward) \in Nat
      /\ Forward = Midnight(Date(Forward)) + TimeOfDay(Forward)
  BY DateAndTime, Units
<1>2. /\ SlotTime < TimeOfDay(Forward) /\ Shift <= TimeOfDay(Forward)
      /\ TimeOfDay(Forward) + 2 * Shift <= DayLength
  BY CalendarAssumption DEF TimeOfDay
<1>. QED
  BY <1>1, <1>2

LEMMA BackDate ==
  \E b \in Int, r \in Nat :
    Back = Midnight(b) + r /\ SlotTime < r /\ r + Shift <= DayLength
<1>1. /\ Date(Back) \in Int /\ TimeOfDay(Back) \in Nat
      /\ Back = Midnight(Date(Back)) + TimeOfDay(Back)
  BY DateAndTime, Units
<1>2. SlotTime < TimeOfDay(Back) /\ TimeOfDay(Back) + Shift <= DayLength
  BY CalendarAssumption DEF TimeOfDay
<1>. QED
  BY <1>1, <1>2

\* No slot is within an hour that is skipped or comes twice.
LEMMA SlotsAreClear ==
  ASSUME NEW d \in Int
  PROVE  /\ SlotLocal(d) \in Int
         /\ SlotLocal(d) < Forward \/ Forward + Shift <= SlotLocal(d)
         /\ SlotLocal(d) < Back \/ Back + Shift <= SlotLocal(d)
<1>0. Midnight(d) \in Int
  BY MidnightType
<1>1. PICK f \in Int, r \in Nat :
        Forward = Midnight(f) + r /\ SlotTime < r /\ r + 2 * Shift <= DayLength
  BY ForwardDate
<1>2. PICK b \in Int, q \in Nat :
        Back = Midnight(b) + q /\ SlotTime < q /\ q + Shift <= DayLength
  BY BackDate
<1>3. SlotLocal(d) < Forward \/ Forward + Shift <= SlotLocal(d)
  <2>1. d < f \/ d = f \/ f < d
    OBVIOUS
  <2>. QED
    BY <1>0, <1>1, <2>1, MidnightType, MidnightsApart, Units DEF SlotLocal
<1>4. SlotLocal(d) < Back \/ Back + Shift <= SlotLocal(d)
  <2>1. d < b \/ d = b \/ b < d
    OBVIOUS
  <2>. QED
    BY <1>0, <1>2, <2>1, MidnightType, MidnightsApart, Units DEF SlotLocal
<1>. QED
  BY <1>0, <1>3, <1>4, Units DEF SlotLocal

\* The clocks show the slot's time on a date at one instant, which Go finds.
LEMMA CandidateOf ==
  ASSUME NEW d \in Int
  PROVE  /\ SlotOf(d) \in Int /\ In(SlotOf(d)) = SlotLocal(d)
         /\ \A t \in Int : In(t) = SlotLocal(d) => t = SlotOf(d)
         /\ At(d, SlotTime) = {SlotOf(d)}
<1>. DEFINE l == SlotLocal(d)
<1>1. /\ l \in Int
      /\ l < Forward \/ Forward + Shift <= l
      /\ l < Back \/ Back + Shift <= l
  BY SlotsAreClear
<1>2. SlotOf(d) \in {l, l - Shift} /\ SlotOf(d) \in Int /\ In(SlotOf(d)) = l
  BY <1>1, Units DEF SlotOf, In, Offset
<1>3. ASSUME NEW t \in Int, In(t) = l PROVE t = SlotOf(d)
  BY <1>1, <1>3, Units DEF SlotOf, In, Offset
<1>4. {t \in {l, l - Shift} : In(t) = l} = {SlotOf(d)}
  BY <1>1, <1>2, <1>3, Units
<1>5. At(d, SlotTime) = {SlotOf(d)}
  BY <1>4 DEF At, SlotLocal, Midnight
<1>. QED
  BY <1>2, <1>3, <1>5

\* Whatever Go chooses for an hour that is skipped or comes twice, the date
\* is the one it was asked for.
LEMMA AtDate ==
  ASSUME NEW d \in Int, NEW time \in 0..(DayLength - 1)
  PROVE  /\ At(d, time) # {}
         /\ \A t \in At(d, time) : t \in Int /\ Date(In(t)) = d
<1>. DEFINE l == Midnight(d) + time
            shown == {t \in {l, l - Shift} : In(t) = l}
<1>1. l \in Int /\ Midnight(d) \in Int /\ Date(l) = d
  BY MidnightType, DateIs, Units
<1>2. At(d, time) = IF shown # {} THEN shown ELSE {l, l - Shift}
  BY DEF At, Midnight
<1>3. CASE shown # {}
  BY <1>1, <1>2, <1>3, Units
<1>4. CASE shown = {}
  <2>1. Forward <= l /\ l < Forward + Shift /\ In(l) = l + Shift /\ In(l - Shift) = l - Shift
    BY <1>1, <1>4, Units DEF In, Offset
  <2>2. PICK f \in Int, r \in Nat :
          Forward = Midnight(f) + r /\ Shift <= r /\ r + 2 * Shift <= DayLength
    BY ForwardDate
  <2>3. Midnight(f) \in Int
    BY MidnightType
  <2>4. ~(d < f) /\ ~(f < d)
    BY <1>1, <2>1, <2>2, <2>3, MidnightsApart, Units
  <2>5. d = f
    BY <2>4
  <2>6. time + Shift \in 0..(DayLength - 1) /\ time - Shift \in 0..(DayLength - 1)
    BY <1>1, <2>1, <2>2, <2>5, Units
  <2>7. /\ Date(Midnight(d) + (time + Shift)) = d
        /\ Date(Midnight(d) + (time - Shift)) = d
    BY <2>6, DateIs
  <2>8. /\ In(l) = Midnight(d) + (time + Shift)
        /\ In(l - Shift) = Midnight(d) + (time - Shift)
    BY <1>1, <2>1, Units
  <2>. QED
    BY <1>1, <1>2, <1>4, <2>7, <2>8, Units
<1>. QED
  BY <1>3, <1>4

LEMMA SlotsInOrder ==
  ASSUME NEW d \in Int, NEW e \in Int, d < e
  PROVE  SlotOf(d) < SlotOf(e)
<1>1. SlotLocal(d) + DayLength <= SlotLocal(e)
  BY MidnightsApart, MidnightType, Units DEF SlotLocal
<1>2. PICK f \in Int, r \in Nat :
        Forward = Midnight(f) + r /\ Shift <= r /\ r + 2 * Shift <= DayLength
  BY ForwardDate
<1>3. Shift < DayLength
  BY <1>2, Units
<1>. QED
  BY <1>1, <1>3, SlotsAreClear, Units DEF SlotOf

\* The slot of a date has begun once its time has, on the clocks.
LEMMA Around ==
  ASSUME NEW t \in Int, NEW d \in Int, d = Date(In(t))
  PROVE  SlotOf(d - 1) < t /\ t < SlotOf(d + 1)
<1>1. In(t) \in Int /\ SlotLocal(d - 1) \in Int /\ SlotLocal(d + 1) \in Int
  BY SlotsAreClear, Units DEF In, Offset
<1>2. PICK m \in 0..(DayLength - 1) : In(t) = Midnight(d) + m
  BY <1>1, DateAndTime
<1>3. /\ Midnight(d - 1) \in Int /\ Midnight(d) \in Int /\ Midnight(d + 1) \in Int
      /\ Midnight(d - 1) + DayLength <= Midnight(d)
      /\ Midnight(d) + DayLength <= Midnight(d + 1)
  BY MidnightType, MidnightsApart
<1>4. PICK f \in Int, r \in Nat :
        /\ Forward = Midnight(f) + r
        /\ SlotTime < r /\ Shift <= r /\ r + 2 * Shift <= DayLength
  BY ForwardDate
<1>5. SlotLocal(d - 1) + 2 * Shift < In(t)
  BY <1>2, <1>3, <1>4, Units DEF SlotLocal
<1>6. In(t) < SlotLocal(d + 1)
  BY <1>2, <1>3, Units DEF SlotLocal
<1>7. SlotOf(d - 1) < t
  BY <1>1, <1>5, Units DEF SlotOf, In, Offset
<1>8. t < SlotOf(d + 1)
  <2>1. /\ SlotLocal(d + 1) < Forward \/ Forward + Shift <= SlotLocal(d + 1)
        /\ SlotLocal(d + 1) < Back \/ Back + Shift <= SlotLocal(d + 1)
    BY SlotsAreClear
  <2>. QED
    BY <1>1, <1>6, <2>1, Units DEF SlotOf, In, Offset
<1>. QED
  BY <1>7, <1>8

\* The dates a cadence has slots on, and that they are a period apart.
OnCadence(d, c) == c = "weekly" => d % 7 = SlotWeekday

LEMMA PeriodType ==
  ASSUME NEW c \in Cadence
  PROVE  /\ Period(c) \in {1, 7} /\ (c = "weekly" <=> Period(c) = 7)
  BY DEF Period, Cadence

LEMMA PeriodsApart ==
  ASSUME NEW c \in Cadence, NEW d \in Int, NEW e \in Int,
         OnCadence(d, c), OnCadence(e, c), d < e
  PROVE  d + Period(c) <= e
<1>1. CASE c = "weekly"
  <2>1. d % 7 = e % 7 /\ Period(c) = 7
    BY <1>1 DEF OnCadence, Period
  <2>. QED
    BY <2>1
<1>. QED
  BY <1>1 DEF Period

\* What MostRecentSlot finds is one slot: the last one of the cadence that
\* is not after t.
LEMMA Found ==
  ASSUME NEW t \in Int, NEW c \in Cadence
  PROVE  \E d \in Int :
           /\ MostRecentSlot(t, c) = {SlotOf(d)} /\ OnCadence(d, c)
           /\ SlotOf(d) <= t /\ t < SlotOf(d + Period(c))
<1>. DEFINE today == Date(In(t))
            n     == DaysBack(t, c)
            P     == Period(c)
            d     == today - n
            found == IF t < SlotOf(d) THEN d - P ELSE d
<1>1. /\ In(t) \in Int /\ today \in Int
      /\ TimeOfDay(In(t)) \in 0..(DayLength - 1)
  BY DateAndTime, Units DEF In, Offset
<1>2. P \in Int /\ n \in 0..(P - 1) /\ d \in Int /\ found \in Int
  <2>1. CASE c = "weekly"
    BY <1>1, <2>1, Units DEF DaysBack, Period, Weekday
  <2>2. CASE c # "weekly"
    BY <1>1, <2>2, Units DEF DaysBack, Period
  <2>. QED
    BY <2>1, <2>2
<1>3. OnCadence(d, c) /\ OnCadence(found, c)
  <2>. SUFFICES ASSUME c = "weekly" PROVE d % 7 = SlotWeekday /\ (d - 7) % 7 = SlotWeekday
    BY DEF OnCadence, Period
  <2>1. n = ((today % 7) - SlotWeekday + 7) % 7
    BY DEF DaysBack, Weekday
  <2>. QED
    BY <1>1, <2>1, Units
<1>4. /\ AddDate(t, n) # {}
      /\ \A a \in AddDate(t, n) : a \in Int /\ Date(In(a)) = d
  BY <1>1, <1>2, AtDate DEF AddDate
<1>5. ASSUME NEW a \in AddDate(t, n)
      PROVE  /\ a \in Int /\ Candidate(a) = {SlotOf(d)}
             /\ AddDate(a, P) # {}
             /\ \A b \in AddDate(a, P) : Candidate(b) = {SlotOf(d - P)}
  <2>1. a \in Int /\ Date(In(a)) = d
    BY <1>4, <1>5
  <2>2. In(a) \in Int /\ TimeOfDay(In(a)) \in 0..(DayLength - 1)
    BY <2>1, DateAndTime, Units DEF In, Offset
  <2>3. d - P \in Int
    BY <1>2
  <2>4. /\ AddDate(a, P) # {}
        /\ \A b \in AddDate(a, P) : Date(In(b)) = d - P
    BY <2>1, <2>2, <2>3, AtDate DEF AddDate
  <2>. QED
    BY <1>2, <2>1, <2>3, <2>4, CandidateOf DEF Candidate
<1>6. MostRecentSlot(t, c) = {SlotOf(found)}
  <2>. DEFINE kept(a) == IF \E slot \in Candidate(a) : t < slot
                           THEN AddDate(a, P) ELSE {a}
  <2>1. ASSUME NEW a \in AddDate(t, n)
        PROVE  kept(a) # {} /\ \A b \in kept(a) : Candidate(b) = {SlotOf(found)}
    BY <1>5, <2>1
  <2>2. MostRecentSlot(t, c) =
          UNION {Candidate(b) : b \in UNION {kept(a) : a \in AddDate(t, n)}}
    BY DEF MostRecentSlot
  <2>. HIDE DEF kept, found, n
  <2>3. UNION {kept(a) : a \in AddDate(t, n)} # {}
    BY <1>4, <2>1
  <2>4. \A b \in UNION {kept(a) : a \in AddDate(t, n)} : Candidate(b) = {SlotOf(found)}
    BY <2>1
  <2>. QED
    BY <2>2, <2>3, <2>4
<1>7. SlotOf(found) <= t /\ t < SlotOf(found + P)
  <2>1. SlotOf(today - 1) < t /\ t < SlotOf(today + 1)
    BY <1>1, Around
  <2>2. \A e \in Int : SlotOf(e) \in Int
    BY CandidateOf
  <2>3. CASE t < SlotOf(d)
    <3>1. d = today
      <4>1. SUFFICES ASSUME d < today PROVE FALSE
        BY <1>1, <1>2
      <4>2. d = today - 1 \/ d < today - 1
        BY <1>1, <1>2, <4>1
      <4>3. SlotOf(d) <= SlotOf(today - 1)
        BY <1>1, <1>2, <2>2, <4>2, SlotsInOrder
      <4>. QED
        BY <1>1, <1>2, <2>1, <2>2, <2>3, <4>3
    <3>2. d - P = today - 1 \/ d - P < today - 1
      BY <1>1, <1>2, <3>1
    <3>3. SlotOf(d - P) <= SlotOf(today - 1)
      BY <1>1, <1>2, <2>2, <3>2, SlotsInOrder
    <3>4. found = d - P /\ found + P = d
      BY <1>2, <2>3
    <3>. QED
      BY <1>1, <1>2, <2>1, <2>2, <2>3, <3>3, <3>4
  <2>4. CASE ~(t < SlotOf(d))
    <3>1. today + 1 = d + P \/ today + 1 < d + P
      BY <1>1, <1>2
    <3>2. SlotOf(today + 1) <= SlotOf(d + P)
      BY <1>1, <1>2, <2>2, <3>1, SlotsInOrder
    <3>. QED
      BY <1>1, <1>2, <2>1, <2>2, <2>4, <3>2
  <2>. QED
    BY <2>3, <2>4
<1>. QED
  BY <1>2, <1>3, <1>6, <1>7

\* The instants of DigestSchedule are the slots of dates.
LEMMA SlotsAreDates ==
  ASSUME NEW c \in Cadence, NEW u
  PROVE  u \in Schedule!Slots(c) <=>
           /\ u \in 0..LastInstant
           /\ \E d \in Int : OnCadence(d, c) /\ u = SlotOf(d)
<1>1. PICK r \in Nat : SlotTime < r /\ r + 2 * Shift <= DayLength
  BY ForwardDate
<1>2. SlotTime \in 0..(DayLength - 1)
  BY <1>1, Units
<1>3. ASSUME NEW d \in Int
      PROVE  /\ Date(In(SlotOf(d))) = d /\ TimeOfDay(In(SlotOf(d))) = SlotTime
             /\ Weekday(In(SlotOf(d))) = d % 7
  BY <1>2, CandidateOf, DateIs DEF SlotLocal, Weekday
<1>4. ASSUME NEW t \in 0..LastInstant, TimeOfDay(In(t)) = SlotTime
      PROVE  Date(In(t)) \in Int /\ t = SlotOf(Date(In(t)))
  <2>1. t \in Int /\ In(t) \in Int
    BY Units DEF In, Offset
  <2>2. Date(In(t)) \in Int /\ In(t) = SlotLocal(Date(In(t)))
    BY <1>4, <2>1, DateAndTime DEF SlotLocal
  <2>. QED
    BY <2>1, <2>2, CandidateOf
<1>5. u \in DailySlots <=> u \in 0..LastInstant /\ \E d \in Int : u = SlotOf(d)
  BY <1>3, <1>4 DEF DailySlots, Horizon
<1>6. u \in WeeklySlots <=>
        u \in 0..LastInstant /\ \E d \in Int : d % 7 = SlotWeekday /\ u = SlotOf(d)
  BY <1>3, <1>5 DEF WeeklySlots
<1>. QED
  BY <1>5, <1>6 DEF Schedule!Slots, OnCadence

\* The clock is on after some weekly slot.
CalendarInv ==
  now \in 0..LastInstant /\ \E t \in WeeklySlots : t <= now

LEMMA ScheduleAgrees ==
  ASSUME CalendarInv, NEW c \in Cadence,
         NEW d \in Int, OnCadence(d, c),
         SlotOf(d) <= now, now < SlotOf(d + Period(c))
  PROVE  Schedule!MostRecentSlot(now, c) = SlotOf(d)
<1>0. now \in 0..LastInstant /\ SlotOf(d) \in Int /\ LastInstant \in Nat
  BY CandidateOf, Units DEF CalendarInv
<1>1. ASSUME NEW u \in Schedule!Slots(c), u <= now PROVE u <= SlotOf(d)
  <2>1. PICK e \in Int : OnCadence(e, c) /\ u = SlotOf(e)
    BY SlotsAreDates
  <2>2. /\ SlotOf(e) \in Int /\ d + Period(c) \in Int /\ SlotOf(d + Period(c)) \in Int
    BY PeriodType, CandidateOf
  <2>3. CASE d < e
    <3>1. d + Period(c) = e \/ d + Period(c) < e
      <4>1. d + Period(c) <= e
        BY <2>1, <2>3, PeriodsApart
      <4>. QED
        BY <2>2, <4>1
    <3>2. SlotOf(d + Period(c)) <= SlotOf(e)
      BY <2>2, <3>1, SlotsInOrder
    <3>. QED
      BY <1>0, <1>1, <2>1, <2>2, <3>2
  <2>4. CASE d = e \/ e < d
    BY <1>0, <2>1, <2>2, <2>4, SlotsInOrder
  <2>. QED
    BY <2>3, <2>4
<1>2. PICK w \in WeeklySlots : w <= now
  BY DEF CalendarInv
<1>3. w \in Schedule!Slots(c)
  BY DEF Schedule!Slots, WeeklySlots
<1>4. SlotOf(d) \in 0..LastInstant
  <2>1. w \in 0..LastInstant /\ w <= SlotOf(d)
    BY <1>1, <1>2, <1>3, SlotsAreDates
  <2>. QED
    BY <1>0, <2>1
<1>5. SlotOf(d) \in Schedule!Slots(c)
  BY <1>4, SlotsAreDates
<1>6. ASSUME NEW s \in Schedule!Slots(c), s <= now,
             \A u \in Schedule!Slots(c) : u <= now => u <= s
      PROVE  s = SlotOf(d)
  <2>1. s \in Int
    BY <1>6, SlotsAreDates
  <2>. QED
    BY <1>0, <1>1, <1>5, <1>6, <2>1
<1>. QED
  BY <1>1, <1>5, <1>6 DEF Schedule!MostRecentSlot

LEMMA SlotsAreLatest == CalendarInv => SlotIsTheLatest
<1>. SUFFICES ASSUME CalendarInv, NEW c \in Cadence
              PROVE  /\ MostRecentSlot(now, c) = {Schedule!MostRecentSlot(now, c)}
                     /\ \A s \in MostRecentSlot(now, c), r \in MostRecentSlot(now + 1, c) :
                          r = s \/ (r = now + 1 /\ Date(In(r)) = Date(In(s)) + Period(c))
  BY DEF SlotIsTheLatest
<1>0. now \in Int /\ now + 1 \in Int /\ Period(c) \in Int
  BY PeriodType, Units DEF CalendarInv
<1>1. PICK d \in Int :
        /\ MostRecentSlot(now, c) = {SlotOf(d)} /\ OnCadence(d, c)
        /\ SlotOf(d) <= now /\ now < SlotOf(d + Period(c))
  BY <1>0, Found
<1>2. PICK e \in Int :
        /\ MostRecentSlot(now + 1, c) = {SlotOf(e)} /\ OnCadence(e, c)
        /\ SlotOf(e) <= now + 1 /\ now + 1 < SlotOf(e + Period(c))
  BY <1>0, Found
<1>3. MostRecentSlot(now, c) = {Schedule!MostRecentSlot(now, c)}
  BY <1>1, ScheduleAgrees
<1>4. e = d \/ (SlotOf(e) = now + 1 /\ e = d + Period(c))
  <2>1. \A b \in Int : SlotOf(b) \in Int
    BY CandidateOf
  <2>2. ~(e < d)
    <3>1. SUFFICES ASSUME e < d PROVE FALSE
      OBVIOUS
    <3>2. e + Period(c) = d \/ e + Period(c) < d
      BY <1>0, <1>1, <1>2, <3>1, PeriodsApart
    <3>3. SlotOf(e + Period(c)) <= SlotOf(d)
      BY <1>0, <2>1, <3>2, SlotsInOrder
    <3>. QED
      BY <1>0, <1>1, <1>2, <2>1, <3>3
  <2>3. ASSUME d < e PROVE SlotOf(e) = now + 1 /\ e = d + Period(c)
    <3>1. d + Period(c) = e \/ d + Period(c) < e
      BY <1>0, <1>1, <1>2, <2>3, PeriodsApart
    <3>2. d + Period(c) < e => SlotOf(d + Period(c)) < SlotOf(e)
      BY <1>0, SlotsInOrder
    <3>. QED
      BY <1>0, <1>1, <1>2, <2>1, <3>1, <3>2
  <2>. QED
    BY <2>2, <2>3
<1>5. ASSUME NEW b \in Int PROVE Date(In(SlotOf(b))) = b
  <2>1. PICK r \in Nat : SlotTime < r /\ r + 2 * Shift <= DayLength
    BY ForwardDate
  <2>2. SlotTime \in 0..(DayLength - 1)
    BY <2>1, Units
  <2>. QED
    BY <2>2, CandidateOf, DateIs DEF SlotLocal
<1>. QED
  BY <1>1, <1>2, <1>3, <1>4, <1>5

(* At every instant the slot that slot.go finds, by calendar dates and      *)
(* whatever time.Date makes of an ambiguous hour, is the one DigestSchedule *)
(* says it should be, and the next slot is a day or a week of dates later.  *)
THEOREM SlotsAreTheLatest == ServerSpec => []SlotIsTheLatest
<1>1. ServerInit => CalendarInv
  BY DEF ServerInit, CalendarInit, CalendarInv, WeeklySlots, DailySlots, Horizon
<1>2. CalendarInv /\ [ServerNext]_serverVars => CalendarInv'
  <2>. SUFFICES ASSUME CalendarInv, [ServerNext]_serverVars PROVE CalendarInv'
    OBVIOUS
  <2>1. now' = now \/ (now < LastInstant /\ now' = now + 1)
    BY DEF ServerNext, serverVars, CalendarNext, Only
  <2>2. PICK w \in WeeklySlots : w <= now
    BY DEF CalendarInv
  <2>3. w \in 0..LastInstant
    BY DEF WeeklySlots, DailySlots, Horizon
  <2>4. now' \in 0..LastInstant /\ w <= now'
    BY <2>1, <2>2, <2>3, Units DEF CalendarInv
  <2>. QED
    BY <2>4 DEF CalendarInv, WeeklySlots, DailySlots
<1>. QED
  BY <1>1, <1>2, SlotsAreLatest, PTL DEF ServerSpec
-----------------------------------------------------------------------------
(* How a digest is cut: first, sets of numbers and loops.  Induction is from *)
(* the least counterexample (LeastOf).                                       *)

\* A set of numbers that is not empty has a least one.
LEMMA LeastOf ==
  ASSUME NEW S \in SUBSET Nat, S # {}
  PROVE  \E n \in S : \A m \in S : n <= m
<1>0. IsWellFoundedOn(OpToRel(<, Nat), Nat)
  BY NatLessThanWellFounded
<1>1. PICK n \in S : \A m \in S : ~(<<m, n>> \in OpToRel(<, Nat))
  BY <1>0, WFMin
<1>2. \A m \in S : ~(m < n)
  BY <1>1 DEF OpToRel
<1>. QED
  BY <1>2

\* Induction up to n, for a set of numbers.
LEMMA UpTo ==
  ASSUME NEW S, NEW n \in Nat, 0 \in S, \A i \in 0..(n - 1) : i \in S => i + 1 \in S
  PROVE  \A i \in 0..n : i \in S
<1>. SUFFICES ASSUME NEW i \in 0..n, i \notin S PROVE FALSE
  OBVIOUS
<1>1. PICK T : T = {m \in 0..n : m \notin S}
  OBVIOUS
<1>2. T \in SUBSET Nat /\ T # {}
  BY <1>1
<1>3. PICK k \in T : \A m \in T : k <= m
  BY <1>2, LeastOf
<1>4. k \in 1..n /\ k - 1 \in 0..(n - 1) /\ k - 1 \notin T /\ (k - 1) + 1 = k
  BY <1>1, <1>3
<1>5. k - 1 \in S
  BY <1>1, <1>4
<1>6. k \in S
  BY <1>4, <1>5
<1>. QED
  BY <1>1, <1>3, <1>6

\* A loop of n steps, the i-th of which is F[i].
LEMMA Iterates ==
  ASSUME NEW A, NEW a \in A, NEW n \in Nat, NEW F \in [1..n -> [A -> A]]
  PROVE  \E f \in [0..n -> A] : f[0] = a /\ \A i \in 1..n : f[i] = F[i][f[i - 1]]
<1>1. PICK S : S = {m \in 0..n : \E f \in [0..m -> A] :
                       f[0] = a /\ \A i \in 1..m : f[i] = F[i][f[i - 1]]}
  OBVIOUS
<1>2. 0 \in S
  <2>1. PICK e : e = [i \in 0..0 |-> a]
    OBVIOUS
  <2>2. e \in [0..0 -> A] /\ e[0] = a /\ 1..0 = {}
    BY <2>1
  <2>3. \E f \in [0..0 -> A] : f[0] = a /\ \A i \in 1..0 : f[i] = F[i][f[i - 1]]
    BY <2>2
  <2>. QED
    BY <1>1, <2>3
<1>3. ASSUME NEW m \in 0..(n - 1), m \in S PROVE m + 1 \in S
  <2>1. PICK f \in [0..m -> A] : f[0] = a /\ \A i \in 1..m : f[i] = F[i][f[i - 1]]
    BY <1>1, <1>3
  <2>2. PICK g : g = [i \in 0..(m + 1) |-> IF i = m + 1 THEN F[m + 1][f[m]] ELSE f[i]]
    OBVIOUS
  <2>3. m + 1 \in 1..n /\ f[m] \in A /\ F[m + 1] \in [A -> A]
    BY <2>1
  <2>4. g \in [0..(m + 1) -> A]
    BY <2>1, <2>2, <2>3
  <2>5. g[0] = a
    BY <2>1, <2>2
  <2>6. ASSUME NEW i \in 1..(m + 1) PROVE g[i] = F[i][g[i - 1]]
    <3>1. CASE i = m + 1
      BY <2>2, <3>1
    <3>2. CASE i # m + 1
      <4>1. i \in 1..m /\ i - 1 \in 0..m /\ i - 1 # m + 1
        BY <3>2
      <4>. QED
        BY <2>1, <2>2, <4>1
    <3>. QED
      BY <3>1, <3>2
  <2>7. m + 1 \in 0..n
    OBVIOUS
  <2>. QED
    BY <1>1, <2>4, <2>5, <2>6, <2>7
<1>4. \A m \in 0..(n - 1) : m \in S => m + 1 \in S
  BY <1>3
<1>5. \A m \in 0..n : m \in S
  BY <1>2, <1>4, UpTo
<1>6. n \in S
  BY <1>5
<1>. QED
  BY <1>1, <1>6

\* What a group cut so far is, after each of its lines, from what it is after
\* the line before (the loop of splitOversizedGroup).
LEMMA LinesPutIs ==
  ASSUME NEW A, NEW g, Len(g) \in Nat, Fresh(<<>>) \in A,
         \A c \in A, i \in 1..Len(g) : PutLine(c, g[i]) \in A
  PROVE  /\ LinesPut(g) \in [0..Len(g) -> A]
         /\ LinesPut(g)[0] = Fresh(<<>>)
         /\ \A i \in 1..Len(g) : LinesPut(g)[i] = PutLine(LinesPut(g)[i - 1], g[i])
<1>1. PICK n \in Nat : n = Len(g)
  OBVIOUS
<1>2. PICK F : F = [i \in 1..n |-> [c \in A |-> PutLine(c, g[i])]]
  OBVIOUS
<1>3. F \in [1..n -> [A -> A]]
  BY <1>1, <1>2
<1>4. PICK f \in [0..n -> A] :
        f[0] = Fresh(<<>>) /\ \A i \in 1..n : f[i] = F[i][f[i - 1]]
  BY <1>3, Iterates
<1>5. \A i \in 1..n : f[i] = PutLine(f[i - 1], g[i])
  BY <1>2, <1>4
<1>. DEFINE Loop(h) == h = [i \in 0..n |-> IF i = 0 THEN Fresh(<<>>) ELSE PutLine(h[i - 1], g[i])]
<1>6. Loop(f)
  BY <1>4, <1>5
<1>7. LinesPut(g) = CHOOSE h : Loop(h)
  BY <1>1 DEF LinesPut
<1>8. Loop(LinesPut(g))
  BY <1>6, <1>7
<1>9. PICK h : h = LinesPut(g)
  OBVIOUS
<1>10. h = [i \in 0..n |-> IF i = 0 THEN Fresh(<<>>) ELSE PutLine(h[i - 1], g[i])]
  BY <1>8, <1>9, Zenon
<1>13. /\ DOMAIN h = 0..n /\ h[0] = Fresh(<<>>)
       /\ \A i \in 1..n : h[i] = PutLine(h[i - 1], g[i])
  BY <1>10
<1>11. \A i \in 0..n : i \in {k \in 0..n : h[k] \in A}
  <2>1. 0 \in {k \in 0..n : h[k] \in A}
    BY <1>13
  <2>2. \A i \in 0..(n - 1) : i \in {k \in 0..n : h[k] \in A} => i + 1 \in {k \in 0..n : h[k] \in A}
    BY <1>1, <1>13
  <2>. QED
    BY <2>1, <2>2, UpTo
<1>12. h \in [0..n -> A]
  <2>1. h = [i \in 0..n |-> h[i]]
    BY <1>10, <1>13
  <2>2. \A i \in 0..n : h[i] \in A
    BY <1>11
  <2>. QED
    BY <2>1, <2>2
<1>. QED
  BY <1>1, <1>9, <1>13, <1>12

\* Each number of a finite set is at one place of the set in its order.
LEMMA InOrderIs ==
  ASSUME NEW S \in SUBSET Nat, IsFiniteSet(S)
  PROVE  /\ Cardinality(S) \in Nat
         /\ InOrder(S) \in [1..Cardinality(S) -> S]
         /\ IsInjective(InOrder(S))
         /\ \A e \in S : \E k \in 1..Cardinality(S) : InOrder(S)[k] = e
<1>. DEFINE Below(e) == {d \in S : d < e}
            n        == Cardinality(S)
<1>1. n \in Nat
  BY FS_CardinalityType
<1>2. ASSUME NEW e \in S
      PROVE  IsFiniteSet(Below(e)) /\ Cardinality(Below(e)) \in 0..(n - 1)
  <2>1. PICK low, rest : low = Below(e) /\ rest = S \ {e}
    OBVIOUS
  <2>2. low \in SUBSET rest
    BY <2>1
  <2>3. IsFiniteSet(rest) /\ Cardinality(rest) = n - 1
    BY <1>2, <2>1, FS_RemoveElement
  <2>. HIDE DEF n
  <2>4. IsFiniteSet(low) /\ Cardinality(low) <= Cardinality(rest)
    BY <2>2, <2>3, FS_Subset
  <2>5. Cardinality(low) \in Nat
    BY <2>4, FS_CardinalityType
  <2>. QED
    BY <1>1, <2>1, <2>3, <2>4, <2>5
<1>3. ASSUME NEW d \in S, NEW e \in S, d < e
      PROVE  Cardinality(Below(d)) < Cardinality(Below(e))
  <2>1. PICK low, high, rest : low = Below(d) /\ high = Below(e) /\ rest = high \ {d}
    OBVIOUS
  <2>2. low \in SUBSET rest /\ d \in high
    <3>1. ASSUME NEW c \in low PROVE c \in high /\ c # d
      <4>1. c \in Nat /\ d \in Nat /\ e \in Nat /\ c \in S /\ c < d
        BY <2>1
      <4>. QED
        BY <1>3, <2>1, <4>1
    <3>. QED
      BY <1>3, <2>1, <3>1
  <2>3. /\ IsFiniteSet(high) /\ Cardinality(high) \in 0..(n - 1)
        /\ Cardinality(low) \in 0..(n - 1)
    BY <1>2, <2>1
  <2>4. IsFiniteSet(rest) /\ Cardinality(rest) = Cardinality(high) - 1
    <3>1. IsFiniteSet(high) /\ rest = high \ {d} /\ d \in high
      BY <2>1, <2>2, <2>3
    <3>. QED
      BY <3>1, FS_RemoveElement
  <2>5. Cardinality(low) <= Cardinality(rest)
    BY <2>2, <2>4, FS_Subset
  <2>. HIDE DEF n, Below
  <2>. QED
    BY <1>1, <2>1, <2>3, <2>4, <2>5
<1>4. PICK rank : rank = [e \in S |-> Cardinality(Below(e))]
  OBVIOUS
<1>5. rank \in [S -> 0..(n - 1)] /\ \A e \in S : rank[e] = Cardinality(Below(e))
  BY <1>2, <1>4
<1>6. \A d, e \in S : d < e => rank[d] < rank[e]
  BY <1>3, <1>5
<1>. HIDE DEF n
<1>7. \A d, e \in S : rank[d] = rank[e] => d = e
  <2>1. \A d, e \in S : d \in Nat /\ e \in Nat /\ rank[d] \in Int /\ rank[e] \in Int
    BY <1>5
  <2>. QED
    BY <1>6, <2>1
<1>8. \A k \in 0..(n - 1) : \E e \in S : rank[e] = k
  <2>1. rank \in Injection(S, 0..(n - 1))
    BY <1>5, <1>7, Fun_IsInj
  <2>2. IsFiniteSet(0..(n - 1)) /\ Cardinality(0..(n - 1)) = n
    BY <1>1, FS_Interval
  <2>3. rank \in Surjection(S, 0..(n - 1))
    BY <2>1, <2>2, FS_Injection DEF n
  <2>4. PICK T : T = 0..(n - 1)
    OBVIOUS
  <2>5. rank \in Surjection(S, T)
    BY <2>3, <2>4
  <2>6. \A k \in T : \E e \in S : rank[e] = k
    BY <2>5, Fun_SurjectionProperties
  <2>. QED
    BY <2>4, <2>6
<1>9. PICK f : f = InOrder(S)
  OBVIOUS
<1>10. f = [k \in 1..n |-> CHOOSE e \in S : Cardinality(Below(e)) = k - 1]
  BY <1>9 DEF InOrder, n
<1>. HIDE DEF Below
<1>11. \A k \in 1..n : f[k] \in S /\ rank[f[k]] = k - 1
  <2>1. \A k \in 1..n : \E e \in S : Cardinality(Below(e)) = k - 1
    <3>1. \A k \in 1..n : k - 1 \in 0..(n - 1)
      BY <1>1
    <3>. QED
      BY <1>5, <1>8, <3>1
  <2>2. \A k \in 1..n : f[k] \in S /\ Cardinality(Below(f[k])) = k - 1
    BY <1>10, <2>1
  <2>. QED
    BY <1>5, <2>2
<1>12. f \in [1..n -> S]
  BY <1>10, <1>11
<1>13. IsInjective(f)
  <2>1. \A k, l \in 1..n : f[k] = f[l] => k = l
    BY <1>1, <1>11
  <2>. QED
    BY <1>12, <2>1 DEF IsInjective
<1>14. \A e \in S : \E k \in 1..n : f[k] = e
  <2>1. ASSUME NEW e \in S PROVE \E k \in 1..n : f[k] = e
    <3>1. rank[e] \in 0..(n - 1)
      BY <1>5
    <3>2. rank[e] + 1 \in 1..n /\ (rank[e] + 1) - 1 = rank[e]
      BY <1>1, <3>1
    <3>3. f[rank[e] + 1] \in S /\ rank[f[rank[e] + 1]] = rank[e]
      BY <1>11, <3>2
    <3>. QED
      BY <1>7, <3>2, <3>3
  <2>. QED
    BY <2>1
<1>. QED
  BY <1>1, <1>9, <1>12, <1>13, <1>14 DEF n

-----------------------------------------------------------------------------
(* Sequences of sequences.                                                   *)

\* What is put together of the first of n sequences.
SoFar(f, T, none, n, g) ==
  f \in [0..n -> T] /\ f[0] = none /\ \A i \in 1..n : f[i] = f[i - 1] \o g[i]

\* Any sequences may be put together, one after the other.
LEMMA ConcatsOf ==
  ASSUME NEW T, NEW none \in T, \A s, t \in T : s \o t \in T,
         NEW n \in Nat, NEW g, \A i \in 1..n : g[i] \in T
  PROVE  \E f : SoFar(f, T, none, n, g)
<1>1. PICK F : F = [i \in 1..n |-> [s \in T |-> s \o g[i]]]
  OBVIOUS
<1>2. F \in [1..n -> [T -> T]]
  BY <1>1
<1>3. PICK f \in [0..n -> T] : f[0] = none /\ \A i \in 1..n : f[i] = F[i][f[i - 1]]
  BY <1>2, Iterates
<1>4. ASSUME NEW i \in 1..n PROVE f[i] = f[i - 1] \o g[i]
  <2>1. i - 1 \in 0..n
    OBVIOUS
  <2>2. f[i - 1] \in T
    BY <2>1
  <2>3. F[i] = [s \in T |-> s \o g[i]] /\ f[i] = F[i][f[i - 1]]
    BY <1>1, <1>3, Zenon
  <2>. QED
    BY <2>2, <2>3, Zenon
<1>. QED
  BY <1>3, <1>4, Zenon DEF SoFar

\* What a sequence of sequences is when its parts are put together in their
\* order, from the first on.
LEMMA FlattenIs ==
  ASSUME NEW A, NEW gs \in Seq(Seq(A))
  PROVE  \E f : SoFar(f, Seq(A), <<>>, Len(gs), gs) /\ FlattenSeq(gs) = f[Len(gs)]
<1>1. PICK n \in Nat : n = Len(gs)
  OBVIOUS
<1>2. \A i \in 1..n : gs[i] \in Seq(A)
  BY <1>1
<1>3. PICK T, none : T = Seq(A) /\ none = <<>>
  OBVIOUS
<1>4. none \in T /\ \A s, t \in T : s \o t \in T
  BY <1>3, ConcatProperties
<1>5. \A i \in 1..n : gs[i] \in T
  BY <1>2, <1>3
<1>10. PICK f : SoFar(f, T, none, n, gs)
  BY <1>4, <1>5, ConcatsOf
<1>11. SoFar(f, Seq(A), <<>>, n, gs)
  BY <1>3, <1>10, Zenon
<1>6. f \in [0..n -> Seq(A)] /\ f[0] = <<>> /\ \A i \in 1..n : f[i] = f[i - 1] \o gs[i]
  BY <1>11, Zenon DEF SoFar
<1>7. \A i \in 1..n : f[i] = f[i - 1] \o gs[i]
  BY <1>6
<1>8. CASE n = 0
  <2>1. Len(gs) = 0
    BY <1>1, <1>8
  <2>2. gs = <<>>
    BY <2>1, EmptySeq
  <2>3. FlattenSeq(gs) = gs
    BY <2>1, Zenon DEF FlattenSeq
  <2>4. FlattenSeq(gs) = f[n]
    BY <1>6, <1>8, <2>2, <2>3, Zenon
  <2>. QED
    BY <1>1, <1>11, <2>4, Zenon
<1>9. CASE n # 0
  <2>. DEFINE Loop(h) == h = [i \in 1..n |-> IF i = 1 THEN gs[i] ELSE h[i - 1] \o gs[i]]
  <2>1. Loop([i \in 1..n |-> f[i]])
    <3>1. PICK e : e = [i \in 1..n |-> f[i]]
      OBVIOUS
    <3>2. \A i \in 1..n : e[i] = IF i = 1 THEN gs[i] ELSE e[i - 1] \o gs[i]
      <4>1. ASSUME NEW i \in 1..n, i # 1 PROVE e[i] = e[i - 1] \o gs[i]
        <5>1. i - 1 \in 1..n
          BY <4>1
        <5>. QED
          BY <1>7, <3>1, <5>1
      <4>2. 1 \in 1..n /\ gs[1] \in Seq(A)
        BY <1>2, <1>9
      <4>3. <<>> \o gs[1] = gs[1]
        BY <4>2, ConcatEmptySeq
      <4>6. f[1] = f[1 - 1] \o gs[1]
        BY <1>7, <4>2, Zenon
      <4>4. f[1] = f[1 - 1] \o gs[1] /\ 1 - 1 = 0
        BY <4>6
      <4>5. e[1] = gs[1]
        BY <1>6, <3>1, <4>2, <4>3, <4>4
      <4>. QED
        BY <4>1, <4>5
    <3>3. e = [i \in 1..n |-> IF i = 1 THEN gs[i] ELSE e[i - 1] \o gs[i]]
      BY <3>1, <3>2
    <3>. QED
      BY <3>1, <3>3
  <2>2. PICK h : h = CHOOSE e : Loop(e)
    OBVIOUS
  <2>3. Loop(h)
    BY <2>1, <2>2
  <2>4. FlattenSeq(gs) = h[n]
    <3>1. FlattenSeq(gs) = (CHOOSE e : Loop(e))[n]
      BY <1>1, <1>9 DEF FlattenSeq
    <3>. QED
      BY <2>2, <3>1
  <2>5. \A i \in 1..n : h[i] = IF i = 1 THEN gs[i] ELSE h[i - 1] \o gs[i]
    BY <2>3
  <2>. HIDE DEF Loop
  <2>6. ASSUME NEW i \in 0..(n - 1), i = 0 \/ h[i] = f[i] PROVE h[i + 1] = f[i + 1]
    <3>1. i + 1 \in 1..n /\ (i + 1) - 1 = i
      OBVIOUS
    <3>2. gs[i + 1] \in Seq(A)
      BY <1>2, <3>1
    <3>3. f[i + 1] = f[i] \o gs[i + 1]
      <4>1. f[i + 1] = f[(i + 1) - 1] \o gs[i + 1]
        BY <1>7, <3>1, Zenon
      <4>. QED
        BY <3>1, <4>1, Zenon
    <3>4. h[i + 1] = IF i + 1 = 1 THEN gs[i + 1] ELSE h[i] \o gs[i + 1]
      <4>1. h[i + 1] = IF i + 1 = 1 THEN gs[i + 1] ELSE h[(i + 1) - 1] \o gs[i + 1]
        BY <2>5, <3>1, Zenon
      <4>. QED
        BY <3>1, <4>1, Zenon
    <3>5. CASE i = 0
      <4>1. <<>> \o gs[i + 1] = gs[i + 1]
        BY <3>2, ConcatEmptySeq
      <4>2. f[i] = <<>> /\ i + 1 = 1
        BY <1>6, <3>5
      <4>. QED
        BY <3>3, <3>4, <4>1, <4>2, Zenon
    <3>6. CASE i # 0
      <4>1. i + 1 # 1
        BY <3>6
      <4>. QED
        BY <2>6, <3>3, <3>4, <3>6, <4>1, Zenon
    <3>. QED
      BY <3>5, <3>6
  <2>7. PICK S : S = {k \in 0..n : k = 0 \/ h[k] = f[k]}
    OBVIOUS
  <2>8. 0 \in S
    BY <2>7
  <2>9. \A i \in 0..(n - 1) : i \in S => i + 1 \in S
    <3>1. ASSUME NEW i \in 0..(n - 1), i \in S PROVE i + 1 \in S
      <4>1. i = 0 \/ h[i] = f[i]
        BY <2>7, <3>1, Zenon
      <4>2. h[i + 1] = f[i + 1]
        BY <2>6, <4>1
      <4>3. i + 1 \in 0..n
        OBVIOUS
      <4>. QED
        BY <2>7, <4>2, <4>3, Zenon
    <3>. QED
      BY <3>1
  <2>10. \A i \in 0..n : i \in S
    BY <2>8, <2>9, UpTo
  <2>11. n \in 0..n
    OBVIOUS
  <2>12. h[n] = f[n]
    BY <1>9, <2>7, <2>10, <2>11, Zenon
  <2>13. FlattenSeq(gs) = f[n]
    BY <2>4, <2>12
  <2>. QED
    BY <1>1, <1>11, <2>13, Zenon
<1>. QED
  BY <1>8, <1>9

\* A part more at the end of a sequence of sequences comes after all that is
\* in the others.
LEMMA FlattenAppend ==
  ASSUME NEW A, NEW gs \in Seq(Seq(A)), NEW t \in Seq(A)
  PROVE  /\ FlattenSeq(gs) \in Seq(A)
         /\ FlattenSeq(Append(gs, t)) = FlattenSeq(gs) \o t
<1>1. PICK n \in Nat : n = Len(gs)
  OBVIOUS
<1>2. PICK hs : hs = Append(gs, t)
  OBVIOUS
<1>3. hs \in Seq(Seq(A)) /\ Len(hs) = n + 1 /\ hs[n + 1] = t /\ \A i \in 1..n : hs[i] = gs[i]
  BY <1>1, <1>2
<1>4. PICK f : SoFar(f, Seq(A), <<>>, n, gs) /\ FlattenSeq(gs) = f[n]
  BY <1>1, FlattenIs
<1>5. PICK h : SoFar(h, Seq(A), <<>>, n + 1, hs) /\ FlattenSeq(hs) = h[n + 1]
  <2>1. \E h : SoFar(h, Seq(A), <<>>, Len(hs), hs) /\ FlattenSeq(hs) = h[Len(hs)]
    BY <1>3, FlattenIs
  <2>. QED
    BY <1>3, <2>1, Zenon
<1>16. /\ f \in [0..n -> Seq(A)] /\ f[0] = <<>> /\ \A i \in 1..n : f[i] = f[i - 1] \o gs[i]
       /\ h[0] = <<>> /\ \A i \in 1..(n + 1) : h[i] = h[i - 1] \o hs[i]
  BY <1>4, <1>5, Zenon DEF SoFar
<1>6. PICK S : S = {k \in 0..n : h[k] = f[k]}
  OBVIOUS
<1>7. 0 \in S
  BY <1>16, <1>6
<1>8. ASSUME NEW i \in 0..(n - 1), i \in S PROVE i + 1 \in S
  <2>1. i + 1 \in 1..n /\ i + 1 \in 1..(n + 1) /\ (i + 1) - 1 = i /\ i + 1 \in 0..n
    OBVIOUS
  <2>2. h[i] = f[i] /\ hs[i + 1] = gs[i + 1]
    BY <1>3, <1>6, <1>8, <2>1, Zenon
  <2>3. f[i + 1] = f[(i + 1) - 1] \o gs[i + 1]
    BY <1>16, <2>1, Zenon
  <2>4. h[i + 1] = h[(i + 1) - 1] \o hs[i + 1]
    BY <1>16, <2>1, Zenon
  <2>5. h[i + 1] = f[i + 1]
    BY <2>1, <2>2, <2>3, <2>4, Zenon
  <2>. QED
    BY <1>6, <2>1, <2>5, Zenon
<1>9. \A i \in 0..(n - 1) : i \in S => i + 1 \in S
  BY <1>8
<1>10. \A i \in 0..n : i \in S
  BY <1>7, <1>9, UpTo
<1>11. n \in 0..n /\ n + 1 \in 1..(n + 1) /\ (n + 1) - 1 = n
  OBVIOUS
<1>12. h[n] = f[n]
  BY <1>6, <1>10, <1>11, Zenon
<1>13. h[n + 1] = h[(n + 1) - 1] \o hs[n + 1]
  BY <1>16, <1>11, Zenon
<1>14. FlattenSeq(hs) = FlattenSeq(gs) \o t
  BY <1>3, <1>4, <1>5, <1>11, <1>12, <1>13, Zenon
<1>15. FlattenSeq(gs) \in Seq(A)
  BY <1>4, <1>16, <1>11
<1>. QED
  BY <1>2, <1>14, <1>15

\* No sequences put together are the empty sequence.
LEMMA FlattenEmpty == FlattenSeq(<<>>) = <<>>
  BY DEF FlattenSeq

\* One sequence put together is that sequence.
LEMMA FlattenOne ==
  ASSUME NEW A, NEW t \in Seq(A)
  PROVE  FlattenSeq(<<t>>) = t
<1>1. <<>> \in Seq(Seq(A)) /\ Append(<<>>, t) = <<t>>
  OBVIOUS
<1>2. FlattenSeq(<<t>>) = <<>> \o t
  BY <1>1, FlattenAppend, FlattenEmpty
<1>. QED
  BY <1>2, ConcatEmptySeq

\* Two sequences of sequences may be put together before or after they are
\* flattened.
LEMMA FlattenConcat ==
  ASSUME NEW A, NEW gs \in Seq(Seq(A)), NEW hs \in Seq(Seq(A))
  PROVE  FlattenSeq(gs \o hs) = FlattenSeq(gs) \o FlattenSeq(hs)
<1>1. PICK n \in Nat : n = Len(hs)
  OBVIOUS
<1>2. FlattenSeq(gs) \in Seq(A)
  <2>1. <<>> \in Seq(A)
    OBVIOUS
  <2>. QED
    BY <2>1, FlattenAppend
<1>. DEFINE Part(i) == SubSeq(hs, 1, i)
            S == {i \in 0..n : FlattenSeq(gs \o Part(i)) = FlattenSeq(gs) \o FlattenSeq(Part(i))}
<1>3. 0 \in S
  <2>1. Part(0) = <<>>
    OBVIOUS
  <2>2. gs \o <<>> = gs /\ FlattenSeq(gs) \o <<>> = FlattenSeq(gs)
    BY <1>2, ConcatEmptySeq
  <2>3. FlattenSeq(gs \o Part(0)) = FlattenSeq(gs) \o FlattenSeq(Part(0))
    BY <2>1, <2>2, FlattenEmpty, Zenon
  <2>. QED
    BY <2>3
<1>4. ASSUME NEW i \in 0..(n - 1), i \in S PROVE i + 1 \in S
  <2>1. i + 1 \in 1..n /\ (i + 1) - 1 = i /\ hs[i + 1] \in Seq(A)
    BY <1>1
  <2>2. PICK s, e, t : s = Part(i) /\ e = hs[i + 1] /\ t = Part(i + 1)
    OBVIOUS
  <2>3. s \in Seq(Seq(A)) /\ e \in Seq(A)
    BY <1>1, <2>1, <2>2, SubSeqProperties
  <2>4. t = s \o <<e>>
    BY <1>1, <2>1, <2>2, SubSeqRecursiveSecond
  <2>5. t = Append(s, e)
    BY <2>3, <2>4, AppendIsConcat
  <2>6. gs \o t = Append(gs \o s, e) /\ gs \o s \in Seq(Seq(A))
    <3>1. gs \o s \in Seq(Seq(A))
      BY <2>3, ConcatProperties
    <3>2. Append(gs \o s, e) = (gs \o s) \o <<e>>
      BY <2>3, <3>1, AppendIsConcat
    <3>3. <<e>> \in Seq(Seq(A))
      BY <2>3
    <3>4. (gs \o s) \o <<e>> = gs \o (s \o <<e>>)
      <4>1. PICK T : T = Seq(A)
        OBVIOUS
      <4>2. gs \in Seq(T) /\ s \in Seq(T) /\ <<e>> \in Seq(T)
        BY <2>3, <3>3, <4>1
      <4>. QED
        BY <4>2, ConcatAssociative
    <3>. QED
      BY <2>4, <3>1, <3>2, <3>4
  <2>7. /\ FlattenSeq(gs \o t) = FlattenSeq(gs \o s) \o e
        /\ FlattenSeq(t) = FlattenSeq(s) \o e /\ FlattenSeq(s) \in Seq(A)
    BY <2>3, <2>5, <2>6, FlattenAppend
  <2>8. FlattenSeq(gs \o s) = FlattenSeq(gs) \o FlattenSeq(s)
    BY <1>4, <2>2
  <2>9. (FlattenSeq(gs) \o FlattenSeq(s)) \o e = FlattenSeq(gs) \o (FlattenSeq(s) \o e)
    <3>1. PICK u, v : u = FlattenSeq(gs) /\ v = FlattenSeq(s)
      OBVIOUS
    <3>2. u \in Seq(A) /\ v \in Seq(A)
      BY <1>2, <2>7, <3>1
    <3>3. (u \o v) \o e = u \o (v \o e)
      BY <2>3, <3>2, ConcatAssociative
    <3>. QED
      BY <3>1, <3>3
  <2>10. FlattenSeq(gs \o t) = FlattenSeq(gs) \o FlattenSeq(t)
    BY <2>7, <2>8, <2>9
  <2>. QED
    BY <2>1, <2>2, <2>10
<1>5. \A i \in 0..(n - 1) : i \in S => i + 1 \in S
  BY <1>4
<1>. HIDE DEF S
<1>6. n \in S
  <2>1. \A i \in 0..n : i \in S
    BY <1>3, <1>5, UpTo
  <2>. QED
    BY <2>1
<1>7. Part(n) = hs
  BY <1>1, SubSeqFull
<1>. QED
  BY <1>6, <1>7 DEF S

\* The part of a sequence of sequences from its p-th on, up to the r-th,
\* may be cut anywhere.
LEMMA FlattenParts ==
  ASSUME NEW A, NEW gs \in Seq(Seq(A)),
         NEW p \in 1..(Len(gs) + 1), NEW q \in (p - 1)..Len(gs), NEW r \in q..Len(gs)
  PROVE  FlattenSeq(SubSeq(gs, p, q)) \o FlattenSeq(SubSeq(gs, q + 1, r))
           = FlattenSeq(SubSeq(gs, p, r))
<1>1. PICK s, t : s = SubSeq(gs, p, q) /\ t = SubSeq(gs, q + 1, r)
  OBVIOUS
<1>2. s \in Seq(Seq(A)) /\ t \in Seq(Seq(A))
  <2>1. \A i \in p..q : gs[i] \in Seq(A)
    OBVIOUS
  <2>2. \A i \in (q + 1)..r : gs[i] \in Seq(A)
    OBVIOUS
  <2>. QED
    BY <1>1, <2>1, <2>2, SubSeqProperties
<1>3. s \o t = SubSeq(gs, p, r)
  BY <1>1, ConcatAdjacentSubSeq
<1>. QED
  BY <1>1, <1>2, <1>3, FlattenConcat

-----------------------------------------------------------------------------
(* The rows of messages.                                                     *)

\* How a chunk opens, or goes on; what a message is; and what the loops carry:
\* the messages done and the chunk under way.
Mark    == {"heading", "continued", "none"}
Message == [ids : Seq(Nat), opens : Mark, closes : {"whole", "note", "truncated"}, width : Nat]
UnderWay == [done : Seq(Message), ids : Seq(Nat), width : Nat, opens : Mark, next : Mark]

\* The rows of messages: those of each, put together.
LEMMA RowsOf ==
  ASSUME NEW chunks \in Seq(Message)
  PROVE  /\ [i \in DOMAIN chunks |-> chunks[i].ids] \in Seq(Seq(Nat))
         /\ Len([i \in DOMAIN chunks |-> chunks[i].ids]) = Len(chunks)
         /\ RowsIn(chunks) \in Seq(Nat)
<1>1. PICK n \in Nat : n = Len(chunks) /\ DOMAIN chunks = 1..n
  OBVIOUS
<1>2. PICK rows : rows = [i \in 1..n |-> chunks[i].ids]
  OBVIOUS
<1>3. \A i \in 1..n : chunks[i] \in Message
  BY <1>1
<1>4. \A i \in 1..n : chunks[i].ids \in Seq(Nat)
  BY <1>3 DEF Message
<1>5. PICK T : T = Seq(Nat)
  OBVIOUS
<1>6. rows \in [1..n -> T]
  BY <1>2, <1>4, <1>5
<1>7. rows \in Seq(T) /\ Len(rows) = n
  BY <1>6
<1>8. rows \in Seq(Seq(Nat))
  BY <1>5, <1>7, Zenon
<1>9. FlattenSeq(rows) \in Seq(Nat)
  <2>1. <<>> \in Seq(Nat)
    OBVIOUS
  <2>. QED
    BY <1>8, <2>1, FlattenAppend
<1>. QED
  BY <1>1, <1>2, <1>7, <1>8, <1>9, Zenon DEF RowsIn

\* No messages have no rows.
LEMMA RowsOfNone == RowsIn(<<>>) = <<>>
<1>1. <<>> \in Seq(Message)
  OBVIOUS
<1>2. PICK rows : rows = [i \in DOMAIN <<>> |-> <<>>[i].ids]
  OBVIOUS
<1>3. rows \in Seq(Seq(Nat)) /\ Len(rows) = 0
  BY <1>1, <1>2, RowsOf, EmptySeq
<1>4. rows = <<>>
  BY <1>3, EmptySeq
<1>. QED
  BY <1>2, <1>4, FlattenEmpty, Zenon DEF RowsIn

\* The rows of some messages and of more are those of the some, then those of
\* the more.
LEMMA RowsOfConcat ==
  ASSUME NEW some \in Seq(Message), NEW more \in Seq(Message)
  PROVE  RowsIn(some \o more) = RowsIn(some) \o RowsIn(more)
<1>1. PICK both : both = some \o more
  OBVIOUS
<1>2. both \in Seq(Message) /\ Len(both) = Len(some) + Len(more)
  BY <1>1, ConcatProperties
<1>3. PICK rows, rows1, rows2 :
        /\ rows = [i \in DOMAIN both |-> both[i].ids]
        /\ rows1 = [i \in DOMAIN some |-> some[i].ids]
        /\ rows2 = [i \in DOMAIN more |-> more[i].ids]
  OBVIOUS
<1>4. /\ rows \in Seq(Seq(Nat)) /\ Len(rows) = Len(both)
      /\ rows1 \in Seq(Seq(Nat)) /\ Len(rows1) = Len(some)
      /\ rows2 \in Seq(Seq(Nat)) /\ Len(rows2) = Len(more)
  BY <1>2, <1>3, RowsOf
<1>5. rows = rows1 \o rows2
  <2>1. PICK T : T = Seq(Nat)
    OBVIOUS
  <2>2. rows \in Seq(T) /\ rows1 \in Seq(T) /\ rows2 \in Seq(T)
    BY <1>4, <2>1
  <2>3. PICK cat : cat = rows1 \o rows2
    OBVIOUS
  <2>4. /\ cat \in Seq(T) /\ Len(cat) = Len(rows1) + Len(rows2)
        /\ \A i \in 1..(Len(rows1) + Len(rows2)) :
             cat[i] = IF i <= Len(rows1) THEN rows1[i] ELSE rows2[i - Len(rows1)]
    BY <2>2, <2>3, ConcatProperties
  <2>5. \A i \in 1..(Len(some) + Len(more)) :
             both[i] = IF i <= Len(some) THEN some[i] ELSE more[i - Len(some)]
    BY <1>1, ConcatProperties
  <2>6. /\ Len(some) \in Nat /\ Len(more) \in Nat /\ DOMAIN some = 1..Len(some)
        /\ DOMAIN more = 1..Len(more) /\ DOMAIN both = 1..(Len(some) + Len(more))
    BY <1>2
  <2>7. ASSUME NEW i \in 1..(Len(some) + Len(more)) PROVE rows[i] = cat[i]
    <3>1. CASE i <= Len(some)
      <4>1. i \in DOMAIN some /\ i \in DOMAIN both /\ both[i] = some[i]
        BY <2>5, <2>6, <3>1
      <4>2. rows[i] = both[i].ids /\ rows1[i] = some[i].ids
        BY <1>3, <4>1, Zenon
      <4>3. cat[i] = rows1[i]
        BY <1>4, <2>4, <3>1
      <4>. QED
        BY <4>1, <4>2, <4>3, Zenon
    <3>2. CASE ~(i <= Len(some))
      <4>1. i - Len(some) \in DOMAIN more /\ i \in DOMAIN both /\ both[i] = more[i - Len(some)]
        BY <2>5, <2>6, <3>2
      <4>2. rows[i] = both[i].ids /\ rows2[i - Len(some)] = more[i - Len(some)].ids
        BY <1>3, <4>1, Zenon
      <4>3. cat[i] = rows2[i - Len(some)]
        BY <1>4, <2>4, <3>2
      <4>. QED
        BY <4>1, <4>2, <4>3, Zenon
    <3>. QED
      BY <3>1, <3>2
  <2>8. Len(rows) = Len(cat) /\ Len(cat) = Len(some) + Len(more)
    BY <1>2, <1>4, <2>4
  <2>9. \A i \in 1..Len(rows) : rows[i] = cat[i]
    BY <2>7, <2>8
  <2>10. rows = cat
    BY <2>2, <2>4, <2>8, <2>9, SeqEqual
  <2>. QED
    BY <2>3, <2>10
<1>6. FlattenSeq(rows) = FlattenSeq(rows1) \o FlattenSeq(rows2)
  BY <1>4, <1>5, FlattenConcat
<1>. QED
  BY <1>1, <1>3, <1>6, Zenon DEF RowsIn

\* A message more has its rows after those of the others.
LEMMA RowsOfAppend ==
  ASSUME NEW chunks \in Seq(Message), NEW c \in Message
  PROVE  RowsIn(Append(chunks, c)) = RowsIn(chunks) \o c.ids
<1>1. <<c>> \in Seq(Message)
  OBVIOUS
<1>2. Append(chunks, c) = chunks \o <<c>>
  BY AppendIsConcat
<1>3. RowsIn(<<c>>) = c.ids
  <2>1. PICK one, rows : one = <<c>> /\ rows = [i \in DOMAIN one |-> one[i].ids]
    OBVIOUS
  <2>2. one[1] = c /\ 1 \in DOMAIN one /\ Len(one) = 1 /\ one \in Seq(Message)
    BY <2>1
  <2>3. rows \in Seq(Seq(Nat)) /\ Len(rows) = 1 /\ rows[1] = c.ids
    BY <2>1, <2>2, RowsOf
  <2>4. c.ids \in Seq(Nat)
    BY DEF Message
  <2>5. rows = <<c.ids>>
    <3>1. PICK e, T : e = c.ids /\ T = Seq(Nat)
      OBVIOUS
    <3>2. e \in T /\ rows \in Seq(T) /\ rows[1] = e
      BY <2>3, <2>4, <3>1
    <3>3. rows = <<e>>
      BY <2>3, <3>2
    <3>. QED
      BY <3>1, <3>3
  <2>6. FlattenSeq(<<c.ids>>) = c.ids
    BY <2>4, FlattenOne
  <2>. QED
    BY <2>1, <2>5, <2>6, Zenon DEF RowsIn
<1>. QED
  BY <1>1, <1>2, <1>3, RowsOfConcat

-----------------------------------------------------------------------------
(* One line or one message more of a chunk under way.                        *)

\* A chunk under way, from its parts.
Way(done, ids, width, opens, next) ==
  [done |-> done, ids |-> ids, width |-> width, opens |-> opens, next |-> next]

\* A message, from its parts.
Sent(ids, opens, closes, width) ==
  [ids |-> ids, opens |-> opens, closes |-> closes, width |-> width]

\* A chunk under way has the parts it is made of.
LEMMA WayIs ==
  ASSUME NEW done \in Seq(Message), NEW ids \in Seq(Nat), NEW width \in Nat,
         NEW opens \in Mark, NEW next \in Mark
  PROVE  /\ Way(done, ids, width, opens, next) \in UnderWay
         /\ Way(done, ids, width, opens, next).done = done
         /\ Way(done, ids, width, opens, next).ids = ids
         /\ Way(done, ids, width, opens, next).width = width
         /\ Way(done, ids, width, opens, next).opens = opens
         /\ Way(done, ids, width, opens, next).next = next
<1>1. PICK D, I : D = Seq(Message) /\ I = Seq(Nat)
  OBVIOUS
<1>2. PICK cur : cur = Way(done, ids, width, opens, next)
  OBVIOUS
<1>3. cur \in [done : D, ids : I, width : Nat, opens : Mark, next : Mark]
  BY <1>1, <1>2 DEF Way
<1>4. cur \in UnderWay
  BY <1>1, <1>3, Zenon DEF UnderWay
<1>. QED
  BY <1>2, <1>4 DEF Way

\* A chunk in which there is nothing yet has the parts it is made of.
LEMMA AtNone ==
  ASSUME NEW done \in Seq(Message), NEW next \in {"heading", "continued"}
  PROVE  /\ Way(done, <<>>, 0, "heading", next) \in UnderWay
         /\ Way(done, <<>>, 0, "heading", next).done = done
         /\ Way(done, <<>>, 0, "heading", next).ids = <<>>
         /\ Way(done, <<>>, 0, "heading", next).width = 0
         /\ Way(done, <<>>, 0, "heading", next).opens = "heading"
         /\ Way(done, <<>>, 0, "heading", next).next = next
<1>1. PICK none, opens, zero : none = <<>> /\ opens = "heading" /\ zero = 0
  OBVIOUS
<1>2. none \in Seq(Nat) /\ opens \in Mark /\ next \in Mark /\ zero \in Nat
  BY <1>1 DEF Mark
<1>3. /\ Way(done, none, zero, opens, next) \in UnderWay
      /\ Way(done, none, zero, opens, next).done = done
      /\ Way(done, none, zero, opens, next).ids = none
      /\ Way(done, none, zero, opens, next).width = zero
      /\ Way(done, none, zero, opens, next).opens = opens
      /\ Way(done, none, zero, opens, next).next = next
  BY <1>2, WayIs
<1>. QED
  BY <1>1, <1>3, Zenon

\* A message has the parts it is made of.
LEMMA SentIs ==
  ASSUME NEW ids \in Seq(Nat), NEW width \in Nat, NEW opens \in Mark,
         NEW closes \in {"whole", "note", "truncated"}
  PROVE  /\ Sent(ids, opens, closes, width) \in Message
         /\ Sent(ids, opens, closes, width).ids = ids
         /\ Sent(ids, opens, closes, width).opens = opens
         /\ Sent(ids, opens, closes, width).closes = closes
         /\ Sent(ids, opens, closes, width).width = width
  BY DEF Sent, Message

\* The types of the parts of a chunk under way, and of a message.
LEMMA Parts ==
  /\ \A cur \in UnderWay : /\ cur.done \in Seq(Message) /\ cur.ids \in Seq(Nat) /\ cur.width \in Nat
                           /\ cur.opens \in Mark /\ cur.next \in Mark
  /\ \A c \in Message : /\ c.ids \in Seq(Nat) /\ c.width \in Nat /\ c.opens \in Mark
                        /\ c.closes \in {"whole", "note", "truncated"}
<1>1. \A cur \in UnderWay : /\ cur.done \in Seq(Message) /\ cur.ids \in Seq(Nat) /\ cur.width \in Nat
                           /\ cur.opens \in Mark /\ cur.next \in Mark
  BY Zenon DEF UnderWay
<1>2. \A c \in Message : /\ c.ids \in Seq(Nat) /\ c.width \in Nat /\ c.opens \in Mark
                        /\ c.closes \in {"whole", "note", "truncated"}
  BY Zenon DEF Message
<1>. QED
  BY <1>1, <1>2

\* The three ways a chunk may open or go on; and no rows are rows.
LEMMA Marks == "heading" \in Mark /\ "continued" \in Mark /\ "none" \in Mark /\ <<>> \in Seq(Nat)
  BY DEF Mark

\* The widths and bounds of the code, and those of the headings, are numbers.
LEMMA Widths ==
  /\ Budget \in Nat /\ Reserve \in Nat /\ NoteWidth \in Nat
  /\ HeadingWidth \in Nat \ {0} /\ ContinuedWidth \in Nat \ {0} /\ MaxDigestChunks \in Nat \ {0}
  /\ \A next \in Mark : HeadingOf(next) \in Nat
  /\ HeadingOf("none") = 0
<1>1. /\ Budget \in Nat /\ Reserve \in Nat /\ NoteWidth \in Nat
      /\ HeadingWidth \in Nat \ {0} /\ ContinuedWidth \in Nat \ {0} /\ MaxDigestChunks \in Nat \ {0}
  BY ChunksAssumption
<1>2. /\ HeadingOf("heading") = HeadingWidth /\ HeadingOf("continued") = ContinuedWidth
      /\ HeadingOf("none") = 0
  BY DEF HeadingOf
<1>. QED
  BY <1>1, <1>2 DEF Mark

\* A fresh chunk keeps the messages done and has nothing in it.
LEMMA FreshIs ==
  \A done : Fresh(done) = Way(done, <<>>, 0, "heading", "heading")
  BY DEF Fresh, Way

\* To flush (the closure flush of chunkDigest and splitOversizedGroup) leaves
\* a chunk alone in which there is nothing, and else makes a message of it and
\* starts a fresh one.
LEMMA FlushIs ==
  ASSUME NEW cur \in UnderWay, NEW closes \in {"whole", "note", "truncated"}
  PROVE  /\ cur.width = 0 => Flush(cur, closes) = cur
         /\ cur.width # 0 =>
              \E c : /\ c = Sent(cur.ids, cur.opens, closes,
                                 cur.width + IF closes = "note" THEN NoteWidth ELSE 0)
                     /\ c \in Message
                     /\ Flush(cur, closes) = Way(Append(cur.done, c), <<>>, 0, "heading", "heading")
                     /\ Append(cur.done, c) \in Seq(Message)
         /\ Flush(cur, closes) \in UnderWay
<1>1. CASE cur.width = 0
  BY <1>1 DEF Flush
<1>2. CASE cur.width # 0
  <2>1. PICK c : c = Sent(cur.ids, cur.opens, closes,
                                 cur.width + IF closes = "note" THEN NoteWidth ELSE 0)
    OBVIOUS
  <2>2. c \in Message
    <3>1. cur.width + (IF closes = "note" THEN NoteWidth ELSE 0) \in Nat
      BY Widths, Parts
    <3>2. PICK w : w = cur.width + (IF closes = "note" THEN NoteWidth ELSE 0)
      OBVIOUS
    <3>3. w \in Nat /\ cur.ids \in Seq(Nat) /\ cur.opens \in Mark
      BY <3>1, <3>2, Parts
    <3>4. Sent(cur.ids, cur.opens, closes, w) \in Message
      BY <3>3, SentIs
    <3>. QED
      BY <2>1, <3>2, <3>4
  <2>3. Flush(cur, closes) = Fresh(Append(cur.done, c))
    BY <1>2, <2>1, Zenon DEF Flush, Sent
  <2>4. Append(cur.done, c) \in Seq(Message)
    BY <2>2, Parts
  <2>5. Way(Append(cur.done, c), <<>>, 0, "heading", "heading") \in UnderWay
    BY <2>4, AtNone
  <2>. QED
    BY <1>2, <2>1, <2>2, <2>3, <2>4, <2>5, FreshIs, Zenon
<1>. QED
  BY <1>1, <1>2

\* The chunk that the line goes to.
PutAt(cur, id) ==
  IF cur.width > 0 /\ cur.width + HeadingOf(cur.next) + LineWidth(id) > Budget
    THEN [Flush(cur, "note") EXCEPT !.next = "continued"] ELSE cur

\* The chunk a line goes to: the one under way, or, if that is full, a fresh
\* one after a message that ends with the note.  The line fits it, or it is
\* empty.
LEMMA PutAtIs ==
  ASSUME NEW cur \in UnderWay, NEW id, LineWidth(id) \in Nat
  PROVE  /\ PutAt(cur, id) \in UnderWay
         /\ PutAt(cur, id) # cur =>
              /\ cur.width > 0
              /\ \E c : /\ c = Sent(cur.ids, cur.opens, "note", cur.width + NoteWidth)
                        /\ c \in Message
                        /\ PutAt(cur, id) = Way(Append(cur.done, c), <<>>, 0, "heading", "continued")
                        /\ Append(cur.done, c) \in Seq(Message)
         /\ PutAt(cur, id).width > 0 =>
              PutAt(cur, id).width + HeadingOf(PutAt(cur, id).next) + LineWidth(id) <= Budget
<1>0. cur.width \in Nat /\ HeadingOf(cur.next) \in Nat /\ Budget \in Nat
  BY Parts, Widths
<1>1. CASE cur.width > 0 /\ cur.width + HeadingOf(cur.next) + LineWidth(id) > Budget
  <2>1. PICK c : /\ c = Sent(cur.ids, cur.opens, "note", cur.width + NoteWidth)
                 /\ c \in Message
                 /\ Flush(cur, "note") = Way(Append(cur.done, c), <<>>, 0, "heading", "heading")
                 /\ Append(cur.done, c) \in Seq(Message)
    BY <1>0, <1>1, FlushIs
  <2>2. PutAt(cur, id) = Way(Append(cur.done, c), <<>>, 0, "heading", "continued")
    <3>1. PutAt(cur, id) = [Flush(cur, "note") EXCEPT !.next = "continued"]
      BY <1>1 DEF PutAt
    <3>. QED
      <4>1. Flush(cur, "note") = [done |-> Append(cur.done, c), ids |-> <<>>, width |-> 0, opens |-> "heading", next |-> "heading"]
        BY <2>1, Zenon DEF Way
      <4>2. PICK d : d = Append(cur.done, c)
        OBVIOUS
      <4>3. PutAt(cur, id) = [[done |-> d, ids |-> <<>>, width |-> 0, opens |-> "heading", next |-> "heading"] EXCEPT !.next = "continued"]
        BY <3>1, <4>1, <4>2, Zenon
      <4>4. PutAt(cur, id) = [done |-> d, ids |-> <<>>, width |-> 0, opens |-> "heading", next |-> "continued"]
        BY <4>3
      <4>. QED
        BY <4>2, <4>4, Zenon DEF Way
  <2>3. PutAt(cur, id) \in UnderWay /\ PutAt(cur, id).width = 0
    <3>1. PICK d : d = Append(cur.done, c)
      OBVIOUS
    <3>2. d \in Seq(Message)
      BY <2>1, <3>1, Zenon
    <3>3. Way(d, <<>>, 0, "heading", "continued") \in UnderWay /\ Way(d, <<>>, 0, "heading", "continued").width = 0
      BY <3>2, AtNone
    <3>. QED
      BY <2>2, <3>1, <3>3, Zenon
  <2>4. ~(PutAt(cur, id).width > 0)
    BY <2>3
  <2>5. cur.width > 0
    BY <1>1
  <2>. QED
    BY <2>5, <2>1, <2>2, <2>3, <2>4
<1>2. CASE ~(cur.width > 0 /\ cur.width + HeadingOf(cur.next) + LineWidth(id) > Budget)
  BY <1>0, <1>2 DEF PutAt
<1>. QED
  BY <1>1, <1>2

\* A line that no message can hold is truncated and is a message of its own;
\* any other is added to the chunk it goes to.
LEMMA PutLineIs ==
  ASSUME NEW cur \in UnderWay, NEW id \in Nat, LineWidth(id) \in Nat,
         NEW at, at = PutAt(cur, id), NEW unit, unit = HeadingOf(at.next) + LineWidth(id),
         NEW opens, opens = IF at.width = 0 THEN at.next ELSE at.opens
  PROVE  /\ at \in UnderWay /\ unit \in Nat /\ opens \in Mark
         /\ at.width = 0 /\ unit > Budget =>
              /\ Sent(<<id>>, opens, "truncated", Budget) \in Message
              /\ PutLine(cur, id) = Way(Append(at.done, Sent(<<id>>, opens, "truncated", Budget)),
                                        <<>>, 0, "heading", "continued")
         /\ ~(at.width = 0 /\ unit > Budget) =>
              PutLine(cur, id) = Way(at.done, Append(at.ids, id), at.width + unit, opens, "none")
         /\ PutLine(cur, id) \in UnderWay
<1>1. at \in UnderWay
  BY PutAtIs
<1>2. unit \in Nat /\ opens \in Mark /\ at.width + unit \in Nat
  BY <1>1, Parts, Widths
<1>3. PutLine(cur, id) =
        IF at.width = 0 /\ unit > Budget
          THEN [Fresh(Append(at.done, [ids |-> <<id>>, opens |-> opens,
                                       closes |-> "truncated", width |-> Budget]))
                  EXCEPT !.next = "continued"]
          ELSE [at EXCEPT !.ids = Append(@, id), !.width = @ + unit, !.opens = opens,
                          !.next = "none"]
  <2>. DEFINE at1    == PutAt(cur, id)
              unit1  == HeadingOf(at1.next) + LineWidth(id)
              opens1 == IF at1.width = 0 THEN at1.next ELSE at1.opens
  <2>1. PutLine(cur, id) =
          IF at1.width = 0 /\ unit1 > Budget
            THEN [Fresh(Append(at1.done, [ids |-> <<id>>, opens |-> opens1,
                                       closes |-> "truncated", width |-> Budget]))
                  EXCEPT !.next = "continued"]
            ELSE [at1 EXCEPT !.ids = Append(@, id), !.width = @ + unit1, !.opens = opens1,
                          !.next = "none"]
    BY DEF PutLine, PutAt
  <2>2. at = at1 /\ unit = unit1 /\ opens = opens1
    BY Zenon
  <2>. HIDE DEF at1, unit1, opens1
  <2>. QED
    BY <2>1, <2>2, Zenon
<1>4. CASE at.width = 0 /\ unit > Budget
  <2>1. <<id>> \in Seq(Nat)
    OBVIOUS
  <2>2. PICK c : c = Sent(<<id>>, opens, "truncated", Budget)
    OBVIOUS
  <2>3. c \in Message
    BY <1>2, <2>1, <2>2, SentIs, Widths
  <2>4. PutLine(cur, id) = [Fresh(Append(at.done, c)) EXCEPT !.next = "continued"]
    BY <1>3, <1>4, <2>2, Zenon DEF Sent
  <2>5. PutLine(cur, id) = Way(Append(at.done, c), <<>>, 0, "heading", "continued")
    BY <2>4 DEF Fresh, Way
  <2>6. Append(at.done, c) \in Seq(Message)
    BY <1>1, <2>3, Parts
  <2>7. PutLine(cur, id) \in UnderWay
    BY <2>5, <2>6, AtNone
  <2>. QED
    BY <1>1, <1>2, <1>4, <2>2, <2>3, <2>5, <2>7, Zenon
<1>5. CASE ~(at.width = 0 /\ unit > Budget)
  <2>1. PutLine(cur, id) = [at EXCEPT !.ids = Append(@, id), !.width = @ + unit, !.opens = opens,
                          !.next = "none"]
    BY <1>3, <1>5, Zenon
  <2>2. PutLine(cur, id) = Way(at.done, Append(at.ids, id), at.width + unit, opens, "none")
    BY <1>1, <2>1 DEF Way, UnderWay
  <2>3. Append(at.ids, id) \in Seq(Nat)
    BY <1>1, Parts
  <2>4. PutLine(cur, id) \in UnderWay
    <3>1. at.done \in Seq(Message)
      BY <1>1, Parts
    <3>. QED
      <4>1. PICK s, w, none : s = Append(at.ids, id) /\ w = at.width + unit /\ none = "none"
        OBVIOUS
      <4>2. s \in Seq(Nat) /\ w \in Nat /\ none \in Mark
        BY <1>2, <2>3, <4>1, Marks
      <4>3. Way(at.done, s, w, opens, none) \in UnderWay
        BY <1>2, <3>1, <4>2, WayIs
      <4>. QED
        BY <2>2, <4>1, <4>3
  <2>. QED
    BY <1>1, <1>2, <1>5, <2>2, <2>4, Zenon
<1>. QED
  BY <1>4, <1>5

-----------------------------------------------------------------------------
(* A group that no message can hold (splitOversizedGroup).                   *)

\* A group may be cut after any of its lines.
LEMMA Cut ==
  ASSUME NEW g \in Seq(Nat), NEW n \in 0..Len(g), NEW p \in 1..(n + 1)
  PROVE  /\ SubSeq(g, 1, p - 1) \o SubSeq(g, p, n) = SubSeq(g, 1, n)
         /\ SubSeq(g, n + 1, n) = <<>>
         /\ SubSeq(g, p, n) \in Seq(Nat)
         /\ Len(SubSeq(g, p, n)) = (n - p) + 1
<1>1. PICK k : k = p - 1
  OBVIOUS
<1>2. k \in 0..n /\ k + 1 = p /\ n \in k..Len(g) /\ k \in (1 - 1)..Len(g) /\ 1 \in 1..(Len(g) + 1)
  BY <1>1
<1>3. SubSeq(g, 1, k) \o SubSeq(g, k + 1, n) = SubSeq(g, 1, n)
  BY <1>2, ConcatAdjacentSubSeq
<1>4. SubSeq(g, 1, p - 1) \o SubSeq(g, p, n) = SubSeq(g, 1, n)
  BY <1>1, <1>2, <1>3, Zenon
<1>5. SubSeq(g, n + 1, n) = <<>>
  BY SubSeqEmpty
<1>6. \A i \in p..n : g[i] \in Nat
  OBVIOUS
<1>7. SubSeq(g, p, n) \in Seq(Nat) /\ Len(SubSeq(g, p, n)) = (n - p) + 1
  BY <1>6, SubSeqProperties
<1>. QED
  BY <1>4, <1>5, <1>7

\* The next line of a group comes after those before it.
LEMMA OneMore ==
  ASSUME NEW g \in Seq(Nat), NEW n \in 0..(Len(g) - 1), NEW p \in 1..(n + 1)
  PROVE  /\ SubSeq(g, 1, n) \o <<g[n + 1]>> = SubSeq(g, 1, n + 1)
         /\ Append(SubSeq(g, p, n), g[n + 1]) = SubSeq(g, p, n + 1)
         /\ <<g[n + 1]>> = SubSeq(g, n + 1, n + 1)
         /\ g[n + 1] \in Nat
<1>1. PICK m : m = n + 1
  OBVIOUS
<1>2. m \in 1..Len(g) /\ m - 1 = n /\ p \in 1..m /\ p \in 1..Len(g) /\ m \in p..Len(g) /\ m \in 1..Len(g) /\ 1 \in 1..Len(g) /\ m \in m..Len(g)
  BY <1>1
<1>3. g[m] \in Nat
  BY <1>2
<1>4. SubSeq(g, 1, m) = SubSeq(g, 1, m - 1) \o <<g[m]>>
  BY <1>2, SubSeqRecursiveSecond
<1>5. SubSeq(g, p, m) = SubSeq(g, p, m - 1) \o <<g[m]>>
  BY <1>2, SubSeqRecursiveSecond
<1>6. SubSeq(g, m, m) = SubSeq(g, m, m - 1) \o <<g[m]>>
  BY <1>2, SubSeqRecursiveSecond
<1>7. SubSeq(g, m, m - 1) = <<>>
  BY <1>2, SubSeqEmpty
<1>8. <<g[m]>> \in Seq(Nat)
  BY <1>3
<1>9. SubSeq(g, m, m) = <<g[m]>>
  BY <1>6, <1>7, <1>8, ConcatEmptySeq
<1>10. SubSeq(g, p, n) \in Seq(Nat)
  <2>1. n \in 0..Len(g)
    OBVIOUS
  <2>. QED
    BY <2>1, Cut
<1>11. Append(SubSeq(g, p, n), g[m]) = SubSeq(g, p, n) \o <<g[m]>>
  BY <1>3, <1>10, AppendIsConcat
<1>. QED
  BY <1>1, <1>2, <1>3, <1>4, <1>5, <1>9, <1>11, Zenon

\* A message with a part of a group that no message can hold.
Piece(g, c) ==
  /\ c \in Message /\ c.width <= Budget + NoteWidth
  /\ \E p \in 1..Len(g), q \in 1..Len(g) :
       /\ p <= q /\ c.ids = SubSeq(g, p, q)
       /\ c.opens = IF p = 1 THEN "heading" ELSE "continued"
       /\ c.closes # "truncated" => c.closes = IF q = Len(g) THEN "whole" ELSE "note"

\* What splitOversizedGroup has after n lines, p being the first that is
\* not in a message.
Splitting(g, n, p, cur) ==
  /\ cur \in UnderWay /\ cur.width <= Budget
  /\ \A i \in 1..Len(cur.done) : Piece(g, cur.done[i])
  /\ RowsIn(cur.done) = SubSeq(g, 1, p - 1) /\ cur.ids = SubSeq(g, p, n)
  /\ cur.width = 0 <=> p = n + 1
  /\ cur.width # 0 => /\ cur.opens = (IF p = 1 THEN "heading" ELSE "continued")
                      /\ cur.next = "none"
  /\ cur.width = 0 => cur.next = IF n = 0 THEN "heading" ELSE "continued"

\* A message more that is a piece of the group keeps all of them pieces of it.
LEMMA PieceMore ==
  ASSUME NEW g, NEW done \in Seq(Message), NEW c \in Message, Piece(g, c),
         \A i \in 1..Len(done) : Piece(g, done[i])
  PROVE  \A i \in 1..Len(Append(done, c)) : Piece(g, Append(done, c)[i])
<1>1. PICK d : d = Append(done, c)
  OBVIOUS
<1>2. Len(d) = Len(done) + 1 /\ d[Len(done) + 1] = c /\ Len(done) \in Nat /\ \A i \in 1..Len(done) : d[i] = done[i]
  BY <1>1
<1>3. ASSUME NEW i \in 1..Len(d) PROVE Piece(g, d[i])
  <2>1. CASE i = Len(done) + 1
    BY <1>2, <2>1, Zenon
  <2>2. CASE i # Len(done) + 1
    <3>1. i \in 1..Len(done)
      BY <1>2, <2>2
    <3>. QED
      BY <1>2, <3>1, Zenon
  <2>. QED
    BY <2>1, <2>2
<1>. QED
  BY <1>1, <1>3, Zenon

\* Where the next line of a group does not fit, the message that the note
\* closes is a piece of the group, and the cut so far is as it should be.
LEMMA NoteClosesAPiece ==
  ASSUME NEW g \in Seq(Nat), NEW n \in 0..(Len(g) - 1), NEW p \in 1..(n + 1),
         NEW cur, Splitting(g, n, p, cur), LineWidth(g[n + 1]) \in Nat \ {0}
  PROVE  \E q \in 1..(n + 1) : Splitting(g, n, q, PutAt(cur, g[n + 1]))
<1>1. PICK at : at = PutAt(cur, g[n + 1])
  OBVIOUS
<1>2. cur \in UnderWay /\ LineWidth(g[n + 1]) \in Nat
  BY DEF Splitting
<1>3. CASE at = cur
  BY <1>1, <1>3
<1>4. CASE at # cur
  <2>1. cur.width > 0
    BY <1>1, <1>2, <1>4, PutAtIs
  <2>2. PICK c : /\ c = Sent(cur.ids, cur.opens, "note", cur.width + NoteWidth)
                        /\ c \in Message
                        /\ at = Way(Append(cur.done, c), <<>>, 0, "heading", "continued")
                        /\ Append(cur.done, c) \in Seq(Message)
    BY <1>1, <1>2, <1>4, PutAtIs
  <2>3. PICK w : w = cur.width + NoteWidth
    OBVIOUS
  <2>4. /\ cur.done \in Seq(Message) /\ cur.ids \in Seq(Nat) /\ cur.width \in Nat /\ cur.opens \in Mark /\ w \in Nat
        /\ cur.width <= Budget /\ NoteWidth \in Nat /\ Budget \in Nat
    <3>1. cur.width <= Budget
      BY DEF Splitting
    <3>2. cur.done \in Seq(Message) /\ cur.ids \in Seq(Nat) /\ cur.width \in Nat /\ cur.opens \in Mark
      BY <1>2, Parts, Zenon
    <3>3. NoteWidth \in Nat /\ Budget \in Nat
      BY Widths
    <3>4. w \in Nat
      BY <2>3, <3>2, <3>3
    <3>. QED
      BY <3>1, <3>2, <3>3, <3>4
  <2>5. c.ids = cur.ids /\ c.opens = cur.opens /\ c.closes = "note" /\ c.width = w
    <3>1. c = Sent(cur.ids, cur.opens, "note", w)
      BY <2>2, <2>3, Zenon
    <3>. QED
      BY <2>4, <3>1, SentIs
  <2>6. p # n + 1 /\ cur.ids = SubSeq(g, p, n) /\ cur.opens = (IF p = 1 THEN "heading" ELSE "continued")
    BY <2>1, <2>4 DEF Splitting
  <2>7. Piece(g, c)
    <3>1. c.width <= Budget + NoteWidth
      BY <2>3, <2>4, <2>5
    <3>2. p \in 1..Len(g) /\ n \in 1..Len(g) /\ p <= n /\ n # Len(g)
      BY <2>6
    <3>3. c.closes # "truncated" => c.closes = IF n = Len(g) THEN "whole" ELSE "note"
      BY <2>5, <3>2
    <3>4. c.ids = SubSeq(g, p, n) /\ c.opens = (IF p = 1 THEN "heading" ELSE "continued")
      BY <2>5, <2>6
    <3>. QED
      BY <2>2, <3>1, <3>2, <3>3, <3>4, Zenon DEF Piece
  <2>8. PICK d : d = Append(cur.done, c)
    OBVIOUS
  <2>9. d \in Seq(Message) /\ at = Way(d, <<>>, 0, "heading", "continued")
    BY <2>2, <2>8, Zenon
  <2>10. /\ at \in UnderWay /\ at.done = d /\ at.ids = <<>> /\ at.width = 0 /\ at.next = "continued"
    BY <2>9, AtNone
  <2>11. \A i \in 1..Len(d) : Piece(g, d[i])
    <3>1. \A i \in 1..Len(cur.done) : Piece(g, cur.done[i])
      BY DEF Splitting
    <3>. QED
      BY <2>2, <2>4, <2>7, <2>8, <3>1, PieceMore
  <2>12. RowsIn(d) = SubSeq(g, 1, n)
    <3>1. RowsIn(d) = RowsIn(cur.done) \o c.ids
      BY <2>2, <2>4, <2>8, RowsOfAppend
    <3>2. RowsIn(cur.done) = SubSeq(g, 1, p - 1)
      BY DEF Splitting
    <3>3. SubSeq(g, 1, p - 1) \o SubSeq(g, p, n) = SubSeq(g, 1, n)
      BY Cut
    <3>. QED
      BY <2>5, <2>6, <3>1, <3>2, <3>3, Zenon
  <2>13. SubSeq(g, n + 1, n) = <<>> /\ (n + 1) - 1 = n /\ n + 1 \in 1..(n + 1)
    BY Cut
  <2>14. n # 0
    BY <2>6
  <2>15. Splitting(g, n, n + 1, at)
    <3>1. at.width <= Budget
      BY <2>4, <2>10
    <3>2. at.next = IF n = 0 THEN "heading" ELSE "continued"
      BY <2>10, <2>14
    <3>. QED
      BY <2>10, <2>11, <2>12, <2>13, <3>1, <3>2, Zenon DEF Splitting
  <2>. QED
    BY <1>1, <2>13, <2>15, Zenon
<1>. QED
  BY <1>3, <1>4

\* A step of the loop of splitOversizedGroup: after the next line of the group
\* the cut so far is as it should be.
LEMMA LineIsPut ==
  ASSUME NEW g \in Seq(Nat), NEW n \in 0..(Len(g) - 1), NEW p \in 1..(n + 1),
         NEW cur, Splitting(g, n, p, cur), LineWidth(g[n + 1]) \in Nat \ {0}
  PROVE  \E q \in 1..(n + 2) : Splitting(g, n + 1, q, PutLine(cur, g[n + 1]))
<1>1. PICK id : id = g[n + 1]
  OBVIOUS
<1>2. PICK at : at = PutAt(cur, id)
  OBVIOUS
<1>3. PICK unit : unit = HeadingOf(at.next) + LineWidth(id)
  OBVIOUS
<1>4. PICK opens : opens = IF at.width = 0 THEN at.next ELSE at.opens
  OBVIOUS
<1>5. PICK r \in 1..(n + 1) : Splitting(g, n, r, at)
  BY <1>1, <1>2, NoteClosesAPiece, Zenon
<1>6. PICK new : new = PutLine(cur, id)
  OBVIOUS
<1>7. cur \in UnderWay /\ id \in Nat /\ LineWidth(id) \in Nat \ {0}
  <2>1. cur \in UnderWay
    BY DEF Splitting
  <2>2. g[n + 1] \in Nat
    BY OneMore
  <2>. QED
    BY <1>1, <2>1, <2>2, Zenon
<1>8. /\ at \in UnderWay /\ unit \in Nat /\ opens \in Mark
      /\ at.width = 0 /\ unit > Budget =>
           /\ Sent(<<id>>, opens, "truncated", Budget) \in Message
           /\ new = Way(Append(at.done, Sent(<<id>>, opens, "truncated", Budget)),
                        <<>>, 0, "heading", "continued")
      /\ ~(at.width = 0 /\ unit > Budget) =>
           new = Way(at.done, Append(at.ids, id), at.width + unit, opens, "none")
      /\ new \in UnderWay
  <2>1. LineWidth(id) \in Nat
    BY <1>7
  <2>. QED
    BY <1>2, <1>3, <1>4, <1>6, <1>7, <2>1, PutLineIs
<1>9. /\ at.done \in Seq(Message) /\ at.ids \in Seq(Nat) /\ at.width \in Nat /\ at.opens \in Mark
      /\ HeadingOf(at.next) \in Nat /\ Budget \in Nat /\ NoteWidth \in Nat /\ at.width <= Budget
  BY <1>5, <1>8, Parts, Widths DEF Splitting
<1>10. /\ at.ids = SubSeq(g, r, n) /\ RowsIn(at.done) = SubSeq(g, 1, r - 1)
       /\ \A i \in 1..Len(at.done) : Piece(g, at.done[i])
       /\ at.width = 0 <=> r = n + 1
       /\ at.width # 0 => /\ at.opens = (IF r = 1 THEN "heading" ELSE "continued")
                          /\ at.next = "none"
       /\ at.width = 0 => at.next = IF n = 0 THEN "heading" ELSE "continued"
  BY <1>5, Zenon DEF Splitting
<1>11. opens = IF r = 1 THEN "heading" ELSE "continued"
  <2>1. at.width = 0 => (r = 1 <=> n = 0)
    BY <1>10
  <2>. QED
    BY <1>4, <1>10, <2>1
<1>12. CASE at.width = 0 /\ unit > Budget
  <2>1. PICK c : c = Sent(<<id>>, opens, "truncated", Budget)
    OBVIOUS
  <2>2. <<id>> \in Seq(Nat)
    BY <1>7
  <2>3. c \in Message /\ c.ids = <<id>> /\ c.opens = opens /\ c.closes = "truncated" /\ c.width = Budget
    <3>1. PICK s : s = <<id>>
      OBVIOUS
    <3>2. s \in Seq(Nat) /\ c = Sent(s, opens, "truncated", Budget)
      BY <2>1, <2>2, <3>1, Zenon
    <3>3. opens \in Mark /\ Budget \in Nat
      BY <1>8, <1>9, Zenon
    <3>4. c \in Message /\ c.ids = s /\ c.opens = opens /\ c.closes = "truncated" /\ c.width = Budget
      BY <3>2, <3>3, SentIs
    <3>. QED
      BY <3>1, <3>4, Zenon
  <2>4. r = n + 1 /\ RowsIn(at.done) = SubSeq(g, 1, n)
    <3>1. r = n + 1
      BY <1>10, <1>12, Zenon
    <3>2. (n + 1) - 1 = n
      OBVIOUS
    <3>. QED
      BY <1>10, <3>1, <3>2, Zenon
  <2>5. Piece(g, c)
    <3>1. n + 1 \in 1..Len(g) /\ n + 1 <= n + 1 /\ c.width <= Budget + NoteWidth
      BY <1>9, <2>3
    <3>2. c.ids = SubSeq(g, n + 1, n + 1)
      BY <1>1, <2>3, OneMore
    <3>3. c.opens = IF n + 1 = 1 THEN "heading" ELSE "continued"
      BY <1>11, <2>3, <2>4
    <3>. QED
      BY <2>3, <3>1, <3>2, <3>3, Zenon DEF Piece
  <2>6. PICK d : d = Append(at.done, c)
    OBVIOUS
  <2>7. new = Way(d, <<>>, 0, "heading", "continued")
    BY <1>8, <1>12, <2>1, <2>6, Zenon
  <2>8. d \in Seq(Message)
    BY <1>9, <2>3, <2>6
  <2>9. new.done = d /\ new.ids = <<>> /\ new.width = 0 /\ new.next = "continued"
    BY <2>7, <2>8, AtNone
  <2>10. \A i \in 1..Len(d) : Piece(g, d[i])
    BY <1>9, <1>10, <2>3, <2>5, <2>6, PieceMore
  <2>11. RowsIn(d) = SubSeq(g, 1, n + 1)
    <3>1. RowsIn(d) = RowsIn(at.done) \o c.ids
      BY <1>9, <2>3, <2>6, RowsOfAppend
    <3>2. SubSeq(g, 1, n) \o <<g[n + 1]>> = SubSeq(g, 1, n + 1)
      BY OneMore
    <3>. QED
      BY <1>1, <2>3, <2>4, <3>1, <3>2, Zenon
  <2>12. /\ n + 2 \in 1..(n + 2) /\ (n + 2) - 1 = n + 1 /\ n + 2 = (n + 1) + 1 /\ n + 1 # 0
         /\ SubSeq(g, n + 2, n + 1) = <<>>
    BY SubSeqEmpty
  <2>13. Splitting(g, n + 1, n + 2, new)
    <3>1. new.width <= Budget
      BY <1>9, <2>9
    <3>. QED
      BY <1>8, <2>9, <2>10, <2>11, <2>12, <3>1, Zenon DEF Splitting
  <2>. QED
    BY <1>1, <1>6, <2>12, <2>13, Zenon
<1>13. CASE ~(at.width = 0 /\ unit > Budget)
  <2>1. new = Way(at.done, Append(at.ids, id), at.width + unit, opens, "none")
    BY <1>8, <1>13, Zenon
  <2>2. PICK ids, w, none : ids = Append(at.ids, id) /\ w = at.width + unit /\ none = "none"
    OBVIOUS
  <2>3. ids \in Seq(Nat) /\ w \in Nat /\ none \in Mark
    <3>1. ids \in Seq(Nat)
      BY <1>7, <1>9, <2>2
    <3>2. w \in Nat /\ none \in Mark
      <4>1. at.width \in Nat /\ unit \in Nat
        BY <1>8, <1>9, Zenon
      <4>. QED
        BY <2>2, <4>1, Marks
    <3>. QED
      BY <3>1, <3>2
  <2>4. new.done = at.done /\ new.ids = ids /\ new.width = w /\ new.opens = opens /\ new.next = none
    <3>1. new = Way(at.done, ids, w, opens, none)
      BY <2>1, <2>2, Zenon
    <3>. QED
      <4>1. at.done \in Seq(Message) /\ opens \in Mark
        BY <1>8, <1>9, Zenon
      <4>. QED
        BY <2>3, <3>1, <4>1, WayIs
  <2>5. w <= Budget
    <3>1. at.width > 0 => at.width + HeadingOf(at.next) + LineWidth(id) <= Budget
      BY <1>2, <1>7, PutAtIs
    <3>2. /\ at.width \in Nat /\ HeadingOf(at.next) \in Nat /\ Budget \in Nat /\ LineWidth(id) \in Nat
      BY <1>7, <1>9
    <3>3. PICK k, l, m : k = at.width /\ l = HeadingOf(at.next) /\ m = LineWidth(id)
      OBVIOUS
    <3>4. k \in Nat /\ l \in Nat /\ m \in Nat /\ unit = l + m /\ w = k + unit /\ Budget \in Nat
      BY <1>3, <2>2, <3>2, <3>3, Zenon
    <3>5. k > 0 => k + l + m <= Budget
      BY <3>1, <3>3, Zenon
    <3>6. ~(k = 0 /\ unit > Budget)
      BY <1>13, <3>3, Zenon
    <3>. QED
      BY <3>4, <3>5, <3>6
  <2>6. w # 0
    <3>1. /\ at.width \in Nat /\ HeadingOf(at.next) \in Nat /\ LineWidth(id) \in Nat \ {0}
      BY <1>7, <1>9, Zenon
    <3>. QED
      BY <1>3, <2>2, <3>1
  <2>7. ids = SubSeq(g, r, n + 1)
    BY <1>1, <1>10, <2>2, OneMore
  <2>8. r \in 1..(n + 2) /\ r # (n + 1) + 1
    OBVIOUS
  <2>9. Splitting(g, n + 1, r, new)
    BY <1>8, <1>10, <1>11, <2>2, <2>4, <2>5, <2>6, <2>7, <2>8, Zenon DEF Splitting
  <2>. QED
    BY <1>1, <1>6, <2>8, <2>9, Zenon
<1>. QED
  BY <1>12, <1>13

\* What splitOversizedGroup makes of a group: its rows in their order, each
\* once, in messages each of which is a piece of the group.
LEMMA GroupIsSplit ==
  ASSUME NEW g \in Seq(Nat), \A i \in 1..Len(g) : LineWidth(g[i]) \in Nat \ {0}
  PROVE  /\ SplitOversizedGroup(g) \in Seq(Message)
         /\ RowsIn(SplitOversizedGroup(g)) = g
         /\ \A i \in 1..Len(SplitOversizedGroup(g)) : Piece(g, SplitOversizedGroup(g)[i])
<1>1. PICK n \in Nat : n = Len(g)
  OBVIOUS
<1>2. \A i \in 1..n : g[i] \in Nat /\ LineWidth(g[i]) \in Nat \ {0}
  BY <1>1
<1>3. Fresh(<<>>) = Way(<<>>, <<>>, 0, "heading", "heading") /\ <<>> \in Seq(Message)
  BY FreshIs
<1>4. PICK none : none = Fresh(<<>>)
  OBVIOUS
<1>5. /\ none \in UnderWay /\ none.done = <<>> /\ none.ids = <<>> /\ none.width = 0
      /\ none.next = "heading"
  BY <1>3, <1>4, AtNone
<1>6. \A c \in UnderWay, i \in 1..n : PutLine(c, g[i]) \in UnderWay
  <2>1. ASSUME NEW c \in UnderWay, NEW i \in 1..n PROVE PutLine(c, g[i]) \in UnderWay
    <3>1. PICK id : id = g[i]
      OBVIOUS
    <3>2. id \in Nat /\ LineWidth(id) \in Nat
      BY <1>2, <3>1
    <3>3. PutLine(c, id) \in UnderWay
      BY <3>2, PutLineIs
    <3>. QED
      BY <3>1, <3>3
  <2>. QED
    BY <2>1
<1>7. PICK f : f = LinesPut(g)
  OBVIOUS
<1>8. /\ f \in [0..n -> UnderWay] /\ f[0] = none
      /\ \A i \in 1..n : f[i] = PutLine(f[i - 1], g[i])
  <2>1. PICK U : U = UnderWay
    OBVIOUS
  <2>2. Len(g) \in Nat /\ Fresh(<<>>) \in U /\ \A c \in U, i \in 1..Len(g) : PutLine(c, g[i]) \in U
    BY <1>1, <1>4, <1>5, <1>6, <2>1, Zenon
  <2>3. /\ LinesPut(g) \in [0..Len(g) -> U]
        /\ LinesPut(g)[0] = Fresh(<<>>)
        /\ \A i \in 1..Len(g) : LinesPut(g)[i] = PutLine(LinesPut(g)[i - 1], g[i])
    BY <2>2, LinesPutIs
  <2>. QED
    BY <1>1, <1>4, <1>7, <2>1, <2>3, Zenon
<1>9. PICK S : S = {k \in 0..n : \E p \in 1..(k + 1) : Splitting(g, k, p, f[k])}
  OBVIOUS
<1>10. 0 \in S
  <2>1. SubSeq(g, 1, 1 - 1) = <<>> /\ SubSeq(g, 1, 0) = <<>>
    BY SubSeqEmpty
  <2>2. RowsIn(<<>>) = <<>> /\ Len(<<>>) = 0 /\ 1..0 = {} /\ 1 = 0 + 1 /\ Budget >= 0 /\ 1 \in 1..(0 + 1)
    BY RowsOfNone, Widths
  <2>3. Splitting(g, 0, 1, none)
    <3>1. none.width <= Budget
      BY <1>5, <2>2, Widths
    <3>2. \A i \in 1..Len(none.done) : Piece(g, none.done[i])
      BY <1>5, <2>2
    <3>. QED
      BY <1>5, <2>1, <2>2, <3>1, <3>2, Zenon DEF Splitting
  <2>4. 0 \in 0..n
    OBVIOUS
  <2>. QED
    <3>1. Splitting(g, 0, 1, f[0]) /\ 1 \in 1..(0 + 1)
      BY <1>8, <2>2, <2>3, Zenon
    <3>2. \E q \in 1..(0 + 1) : Splitting(g, 0, q, f[0])
      BY <3>1, Zenon
    <3>. QED
      BY <1>9, <2>4, <3>2
<1>11. ASSUME NEW k \in 0..(n - 1), k \in S PROVE k + 1 \in S
  <2>1. k + 1 \in 0..n /\ k + 1 \in 1..n /\ (k + 1) - 1 = k /\ k \in 0..(Len(g) - 1) /\ (k + 1) + 1 = k + 2
    BY <1>1
  <2>2. PICK p \in 1..(k + 1) : Splitting(g, k, p, f[k])
    BY <1>9, <1>11, Zenon
  <2>3. LineWidth(g[k + 1]) \in Nat \ {0}
    BY <1>2, <2>1
  <2>4. \E q \in 1..(k + 2) : Splitting(g, k + 1, q, PutLine(f[k], g[k + 1]))
    BY <2>1, <2>2, <2>3, LineIsPut
  <2>5. f[k + 1] = PutLine(f[k], g[k + 1])
    <3>1. f[k + 1] = PutLine(f[(k + 1) - 1], g[k + 1])
      BY <1>8, <2>1, Zenon
    <3>. QED
      BY <2>1, <3>1, Zenon
  <2>6. \E q \in 1..((k + 1) + 1) : Splitting(g, k + 1, q, f[k + 1])
    BY <2>1, <2>4, <2>5, Zenon
  <2>. QED
    BY <1>9, <2>1, <2>6, Zenon
<1>12. \A k \in 0..(n - 1) : k \in S => k + 1 \in S
  BY <1>11
<1>13. n \in S
  <2>1. \A k \in 0..n : k \in S
    BY <1>10, <1>12, UpTo
  <2>. QED
    BY <2>1
<1>14. PICK cur : cur = f[n]
  OBVIOUS
<1>15. PICK p \in 1..(n + 1) : Splitting(g, n, p, cur)
  BY <1>9, <1>13, <1>14, Zenon
<1>16. PICK chunks : chunks = SplitOversizedGroup(g)
  OBVIOUS
<1>17. chunks = Flush(cur, "whole").done
  BY <1>1, <1>7, <1>14, <1>16, Zenon DEF SplitOversizedGroup
<1>18. /\ cur \in UnderWay /\ cur.done \in Seq(Message) /\ cur.ids \in Seq(Nat) /\ cur.width \in Nat
       /\ cur.opens \in Mark
  <2>1. cur \in UnderWay
    BY <1>15, Zenon DEF Splitting
  <2>. QED
    BY <2>1, Parts, Zenon
<1>19. /\ cur.ids = SubSeq(g, p, n) /\ RowsIn(cur.done) = SubSeq(g, 1, p - 1)
       /\ \A i \in 1..Len(cur.done) : Piece(g, cur.done[i])
       /\ cur.width = 0 <=> p = n + 1
       /\ cur.width # 0 => cur.opens = (IF p = 1 THEN "heading" ELSE "continued")
       /\ cur.width <= Budget
  BY <1>15, Zenon DEF Splitting
<1>20. SubSeq(g, 1, n) = g
  BY <1>1, SubSeqFull
<1>21. CASE cur.width = 0
  <2>1. chunks = cur.done
    BY <1>17, <1>18, <1>21, FlushIs
  <2>2. p = n + 1 /\ (n + 1) - 1 = n
    BY <1>19, <1>21
  <2>3. RowsIn(chunks) = g
    BY <1>19, <1>20, <2>1, <2>2, Zenon
  <2>. QED
    BY <1>16, <1>18, <1>19, <2>1, <2>3, Zenon
<1>22. CASE cur.width # 0
  <2>1. PICK w : w = cur.width + IF "whole" = "note" THEN NoteWidth ELSE 0
    OBVIOUS
  <2>2. PICK c : /\ c = Sent(cur.ids, cur.opens, "whole", w)
                     /\ c \in Message
                     /\ Flush(cur, "whole") = Way(Append(cur.done, c), <<>>, 0, "heading", "heading")
                     /\ Append(cur.done, c) \in Seq(Message)
    BY <1>18, <1>22, <2>1, FlushIs
  <2>3. w = cur.width
    BY <1>18, <2>1
  <2>4. c.ids = cur.ids /\ c.opens = cur.opens /\ c.closes = "whole" /\ c.width = w
    BY <1>18, <2>2, <2>3, SentIs
  <2>5. PICK d : d = Append(cur.done, c)
    OBVIOUS
  <2>6. d \in Seq(Message) /\ Flush(cur, "whole") = Way(d, <<>>, 0, "heading", "heading")
    BY <2>2, <2>5, Zenon
  <2>7. chunks = d
    BY <1>17, <2>6, AtNone
  <2>8. p \in 1..Len(g) /\ n \in 1..Len(g) /\ p <= n
    <3>1. p # n + 1
      BY <1>19, <1>22, Zenon
    <3>. QED
      BY <1>1, <3>1
  <2>9. Piece(g, c)
    <3>1. c.width <= Budget + NoteWidth
      <4>1. c.width \in Nat /\ c.width <= Budget
        BY <1>18, <1>19, <2>3, <2>4, Zenon
      <4>. QED
        BY <4>1, Widths
    <3>2. c.closes # "truncated" => c.closes = IF n = Len(g) THEN "whole" ELSE "note"
      BY <1>1, <2>4
    <3>3. c.ids = SubSeq(g, p, n) /\ c.opens = IF p = 1 THEN "heading" ELSE "continued"
      BY <1>19, <1>22, <2>4, Zenon
    <3>. QED
      BY <2>2, <2>8, <3>1, <3>2, <3>3, Zenon DEF Piece
  <2>10. \A i \in 1..Len(d) : Piece(g, d[i])
    BY <1>18, <1>19, <2>2, <2>5, <2>9, PieceMore
  <2>11. RowsIn(d) = g
    <3>1. RowsIn(d) = RowsIn(cur.done) \o c.ids
      BY <1>18, <2>2, <2>5, RowsOfAppend
    <3>2. SubSeq(g, 1, p - 1) \o SubSeq(g, p, n) = SubSeq(g, 1, n)
      <4>1. n \in 0..Len(g)
        BY <1>1
      <4>. QED
        BY <4>1, Cut
    <3>. QED
      BY <1>19, <1>20, <2>4, <3>1, <3>2, Zenon
  <2>. QED
    BY <1>16, <2>6, <2>7, <2>10, <2>11, Zenon
<1>. QED
  BY <1>21, <1>22

-----------------------------------------------------------------------------
(* Groups that stand one after the other.                                    *)

\* The width of a group as rendered is a positive number.
LEMMA RenderedIs ==
  ASSUME NEW g, Len(g) \in Nat, \A i \in 1..Len(g) : LineWidth(g[i]) \in Nat
  PROVE  Rendered(g) \in Nat \ {0}
<1>1. PICK n \in Nat : n = Len(g)
  OBVIOUS
<1>2. PICK W : W = Nat \ {0}
  OBVIOUS
<1>3. PICK F : F = [i \in 1..n |-> [w \in W |-> w + LineWidth(g[i])]]
  OBVIOUS
<1>4. F \in [1..n -> [W -> W]]
  BY <1>1, <1>2, <1>3
<1>5. HeadingWidth \in W
  BY <1>2, Widths
<1>6. PICK f \in [0..n -> W] : f[0] = HeadingWidth /\ \A i \in 1..n : f[i] = F[i][f[i - 1]]
  BY <1>4, <1>5, Iterates
<1>7. \A i \in 1..n : f[i] = f[i - 1] + LineWidth(g[i])
  BY <1>3, <1>6
<1>. DEFINE Loop(h) == h = [i \in 0..n |-> IF i = 0 THEN HeadingWidth ELSE h[i - 1] + LineWidth(g[i])]
<1>8. Loop(f)
  BY <1>6, <1>7
<1>9. PICK h : h = CHOOSE e : Loop(e)
  OBVIOUS
<1>10. Rendered(g) = h[n]
  <2>1. Rendered(g) = (CHOOSE e : Loop(e))[n]
    BY <1>1 DEF Rendered
  <2>. QED
    BY <1>9, <2>1
<1>11. Loop(h)
  BY <1>8, <1>9
<1>12. /\ h[0] = HeadingWidth
       /\ \A i \in 1..n : h[i] = h[i - 1] + LineWidth(g[i])
  BY <1>11
<1>. HIDE DEF Loop
<1>13. PICK S : S = {k \in 0..n : h[k] \in W}
  OBVIOUS
<1>14. 0 \in S
  BY <1>5, <1>12, <1>13
<1>15. \A i \in 0..(n - 1) : i \in S => i + 1 \in S
  BY <1>1, <1>2, <1>12, <1>13
<1>16. \A i \in 0..n : i \in S
  BY <1>14, <1>15, UpTo
<1>. QED
  BY <1>2, <1>10, <1>13, <1>16

\* What a digest cut so far is, after each of its groups, from what it is
\* after the group before (the loop of chunkDigest).
LEMMA GroupsPutIs ==
  ASSUME NEW A, NEW gs, Len(gs) \in Nat, Fresh(<<>>) \in A,
         \A c \in A, i \in 1..Len(gs) : PutGroup(c, gs[i]) \in A
  PROVE  /\ GroupsPut(gs) \in [0..Len(gs) -> A]
         /\ GroupsPut(gs)[0] = Fresh(<<>>)
         /\ \A i \in 1..Len(gs) : GroupsPut(gs)[i] = PutGroup(GroupsPut(gs)[i - 1], gs[i])
<1>1. PICK n \in Nat : n = Len(gs)
  OBVIOUS
<1>2. PICK F : F = [i \in 1..n |-> [c \in A |-> PutGroup(c, gs[i])]]
  OBVIOUS
<1>3. F \in [1..n -> [A -> A]]
  BY <1>1, <1>2
<1>4. PICK f \in [0..n -> A] :
        f[0] = Fresh(<<>>) /\ \A i \in 1..n : f[i] = F[i][f[i - 1]]
  BY <1>3, Iterates
<1>5. \A i \in 1..n : f[i] = PutGroup(f[i - 1], gs[i])
  BY <1>2, <1>4
<1>. DEFINE Loop(h) == h = [i \in 0..n |-> IF i = 0 THEN Fresh(<<>>) ELSE PutGroup(h[i - 1], gs[i])]
<1>6. Loop(f)
  BY <1>4, <1>5
<1>7. GroupsPut(gs) = CHOOSE h : Loop(h)
  BY <1>1 DEF GroupsPut
<1>8. Loop(GroupsPut(gs))
  BY <1>6, <1>7
<1>9. PICK h : h = GroupsPut(gs)
  OBVIOUS
<1>10. h = [i \in 0..n |-> IF i = 0 THEN Fresh(<<>>) ELSE PutGroup(h[i - 1], gs[i])]
  BY <1>8, <1>9, Zenon
<1>13. /\ DOMAIN h = 0..n /\ h[0] = Fresh(<<>>)
       /\ \A i \in 1..n : h[i] = PutGroup(h[i - 1], gs[i])
  BY <1>10
<1>11. \A i \in 0..n : i \in {k \in 0..n : h[k] \in A}
  <2>1. 0 \in {k \in 0..n : h[k] \in A}
    BY <1>13
  <2>2. \A i \in 0..(n - 1) : i \in {k \in 0..n : h[k] \in A} => i + 1 \in {k \in 0..n : h[k] \in A}
    BY <1>1, <1>13
  <2>. QED
    BY <2>1, <2>2, UpTo
<1>12. h \in [0..n -> A]
  <2>1. h = [i \in 0..n |-> h[i]]
    BY <1>10, <1>13
  <2>2. \A i \in 0..n : h[i] \in A
    BY <1>11
  <2>. QED
    BY <2>1, <2>2
<1>. QED
  BY <1>1, <1>9, <1>13, <1>12

\* The rows of the groups from the p-th to the q-th.
Flat(gs, p, q) == FlattenSeq(SubSeq(gs, p, q))

\* The groups of a digest may be cut after any of them.
LEMMA GroupCut ==
  ASSUME NEW gs \in Seq(Seq(Nat)), NEW n \in 0..Len(gs), NEW p \in 1..(n + 1)
  PROVE  /\ Flat(gs, 1, p - 1) \o Flat(gs, p, n) = Flat(gs, 1, n)
         /\ Flat(gs, n + 1, n) = <<>>
         /\ Flat(gs, p, n) \in Seq(Nat)
<1>1. PICK k : k = p - 1
  OBVIOUS
<1>2. k \in 0..n /\ k + 1 = p /\ n \in k..Len(gs) /\ k \in (1 - 1)..Len(gs) /\ 1 \in 1..(Len(gs) + 1)
  BY <1>1
<1>3. FlattenSeq(SubSeq(gs, 1, k)) \o FlattenSeq(SubSeq(gs, k + 1, n)) = FlattenSeq(SubSeq(gs, 1, n))
  BY <1>2, FlattenParts
<1>4. Flat(gs, 1, p - 1) \o Flat(gs, p, n) = Flat(gs, 1, n)
  BY <1>1, <1>2, <1>3, Zenon DEF Flat
<1>5. SubSeq(gs, n + 1, n) = <<>>
  BY SubSeqEmpty
<1>6. \A i \in p..n : gs[i] \in Seq(Nat)
  OBVIOUS
<1>7. SubSeq(gs, p, n) \in Seq(Seq(Nat))
  BY <1>6, SubSeqProperties
<1>8. FlattenSeq(SubSeq(gs, p, n)) \in Seq(Nat)
  BY <1>7, Marks, FlattenAppend
<1>. QED
  BY <1>4, <1>5, <1>8, FlattenEmpty, Zenon DEF Flat

\* The rows of the next group come after those of the groups before it.
LEMMA GroupMore ==
  ASSUME NEW gs \in Seq(Seq(Nat)), NEW n \in 0..(Len(gs) - 1), NEW p \in 1..(n + 1)
  PROVE  /\ Flat(gs, p, n) \o gs[n + 1] = Flat(gs, p, n + 1)
         /\ Flat(gs, n + 1, n + 1) = gs[n + 1]
         /\ gs[n + 1] \in Seq(Nat)
<1>1. PICK m : m = n + 1
  OBVIOUS
<1>2. m \in 1..Len(gs) /\ m - 1 = n /\ p \in 1..Len(gs) /\ m \in p..Len(gs) /\ m \in m..Len(gs)
  BY <1>1
<1>3. gs[m] \in Seq(Nat)
  BY <1>2
<1>4. PICK s, e : s = SubSeq(gs, p, n) /\ e = gs[m]
  OBVIOUS
<1>5. s \in Seq(Seq(Nat)) /\ e \in Seq(Nat)
  <2>1. \A i \in p..n : gs[i] \in Seq(Nat)
    OBVIOUS
  <2>. QED
    BY <1>3, <1>4, <2>1, SubSeqProperties
<1>6. SubSeq(gs, p, m) = SubSeq(gs, p, m - 1) \o <<gs[m]>>
  BY <1>2, SubSeqRecursiveSecond
<1>7. SubSeq(gs, p, m) = s \o <<e>>
  BY <1>2, <1>4, <1>6, Zenon
<1>8. SubSeq(gs, p, m) = Append(s, e)
  BY <1>5, <1>7, AppendIsConcat
<1>9. FlattenSeq(Append(s, e)) = FlattenSeq(s) \o e
  BY <1>5, FlattenAppend
<1>10. Flat(gs, p, n) \o gs[m] = Flat(gs, p, m)
  BY <1>4, <1>8, <1>9, Zenon DEF Flat
<1>11. SubSeq(gs, m, m) = <<e>>
  <2>1. SubSeq(gs, m, m) = SubSeq(gs, m, m - 1) \o <<gs[m]>>
    BY <1>2, SubSeqRecursiveSecond
  <2>2. SubSeq(gs, m, m - 1) = <<>>
    BY <1>2, SubSeqEmpty
  <2>3. <<e>> \in Seq(Seq(Nat))
    BY <1>5
  <2>4. <<>> \o <<e>> = <<e>>
    BY <2>3, ConcatEmptySeq
  <2>. QED
    BY <1>4, <2>1, <2>2, <2>4, Zenon
<1>12. Flat(gs, m, m) = gs[m]
  <2>1. FlattenSeq(<<e>>) = e
    BY <1>5, FlattenOne
  <2>. QED
    BY <1>4, <1>11, <2>1, Zenon DEF Flat
<1>. QED
  BY <1>1, <1>3, <1>10, <1>12, Zenon

\* The rows of a group are among the rows of the groups it stands with.
LEMMA RowsOfAGroup ==
  ASSUME NEW gs \in Seq(Seq(Nat)), NEW n \in 0..Len(gs), NEW p \in 1..n, NEW j \in p..n
  PROVE  Range(gs[j]) \subseteq Range(Flat(gs, p, n))
<1>1. PICK k : k = j - 1
  OBVIOUS
<1>2. k \in 0..(Len(gs) - 1) /\ p \in 1..(k + 1) /\ k + 1 = j
  BY <1>1
<1>3. Flat(gs, p, k) \o gs[j] = Flat(gs, p, j) /\ gs[j] \in Seq(Nat)
  BY <1>2, GroupMore
<1>4. Flat(gs, p, k) \in Seq(Nat)
  <2>1. k \in 0..Len(gs)
    BY <1>2
  <2>. QED
    BY <1>2, <2>1, GroupCut
<1>5. Flat(gs, p, j) \o Flat(gs, j + 1, n) = Flat(gs, p, n)
  <2>1. p \in 1..(Len(gs) + 1) /\ j \in (p - 1)..Len(gs) /\ n \in j..Len(gs)
    OBVIOUS
  <2>. QED
    BY <2>1, FlattenParts, Marks DEF Flat
<1>6. Flat(gs, p, j) \in Seq(Nat)
  <2>1. j \in 0..Len(gs) /\ p \in 1..(j + 1)
    OBVIOUS
  <2>. QED
    BY <2>1, GroupCut
<1>7. Flat(gs, j + 1, n) \in Seq(Nat)
  <2>1. n \in 0..Len(gs) /\ j + 1 \in 1..(n + 1)
    OBVIOUS
  <2>. QED
    BY <2>1, GroupCut
<1>8. Range(Flat(gs, p, n)) = Range(Flat(gs, p, j)) \union Range(Flat(gs, j + 1, n))
  <2>1. PICK s, t : s = Flat(gs, p, j) /\ t = Flat(gs, j + 1, n)
    OBVIOUS
  <2>2. s \in Seq(Nat) /\ t \in Seq(Nat)
    BY <1>6, <1>7, <2>1
  <2>3. Range(s \o t) = Range(s) \union Range(t)
    BY <2>2, RangeConcatenation
  <2>. QED
    BY <1>5, <2>1, <2>3, Zenon
<1>9. Range(Flat(gs, p, j)) = Range(Flat(gs, p, k)) \union Range(gs[j])
  <2>1. PICK s, t : s = Flat(gs, p, k) /\ t = gs[j]
    OBVIOUS
  <2>2. s \in Seq(Nat) /\ t \in Seq(Nat)
    BY <1>3, <1>4, <2>1
  <2>3. Range(s \o t) = Range(s) \union Range(t)
    BY <2>2, RangeConcatenation
  <2>. QED
    BY <1>3, <2>1, <2>3, Zenon
<1>. QED
  BY <1>8, <1>9, Zenon

-----------------------------------------------------------------------------
(* All groups (chunkDigest).                                                 *)

\* A message with whole groups, which fits the budget.
WholeGroups(gs, c) ==
  /\ c.width <= Budget /\ c.opens = "heading" /\ c.closes = "whole"
  /\ \E p \in 1..Len(gs), q \in 1..Len(gs) : p <= q /\ c.ids = Flat(gs, p, q)

\* A message with a part of a group that no message can hold.
PartOfAGroup(gs, c) ==
  \E k \in 1..Len(gs) : Rendered(gs[k]) > Budget /\ Piece(gs[k], c)

\* Every message is one or the other.
Fair(gs, c) == c \in Message /\ (WholeGroups(gs, c) \/ PartOfAGroup(gs, c))

\* Some message has all rows of a group.
Held(g, chunks) == \E i \in 1..Len(chunks) : Range(g) \subseteq Range(chunks[i].ids)

\* What chunkDigest has after n groups, p being the first that is not in a
\* message.
Chunking(gs, n, p, cur) ==
  /\ cur \in UnderWay /\ cur.width <= Budget /\ cur.opens = "heading"
  /\ \A i \in 1..Len(cur.done) : Fair(gs, cur.done[i])
  /\ RowsIn(cur.done) = Flat(gs, 1, p - 1) /\ cur.ids = Flat(gs, p, n)
  /\ cur.width = 0 <=> p = n + 1
  /\ \A j \in 1..(p - 1) : Rendered(gs[j]) <= Budget => Held(gs[j], cur.done)

\* Messages more: a group that some message holds is still held, and all are
\* fair to the groups if the some and the more are.
LEMMA MessagesMore ==
  ASSUME NEW gs, NEW some \in Seq(Message), NEW more \in Seq(Message)
  PROVE  /\ some \o more \in Seq(Message)
         /\ \A g : Held(g, some) \/ Held(g, more) => Held(g, some \o more)
         /\ (\A i \in 1..Len(some) : Fair(gs, some[i])) /\ (\A i \in 1..Len(more) : Fair(gs, more[i]))
              => \A i \in 1..Len(some \o more) : Fair(gs, (some \o more)[i])
<1>1. PICK all : all = some \o more
  OBVIOUS
<1>2. /\ all \in Seq(Message) /\ Len(all) = Len(some) + Len(more)
      /\ Len(some) \in Nat /\ Len(more) \in Nat
      /\ \A i \in 1..(Len(some) + Len(more)) :
           all[i] = IF i <= Len(some) THEN some[i] ELSE more[i - Len(some)]
  BY <1>1, ConcatProperties
<1>3. \A i \in 1..Len(some) : i \in 1..Len(all) /\ all[i] = some[i]
  BY <1>2
<1>4. \A i \in 1..Len(more) : i + Len(some) \in 1..Len(all) /\ all[i + Len(some)] = more[i]
  <2>1. ASSUME NEW i \in 1..Len(more), NEW k, k = i + Len(some)
        PROVE  k \in 1..Len(all) /\ all[k] = more[i]
    <3>1. k \in 1..(Len(some) + Len(more)) /\ ~(k <= Len(some)) /\ k - Len(some) = i
      BY <1>2, <2>1
    <3>2. all[k] = IF k <= Len(some) THEN some[k] ELSE more[k - Len(some)]
      BY <1>2, <3>1, Zenon
    <3>3. k \in 1..Len(all)
      BY <1>2, <3>1, Zenon
    <3>. QED
      BY <3>1, <3>2, <3>3, Zenon
  <2>. QED
    BY <2>1
<1>5. \A g : Held(g, some) => Held(g, all)
  BY <1>3, Zenon DEF Held
<1>6. \A g : Held(g, more) => Held(g, all)
  BY <1>4, Zenon DEF Held
<1>7. ASSUME \A i \in 1..Len(some) : Fair(gs, some[i]), \A i \in 1..Len(more) : Fair(gs, more[i]),
             NEW i \in 1..Len(all)
      PROVE  Fair(gs, all[i])
  <2>1. CASE i <= Len(some)
    <3>1. i \in 1..Len(some)
      BY <1>2, <2>1
    <3>. QED
      BY <1>3, <1>7, <3>1, Zenon
  <2>2. CASE ~(i <= Len(some))
    <3>1. i - Len(some) \in 1..Len(more) /\ (i - Len(some)) + Len(some) = i
      BY <1>2, <2>2
    <3>2. all[i] = more[i - Len(some)]
      BY <1>4, <3>1, Zenon
    <3>. QED
      BY <1>7, <3>1, <3>2, Zenon
  <2>. QED
    BY <2>1, <2>2
<1>. QED
  BY <1>1, <1>2, <1>5, <1>6, <1>7

\* The chunk under way becomes a message, which is fair to the groups.
LEMMA ChunkIsFlushed ==
  ASSUME NEW gs \in Seq(Seq(Nat)), NEW n \in 0..Len(gs), NEW p \in 1..(n + 1),
         NEW cur, Chunking(gs, n, p, cur)
  PROVE  Chunking(gs, n, n + 1, Flush(cur, "whole"))
<1>1. /\ cur \in UnderWay /\ cur.done \in Seq(Message) /\ cur.ids \in Seq(Nat) /\ cur.width \in Nat
      /\ cur.opens \in Mark
  <2>1. cur \in UnderWay
    BY Zenon DEF Chunking
  <2>. QED
    BY <2>1, Parts, Zenon
<1>2. /\ cur.width <= Budget /\ cur.opens = "heading"
      /\ \A i \in 1..Len(cur.done) : Fair(gs, cur.done[i])
      /\ RowsIn(cur.done) = Flat(gs, 1, p - 1) /\ cur.ids = Flat(gs, p, n)
      /\ cur.width = 0 <=> p = n + 1
      /\ \A j \in 1..(p - 1) : Rendered(gs[j]) <= Budget => Held(gs[j], cur.done)
  BY Zenon DEF Chunking
<1>3. CASE cur.width = 0
  <2>1. p = n + 1 /\ Flush(cur, "whole") = cur
    BY <1>1, <1>2, <1>3, FlushIs
  <2>. QED
    BY <2>1
<1>4. CASE cur.width # 0
  <2>1. PICK w : w = cur.width + IF "whole" = "note" THEN NoteWidth ELSE 0
    OBVIOUS
  <2>2. PICK c : /\ c = Sent(cur.ids, cur.opens, "whole", w)
                     /\ c \in Message
                     /\ Flush(cur, "whole") = Way(Append(cur.done, c), <<>>, 0, "heading", "heading")
                     /\ Append(cur.done, c) \in Seq(Message)
    BY <1>1, <1>4, <2>1, FlushIs
  <2>3. w = cur.width
    BY <1>1, <2>1
  <2>4. c.ids = cur.ids /\ c.opens = cur.opens /\ c.closes = "whole" /\ c.width = w
    BY <1>1, <2>2, <2>3, SentIs
  <2>5. PICK d, one : d = Append(cur.done, c) /\ one = <<c>>
    OBVIOUS
  <2>6. d \in Seq(Message) /\ Flush(cur, "whole") = Way(d, <<>>, 0, "heading", "heading")
    BY <2>2, <2>5, Zenon
  <2>7. PICK new : new = Flush(cur, "whole")
    OBVIOUS
  <2>8. new \in UnderWay /\ new.done = d /\ new.ids = <<>> /\ new.width = 0 /\ new.opens = "heading"
    BY <2>6, <2>7, AtNone
  <2>9. p \in 1..Len(gs) /\ n \in 1..Len(gs) /\ p <= n
    <3>1. p # n + 1
      BY <1>2, <1>4, Zenon
    <3>. QED
      BY <3>1
  <2>10. Fair(gs, c)
    <3>1. c.width <= Budget
      BY <1>2, <2>3, <2>4, Zenon
    <3>2. WholeGroups(gs, c)
      BY <1>2, <2>4, <2>9, <3>1, Zenon DEF WholeGroups
    <3>. QED
      BY <2>2, <3>2, Zenon DEF Fair
  <2>11. one \in Seq(Message) /\ d = cur.done \o one /\ Len(one) = 1 /\ one[1] = c
    <3>1. d = cur.done \o one
      BY <1>1, <2>2, <2>5, AppendIsConcat
    <3>2. one \in Seq(Message) /\ Len(one) = 1 /\ one[1] = c
      BY <2>2, <2>5
    <3>. QED
      BY <3>1, <3>2
  <2>12. \A i \in 1..Len(d) : Fair(gs, d[i])
    <3>1. \A i \in 1..Len(one) : Fair(gs, one[i])
      BY <2>10, <2>11
    <3>2. \A i \in 1..Len(cur.done \o one) : Fair(gs, (cur.done \o one)[i])
      BY <1>1, <1>2, <2>11, <3>1, MessagesMore
    <3>. QED
      BY <2>11, <3>2, Zenon
  <2>13. RowsIn(d) = Flat(gs, 1, n)
    <3>1. RowsIn(d) = RowsIn(cur.done) \o c.ids
      BY <1>1, <2>2, <2>5, RowsOfAppend
    <3>2. Flat(gs, 1, p - 1) \o Flat(gs, p, n) = Flat(gs, 1, n)
      BY GroupCut
    <3>. QED
      BY <1>2, <2>4, <3>1, <3>2, Zenon
  <2>14. ASSUME NEW j \in 1..n, Rendered(gs[j]) <= Budget PROVE Held(gs[j], d)
    <3>1. CASE j < p
      <4>1. j \in 1..(p - 1)
        BY <3>1
      <4>2. Held(gs[j], cur.done)
        BY <1>2, <2>14, <4>1, Zenon
      <4>. QED
        BY <1>1, <2>11, <4>2, MessagesMore
    <3>2. CASE ~(j < p)
      <4>1. p \in 1..n /\ j \in p..n
        BY <2>9, <3>2
      <4>2. Range(gs[j]) \subseteq Range(Flat(gs, p, n))
        BY <4>1, RowsOfAGroup
      <4>3. Range(gs[j]) \subseteq Range(one[1].ids)
        BY <1>2, <2>4, <2>11, <4>2, Zenon
      <4>4. Held(gs[j], one)
        <5>1. 1 \in 1..Len(one)
          BY <2>11
        <5>. QED
          BY <4>3, <5>1, Zenon DEF Held
      <4>. QED
        BY <1>1, <2>11, <4>4, MessagesMore
    <3>. QED
      BY <3>1, <3>2
  <2>15. Flat(gs, n + 1, n) = <<>> /\ (n + 1) - 1 = n
    BY GroupCut
  <2>16. Chunking(gs, n, n + 1, new)
    <3>1. new.width <= Budget
      BY <2>8, Widths
    <3>2. \A j \in 1..((n + 1) - 1) : Rendered(gs[j]) <= Budget => Held(gs[j], new.done)
      BY <2>8, <2>14, <2>15
    <3>. QED
      BY <2>8, <2>12, <2>13, <2>15, <3>1, <3>2, Zenon DEF Chunking
  <2>. QED
    BY <2>7, <2>16
<1>. QED
  BY <1>3, <1>4

\* The chunk that the group goes to, if it fits a message.
GroupAt(cur, g) ==
  IF cur.width > 0 /\ cur.width + 1 + Rendered(g) > Budget THEN Flush(cur, "whole") ELSE cur

\* A group that no message can hold is cut into messages after that under
\* way; any other is added to the chunk it goes to.
LEMMA PutGroupIs ==
  ASSUME NEW cur \in UnderWay, NEW g \in Seq(Nat), Rendered(g) \in Nat,
         SplitOversizedGroup(g) \in Seq(Message), NEW at, at = GroupAt(cur, g)
  PROVE  /\ at \in UnderWay
         /\ Rendered(g) > Budget =>
              PutGroup(cur, g) = Way(Flush(cur, "whole").done \o SplitOversizedGroup(g),
                                     <<>>, 0, "heading", "heading")
         /\ ~(Rendered(g) > Budget) =>
              PutGroup(cur, g) = Way(at.done, at.ids \o g,
                                     at.width + (Rendered(g) + IF at.width > 0 THEN 1 ELSE 0),
                                     at.opens, at.next)
         /\ PutGroup(cur, g) \in UnderWay
<1>1. at \in UnderWay
  BY FlushIs, Zenon DEF GroupAt
<1>2. PutGroup(cur, g) =
        IF Rendered(g) > Budget
          THEN Fresh(Flush(cur, "whole").done \o SplitOversizedGroup(g))
          ELSE [at EXCEPT !.ids = @ \o g,
                          !.width = @ + Rendered(g) + IF @ > 0 THEN 1 ELSE 0]
  <2>. DEFINE at1 == GroupAt(cur, g)
  <2>1. PutGroup(cur, g) =
          IF Rendered(g) > Budget
            THEN Fresh(Flush(cur, "whole").done \o SplitOversizedGroup(g))
            ELSE [at1 EXCEPT !.ids = @ \o g,
                          !.width = @ + Rendered(g) + IF @ > 0 THEN 1 ELSE 0]
    BY DEF PutGroup, GroupAt
  <2>2. at = at1
    BY Zenon
  <2>. HIDE DEF at1
  <2>. QED
    BY <2>1, <2>2, Zenon
<1>3. CASE Rendered(g) > Budget
  <2>1. PICK d : d = Flush(cur, "whole").done \o SplitOversizedGroup(g)
    OBVIOUS
  <2>2. PutGroup(cur, g) = Way(d, <<>>, 0, "heading", "heading")
    BY <1>2, <1>3, <2>1, FreshIs, Zenon
  <2>3. Flush(cur, "whole") \in UnderWay
    BY FlushIs
  <2>4. Flush(cur, "whole").done \in Seq(Message)
    BY <2>3, Parts
  <2>5. d \in Seq(Message)
    BY <2>1, <2>4, ConcatProperties
  <2>6. PutGroup(cur, g) \in UnderWay
    BY <2>2, <2>5, AtNone
  <2>. QED
    BY <1>1, <1>3, <2>1, <2>2, <2>6, Zenon
<1>4. CASE ~(Rendered(g) > Budget)
  <2>1. PutGroup(cur, g) = [at EXCEPT !.ids = @ \o g,
                          !.width = @ + Rendered(g) + IF @ > 0 THEN 1 ELSE 0]
    BY <1>2, <1>4, Zenon
  <2>2. PICK s, w : s = at.ids \o g /\ w = at.width + (Rendered(g) + IF at.width > 0 THEN 1 ELSE 0)
    OBVIOUS
  <2>3. /\ at.done \in Seq(Message) /\ at.ids \in Seq(Nat) /\ at.width \in Nat
        /\ at.opens \in Mark /\ at.next \in Mark
    BY <1>1, Parts
  <2>4. s \in Seq(Nat) /\ w \in Nat
    <3>1. s \in Seq(Nat)
      BY <2>2, <2>3, ConcatProperties
    <3>2. w \in Nat
      BY <2>2, <2>3
    <3>. QED
      BY <3>1, <3>2
  <2>5. PutGroup(cur, g) = Way(at.done, s, w, at.opens, at.next)
    <3>1. w = at.width + Rendered(g) + IF at.width > 0 THEN 1 ELSE 0
      BY <2>2, <2>3
    <3>2. at = [done |-> at.done, ids |-> at.ids, width |-> at.width, opens |-> at.opens, next |-> at.next]
      BY <1>1 DEF UnderWay
    <3>3. PutGroup(cur, g) = [at EXCEPT !.ids = s, !.width = w]
      BY <2>1, <2>2, <3>1, Zenon
    <3>4. PICK a1, a2, a3, a4, a5 : a1 = at.done /\ a2 = at.ids /\ a3 = at.width /\ a4 = at.opens /\ a5 = at.next
      OBVIOUS
    <3>5. PutGroup(cur, g) = [[done |-> a1, ids |-> a2, width |-> a3, opens |-> a4, next |-> a5] EXCEPT !.ids = s, !.width = w]
      BY <3>2, <3>3, <3>4, Zenon
    <3>6. PutGroup(cur, g) = [done |-> a1, ids |-> s, width |-> w, opens |-> a4, next |-> a5]
      BY <3>5
    <3>. QED
      BY <3>4, <3>6, Zenon DEF Way
  <2>6. PutGroup(cur, g) \in UnderWay
    BY <2>3, <2>4, <2>5, WayIs
  <2>. QED
    BY <1>1, <1>4, <2>2, <2>5, <2>6, Zenon
<1>. QED
  BY <1>3, <1>4

\* Positions next to one another in a sequence.
LEMMA MoreByTwo ==
  ASSUME NEW gs \in Seq(Seq(Nat)), NEW n \in 0..(Len(gs) - 1)
  PROVE  /\ n + 2 = (n + 1) + 1 /\ (n + 2) - 1 = n + 1 /\ n + 2 \in 1..(n + 2)
         /\ (n + 1) - 1 = n /\ n + 1 \in 1..(n + 1) /\ n + 1 \in 1..Len(gs)
OBVIOUS

\* Each group is one of the groups.
LEMMA GroupsOf ==
  ASSUME NEW gs \in Seq(Seq(Nat))
  PROVE  \A k \in 1..Len(gs) : gs[k] \in Seq(Nat) /\ gs[k] \in Range(gs)
BY DEF Range

\* A step of the loop of chunkDigest: after the next group the cut so far is
\* as it should be.
LEMMA GroupIsPut ==
  ASSUME NEW gs \in Seq(Seq(Nat)), NEW n \in 0..(Len(gs) - 1), NEW p \in 1..(n + 1),
         NEW cur, Chunking(gs, n, p, cur),
         \A i \in 1..Len(gs[n + 1]) : LineWidth(gs[n + 1][i]) \in Nat \ {0}
  PROVE  \E q \in 1..(n + 2) : Chunking(gs, n + 1, q, PutGroup(cur, gs[n + 1]))
<1>1. PICK g : g = gs[n + 1]
  OBVIOUS
<1>2. g \in Seq(Nat) /\ \A i \in 1..Len(g) : LineWidth(g[i]) \in Nat \ {0}
  <2>1. g \in Seq(Nat)
    BY <1>1, GroupMore
  <2>. QED
    BY <1>1, <2>1, Zenon
<1>3. Rendered(g) \in Nat \ {0}
  <2>1. Len(g) \in Nat /\ \A i \in 1..Len(g) : LineWidth(g[i]) \in Nat
    BY <1>2
  <2>. QED
    BY <2>1, RenderedIs
<1>4. PICK cut : cut = SplitOversizedGroup(g)
  OBVIOUS
<1>5. cut \in Seq(Message) /\ RowsIn(cut) = g /\ \A i \in 1..Len(cut) : Piece(g, cut[i])
  BY <1>2, <1>4, GroupIsSplit
<1>6. PICK at : at = GroupAt(cur, g)
  OBVIOUS
<1>7. cur \in UnderWay /\ cur.width \in Nat /\ cur.width <= Budget /\ Budget \in Nat
  <2>1. cur \in UnderWay /\ cur.width <= Budget
    BY Zenon DEF Chunking
  <2>. QED
    BY <2>1, Parts, Widths
<1>8. PICK flushed : flushed = Flush(cur, "whole")
  OBVIOUS
<1>9. n \in 0..Len(gs)
  OBVIOUS
<1>10. Chunking(gs, n, n + 1, flushed)
  BY <1>8, <1>9, ChunkIsFlushed
<1>11. PICK new : new = PutGroup(cur, g)
  OBVIOUS
<1>12. /\ at \in UnderWay
       /\ Rendered(g) > Budget =>
              new = Way(flushed.done \o cut, <<>>, 0, "heading", "heading")
       /\ ~(Rendered(g) > Budget) =>
              new = Way(at.done, at.ids \o g,
                        at.width + (Rendered(g) + IF at.width > 0 THEN 1 ELSE 0), at.opens, at.next)
       /\ new \in UnderWay
  <2>1. Rendered(g) \in Nat /\ SplitOversizedGroup(g) \in Seq(Message)
    BY <1>3, <1>4, <1>5
  <2>. QED
    BY <1>2, <1>4, <1>6, <1>7, <1>8, <1>11, <2>1, PutGroupIs
<1>13. n + 2 = (n + 1) + 1 /\ (n + 2) - 1 = n + 1 /\ n + 2 \in 1..(n + 2) /\ (n + 1) - 1 = n
       /\ n + 1 \in 1..(n + 1) /\ n + 1 \in 1..Len(gs)
  BY MoreByTwo
<1>14. CASE Rendered(g) > Budget
  <2>1. PICK d : d = flushed.done \o cut
    OBVIOUS
  <2>2. /\ flushed.done \in Seq(Message) /\ RowsIn(flushed.done) = Flat(gs, 1, n)
        /\ \A i \in 1..Len(flushed.done) : Fair(gs, flushed.done[i])
        /\ \A j \in 1..n : Rendered(gs[j]) <= Budget => Held(gs[j], flushed.done)
    <3>1. /\ flushed \in UnderWay /\ RowsIn(flushed.done) = Flat(gs, 1, (n + 1) - 1)
          /\ \A i \in 1..Len(flushed.done) : Fair(gs, flushed.done[i])
          /\ \A j \in 1..((n + 1) - 1) : Rendered(gs[j]) <= Budget => Held(gs[j], flushed.done)
      BY <1>10, Zenon DEF Chunking
    <3>2. flushed.done \in Seq(Message)
      BY <3>1, Parts, Zenon
    <3>. QED
      BY <1>13, <3>1, <3>2, Zenon
  <2>3. \A i \in 1..Len(cut) : Fair(gs, cut[i])
    <3>1. ASSUME NEW i \in 1..Len(cut) PROVE Fair(gs, cut[i])
      <4>1. Piece(g, cut[i])
        BY <1>5, Zenon
      <4>2. cut[i] \in Message
        BY <4>1, Zenon DEF Piece
      <4>3. PartOfAGroup(gs, cut[i])
        BY <1>1, <1>13, <1>14, <4>1, Zenon DEF PartOfAGroup
      <4>. QED
        BY <4>2, <4>3, Zenon DEF Fair
    <3>. QED
      BY <3>1
  <2>4. d \in Seq(Message) /\ \A i \in 1..Len(d) : Fair(gs, d[i])
    <3>1. flushed.done \o cut \in Seq(Message)
             /\ \A i \in 1..Len(flushed.done \o cut) : Fair(gs, (flushed.done \o cut)[i])
      BY <1>5, <2>2, <2>3, MessagesMore
    <3>. QED
      BY <2>1, <3>1, Zenon
  <2>5. RowsIn(d) = Flat(gs, 1, n + 1)
    <3>1. RowsIn(d) = RowsIn(flushed.done) \o RowsIn(cut)
      BY <1>5, <2>1, <2>2, RowsOfConcat
    <3>2. 1 \in 1..(n + 1)
      OBVIOUS
    <3>3. Flat(gs, 1, n) \o gs[n + 1] = Flat(gs, 1, n + 1)
      BY <3>2, GroupMore
    <3>. QED
      BY <1>1, <1>5, <2>2, <3>1, <3>3, Zenon
  <2>6. ASSUME NEW j \in 1..(n + 1), Rendered(gs[j]) <= Budget PROVE Held(gs[j], d)
    <3>1. j # n + 1
      <4>1. Rendered(gs[n + 1]) \in Nat /\ Rendered(gs[n + 1]) > Budget
        BY <1>1, <1>3, <1>14
      <4>2. j = n + 1 => Rendered(gs[n + 1]) <= Budget
        BY <2>6, Zenon
      <4>. QED
        BY <1>7, <4>1, <4>2
    <3>2. j \in 1..n
      BY <3>1
    <3>3. Held(gs[j], flushed.done)
      BY <2>2, <2>6, <3>2, Zenon
    <3>. QED
      BY <1>5, <2>1, <2>2, <3>3, MessagesMore
  <2>7. /\ new.done = d /\ new.ids = <<>> /\ new.width = 0 /\ new.opens = "heading"
    <3>1. new = Way(d, <<>>, 0, "heading", "heading")
      BY <1>12, <1>14, <2>1, Zenon
    <3>. QED
      BY <2>4, <3>1, AtNone
  <2>8. Flat(gs, n + 2, n + 1) = <<>>
    <3>1. n + 1 \in 0..Len(gs) /\ n + 2 \in 1..((n + 1) + 1)
      OBVIOUS
    <3>2. Flat(gs, (n + 1) + 1, n + 1) = <<>>
      BY <3>1, GroupCut
    <3>. QED
      BY <1>13, <3>2, Zenon
  <2>9. Chunking(gs, n + 1, n + 2, new)
    <3>1. new.width <= Budget
      BY <1>7, <2>7
    <3>2. \A j \in 1..((n + 2) - 1) : Rendered(gs[j]) <= Budget => Held(gs[j], new.done)
      BY <1>13, <2>6, <2>7, Zenon
    <3>. QED
      BY <1>12, <1>13, <2>4, <2>5, <2>7, <2>8, <3>1, <3>2, Zenon DEF Chunking
  <2>. QED
    BY <1>1, <1>11, <1>13, <2>9, Zenon
<1>15. CASE ~(Rendered(g) > Budget)
  <2>1. PICK q \in 1..(n + 1) : Chunking(gs, n, q, at)
    <3>1. CASE cur.width > 0 /\ cur.width + 1 + Rendered(g) > Budget
      <4>1. at = flushed
        BY <1>6, <1>8, <3>1, Zenon DEF GroupAt
      <4>. QED
        BY <1>10, <1>13, <4>1, Zenon
    <3>2. CASE ~(cur.width > 0 /\ cur.width + 1 + Rendered(g) > Budget)
      <4>1. at = cur
        BY <1>6, <3>2, Zenon DEF GroupAt
      <4>. QED
        BY <4>1, Zenon
    <3>. QED
      BY <3>1, <3>2
  <2>2. at.width > 0 => at.width + 1 + Rendered(g) <= Budget
    <3>1. CASE cur.width > 0 /\ cur.width + 1 + Rendered(g) > Budget
      <4>1. at = flushed
        BY <1>6, <1>8, <3>1, Zenon DEF GroupAt
      <4>2. flushed.width = 0
        BY <1>10, Zenon DEF Chunking
      <4>. QED
        BY <4>1, <4>2
    <3>2. CASE ~(cur.width > 0 /\ cur.width + 1 + Rendered(g) > Budget)
      <4>1. at = cur
        BY <1>6, <3>2, Zenon DEF GroupAt
      <4>. QED
        BY <1>3, <1>7, <3>2, <4>1
    <3>. QED
      BY <3>1, <3>2
  <2>3. /\ at.done \in Seq(Message) /\ at.ids \in Seq(Nat) /\ at.width \in Nat
        /\ at.opens \in Mark /\ at.next \in Mark
    BY <1>12, Parts, Zenon
  <2>4. /\ at.width <= Budget /\ at.opens = "heading"
        /\ \A i \in 1..Len(at.done) : Fair(gs, at.done[i])
        /\ RowsIn(at.done) = Flat(gs, 1, q - 1) /\ at.ids = Flat(gs, q, n)
        /\ \A j \in 1..(q - 1) : Rendered(gs[j]) <= Budget => Held(gs[j], at.done)
    BY <2>1, Zenon DEF Chunking
  <2>5. PICK s, w : s = at.ids \o g /\ w = at.width + (Rendered(g) + IF at.width > 0 THEN 1 ELSE 0)
    OBVIOUS
  <2>6. w \in Nat /\ w <= Budget /\ w # 0
    <3>1. PICK k, l : k = at.width /\ l = Rendered(g)
      OBVIOUS
    <3>2. k \in Nat /\ l \in Nat \ {0} /\ ~(l > Budget) /\ (k > 0 => k + 1 + l <= Budget)
          /\ w = k + (l + IF k > 0 THEN 1 ELSE 0)
      BY <1>3, <1>15, <2>2, <2>3, <2>5, <3>1, Zenon
    <3>. QED
      BY <1>7, <3>2
  <2>7. s \in Seq(Nat)
    BY <1>2, <2>3, <2>5, ConcatProperties
  <2>8. new.done = at.done /\ new.ids = s /\ new.width = w /\ new.opens = at.opens
    <3>1. new = Way(at.done, s, w, at.opens, at.next)
      BY <1>12, <1>15, <2>5, Zenon
    <3>. QED
      BY <2>3, <2>6, <2>7, <3>1, WayIs
  <2>9. s = Flat(gs, q, n + 1)
    <3>1. Flat(gs, q, n) \o gs[n + 1] = Flat(gs, q, n + 1)
      BY GroupMore
    <3>. QED
      BY <1>1, <2>4, <2>5, <3>1, Zenon
  <2>10. q # (n + 1) + 1 /\ q \in 1..(n + 2)
    OBVIOUS
  <2>11. Chunking(gs, n + 1, q, new)
    BY <1>12, <2>4, <2>6, <2>8, <2>9, <2>10, Zenon DEF Chunking
  <2>. QED
    BY <1>1, <1>11, <2>10, <2>11, Zenon
<1>. QED
  BY <1>14, <1>15

\* The messages of a digest.
MessagesOf(gs) == Flush(GroupsPut(gs)[Len(gs)], "whole").done

\* What chunkDigest makes of groups: their rows in their order, each once; and
\* messages that are fair to the groups, with every group that fits a message
\* in one.
LEMMA DigestIsCut ==
  ASSUME NEW gs \in Seq(Seq(Nat)),
         \A k \in 1..Len(gs) : \A i \in 1..Len(gs[k]) : LineWidth(gs[k][i]) \in Nat \ {0}
  PROVE  /\ MessagesOf(gs) \in Seq(Message)
         /\ RowsIn(MessagesOf(gs)) = FlattenSeq(gs)
         /\ \A i \in 1..Len(MessagesOf(gs)) : Fair(gs, MessagesOf(gs)[i])
         /\ \A k \in 1..Len(gs) : Rendered(gs[k]) <= Budget => Held(gs[k], MessagesOf(gs))
<1>1. PICK n \in Nat : n = Len(gs)
  OBVIOUS
<1>2. \A k \in 1..n : gs[k] \in Seq(Nat) /\ \A i \in 1..Len(gs[k]) : LineWidth(gs[k][i]) \in Nat \ {0}
  <2>1. \A k \in 1..n : gs[k] \in Seq(Nat)
    BY <1>1
  <2>. QED
    BY <1>1, <2>1, Zenon
<1>3. PICK none : none = Fresh(<<>>)
  OBVIOUS
<1>4. /\ none \in UnderWay /\ none.done = <<>> /\ none.ids = <<>> /\ none.width = 0
      /\ none.opens = "heading"
  <2>1. Fresh(<<>>) = Way(<<>>, <<>>, 0, "heading", "heading") /\ <<>> \in Seq(Message)
    BY FreshIs
  <2>. QED
    BY <1>3, <2>1, AtNone
<1>5. \A c \in UnderWay, k \in 1..n : PutGroup(c, gs[k]) \in UnderWay
  <2>1. ASSUME NEW c \in UnderWay, NEW k \in 1..n PROVE PutGroup(c, gs[k]) \in UnderWay
    <3>1. PICK g : g = gs[k]
      OBVIOUS
    <3>2. g \in Seq(Nat) /\ \A i \in 1..Len(g) : LineWidth(g[i]) \in Nat \ {0}
      BY <1>2, <3>1, Zenon
    <3>3. Len(g) \in Nat /\ \A i \in 1..Len(g) : LineWidth(g[i]) \in Nat
      BY <3>2
    <3>4. Rendered(g) \in Nat
      BY <3>3, RenderedIs
    <3>5. SplitOversizedGroup(g) \in Seq(Message)
      BY <3>2, GroupIsSplit
    <3>6. PutGroup(c, g) \in UnderWay
      BY <3>2, <3>4, <3>5, PutGroupIs
    <3>. QED
      BY <3>1, <3>6
  <2>. QED
    BY <2>1
<1>6. PICK f : f = GroupsPut(gs)
  OBVIOUS
<1>7. /\ f \in [0..n -> UnderWay] /\ f[0] = none
      /\ \A i \in 1..n : f[i] = PutGroup(f[i - 1], gs[i])
  <2>1. PICK U : U = UnderWay
    OBVIOUS
  <2>2. Len(gs) \in Nat /\ Fresh(<<>>) \in U /\ \A c \in U, i \in 1..Len(gs) : PutGroup(c, gs[i]) \in U
    BY <1>1, <1>3, <1>4, <1>5, <2>1, Zenon
  <2>3. /\ GroupsPut(gs) \in [0..Len(gs) -> U]
        /\ GroupsPut(gs)[0] = Fresh(<<>>)
        /\ \A i \in 1..Len(gs) : GroupsPut(gs)[i] = PutGroup(GroupsPut(gs)[i - 1], gs[i])
    BY <2>2, GroupsPutIs
  <2>. QED
    BY <1>1, <1>3, <1>6, <2>1, <2>3, Zenon
<1>8. PICK S : S = {k \in 0..n : \E p \in 1..(k + 1) : Chunking(gs, k, p, f[k])}
  OBVIOUS
<1>9. 0 \in S
  <2>1. Flat(gs, 1, 1 - 1) = <<>> /\ Flat(gs, 1, 0) = <<>>
    <3>1. SubSeq(gs, 1, 1 - 1) = <<>> /\ SubSeq(gs, 1, 0) = <<>>
      BY SubSeqEmpty
    <3>. QED
      BY <3>1, FlattenEmpty, Zenon DEF Flat
  <2>2. RowsIn(<<>>) = <<>> /\ Len(<<>>) = 0 /\ 1..0 = {} /\ 1 = 0 + 1 /\ 1 \in 1..(0 + 1) /\ 1..(1 - 1) = {}
    BY RowsOfNone
  <2>3. Chunking(gs, 0, 1, f[0])
    <3>1. none.width <= Budget
      BY <1>4, Widths
    <3>2. \A i \in 1..Len(none.done) : Fair(gs, none.done[i])
      BY <1>4, <2>2
    <3>3. \A j \in 1..(1 - 1) : Rendered(gs[j]) <= Budget => Held(gs[j], none.done)
      BY <2>2
    <3>4. Chunking(gs, 0, 1, none)
      BY <1>4, <2>1, <2>2, <3>1, <3>2, <3>3, Zenon DEF Chunking
    <3>. QED
      BY <1>7, <3>4, Zenon
  <2>4. 0 \in 0..n
    OBVIOUS
  <2>5. \E p \in 1..(0 + 1) : Chunking(gs, 0, p, f[0])
    BY <2>2, <2>3, Zenon
  <2>. QED
    BY <1>8, <2>4, <2>5
<1>10. ASSUME NEW k \in 0..(n - 1), k \in S PROVE k + 1 \in S
  <2>1. k + 1 \in 0..n /\ k + 1 \in 1..n /\ (k + 1) - 1 = k /\ k \in 0..(Len(gs) - 1) /\ (k + 1) + 1 = k + 2
    BY <1>1
  <2>2. PICK p \in 1..(k + 1) : Chunking(gs, k, p, f[k])
    BY <1>8, <1>10, Zenon
  <2>3. \A i \in 1..Len(gs[k + 1]) : LineWidth(gs[k + 1][i]) \in Nat \ {0}
    BY <1>2, <2>1, Zenon
  <2>4. \E q \in 1..(k + 2) : Chunking(gs, k + 1, q, PutGroup(f[k], gs[k + 1]))
    BY <2>1, <2>2, <2>3, GroupIsPut
  <2>5. f[k + 1] = PutGroup(f[k], gs[k + 1])
    <3>1. f[k + 1] = PutGroup(f[(k + 1) - 1], gs[k + 1])
      BY <1>7, <2>1, Zenon
    <3>. QED
      BY <2>1, <3>1, Zenon
  <2>6. \E q \in 1..((k + 1) + 1) : Chunking(gs, k + 1, q, f[k + 1])
    BY <2>1, <2>4, <2>5, Zenon
  <2>. QED
    BY <1>8, <2>1, <2>6, Zenon
<1>11. \A k \in 0..(n - 1) : k \in S => k + 1 \in S
  BY <1>10
<1>12. n \in S
  <2>1. \A k \in 0..n : k \in S
    BY <1>9, <1>11, UpTo
  <2>. QED
    BY <2>1
<1>13. PICK p \in 1..(n + 1) : Chunking(gs, n, p, f[n])
  BY <1>8, <1>12, Zenon
<1>14. PICK last : last = Flush(f[n], "whole")
  OBVIOUS
<1>15. Chunking(gs, n, n + 1, last)
  <2>1. n \in 0..Len(gs)
    BY <1>1
  <2>. QED
    BY <1>13, <1>14, <2>1, ChunkIsFlushed
<1>16. (n + 1) - 1 = n
  OBVIOUS
<1>17. /\ last \in UnderWay /\ \A i \in 1..Len(last.done) : Fair(gs, last.done[i])
       /\ RowsIn(last.done) = Flat(gs, 1, n)
       /\ \A j \in 1..n : Rendered(gs[j]) <= Budget => Held(gs[j], last.done)
  <2>1. /\ last \in UnderWay /\ \A i \in 1..Len(last.done) : Fair(gs, last.done[i])
        /\ RowsIn(last.done) = Flat(gs, 1, (n + 1) - 1)
        /\ \A j \in 1..((n + 1) - 1) : Rendered(gs[j]) <= Budget => Held(gs[j], last.done)
    BY <1>15, Zenon DEF Chunking
  <2>. QED
    BY <1>16, <2>1, Zenon
<1>18. last.done \in Seq(Message)
  BY <1>17, Parts, Zenon
<1>19. Flat(gs, 1, n) = FlattenSeq(gs)
  <2>1. SubSeq(gs, 1, n) = gs
    BY <1>1, SubSeqFull
  <2>. QED
    BY <2>1, Zenon DEF Flat
<1>20. MessagesOf(gs) = last.done
  BY <1>1, <1>6, <1>14, Zenon DEF MessagesOf
<1>. QED
  BY <1>1, <1>17, <1>18, <1>19, <1>20, Zenon

-----------------------------------------------------------------------------
(* Each pending row is in one group, and there once (buildDigestGroups).     *)

\* A list that has no row twice is as long as it has rows.
LEMMA RowsOnce ==
  ASSUME NEW g \in Seq(Nat), IsInjective(g)
  PROVE  IsFiniteSet(Range(g)) /\ Cardinality(Range(g)) = Len(g)
<1>1. PICK n, f : n = Len(g) /\ f = g
  OBVIOUS
<1>2. n \in Nat /\ f \in [1..n -> Nat] /\ \A i, j \in 1..n : f[i] = f[j] => i = j
  <2>1. n \in Nat /\ f \in [1..n -> Nat] /\ DOMAIN f = 1..n
    BY <1>1
  <2>. QED
    BY <1>1, <2>1 DEF IsInjective
<1>. HIDE <1>1
<1>3. PICK R : R = Range(f)
  OBVIOUS
<1>4. f \in Surjection(1..n, R)
  BY <1>2, <1>3, Fun_RangeProperties
<1>5. f \in Injection(1..n, R)
  <2>1. f \in [1..n -> R]
    BY <1>4, Fun_SurjectionProperties
  <2>. QED
    BY <1>2, <2>1, Fun_IsInj
<1>6. IsFiniteSet(1..n) /\ Cardinality(1..n) = n
  BY <1>2, FS_Interval
<1>7. IsFiniteSet(R) /\ Cardinality(R) = n
  BY <1>4, <1>5, <1>6, FS_Surjection
<1>. QED
  BY <1>1, <1>3, <1>7, Zenon

\* Groups that have no row twice, in one or in two of them, have together as
\* many rows as are in them.
LEMMA RowsCounted ==
  ASSUME NEW gs \in Seq(Seq(Nat)), \A k \in 1..Len(gs) : IsInjective(gs[k]),
         \A k, l \in 1..Len(gs) : Range(gs[k]) \intersect Range(gs[l]) # {} => k = l
  PROVE  Len(FlattenSeq(gs)) = Cardinality(UNION {Range(gs[k]) : k \in 1..Len(gs)})
<1>1. PICK n \in Nat : n = Len(gs)
  OBVIOUS
<1>. DEFINE Rows(m) == UNION {Range(gs[k]) : k \in 1..m}
<1>2. PICK S : S = {m \in 0..n : IsFiniteSet(Rows(m)) /\ Cardinality(Rows(m)) = Len(Flat(gs, 1, m))}
  OBVIOUS
<1>3. 0 \in S
  <2>1. Rows(0) = {}
    OBVIOUS
  <2>2. Flat(gs, 1, 0) = <<>>
    <3>1. SubSeq(gs, 1, 0) = <<>>
      BY SubSeqEmpty
    <3>. QED
      BY <3>1, FlattenEmpty, Zenon DEF Flat
  <2>3. Len(<<>>) = 0 /\ 0 \in 0..n
    OBVIOUS
  <2>4. IsFiniteSet(Rows(0)) /\ Cardinality(Rows(0)) = Len(Flat(gs, 1, 0))
    BY <2>1, <2>2, <2>3, FS_EmptySet, Zenon
  <2>. QED
    BY <1>2, <2>3, <2>4
<1>4. ASSUME NEW m \in 0..(n - 1), m \in S PROVE m + 1 \in S
  <2>1. m \in 0..(Len(gs) - 1) /\ m \in 0..Len(gs) /\ 1 \in 1..(m + 1) /\ m + 1 \in 1..Len(gs) /\ m + 1 \in 0..n
    BY <1>1
  <2>2. PICK g, old, all : g = gs[m + 1] /\ old = Rows(m) /\ all = Rows(m + 1)
    OBVIOUS
  <2>3. g \in Seq(Nat) /\ IsInjective(g) /\ Flat(gs, 1, m) \o g = Flat(gs, 1, m + 1)
    BY <2>1, <2>2, GroupMore, Zenon
  <2>4. Flat(gs, 1, m) \in Seq(Nat)
    BY <2>1, GroupCut
  <2>5. IsFiniteSet(old) /\ Cardinality(old) = Len(Flat(gs, 1, m))
    BY <1>2, <1>4, <2>2, Zenon
  <2>6. PICK R : R = Range(g)
    OBVIOUS
  <2>7. IsFiniteSet(R) /\ Cardinality(R) = Len(g)
    BY <2>3, <2>6, RowsOnce
  <2>8. all = old \union R
    <3>1. \A k : k \in 1..(m + 1) <=> k \in 1..m \/ k = m + 1
      OBVIOUS
    <3>. QED
      BY <2>2, <2>6, <3>1, Zenon
  <2>9. old \intersect R = {}
    <3>1. ASSUME NEW e \in old, e \in R PROVE FALSE
      <4>1. PICK k \in 1..m : e \in Range(gs[k])
        BY <2>2
      <4>2. k \in 1..Len(gs) /\ k # m + 1
        BY <2>1
      <4>3. Range(gs[k]) \intersect Range(gs[m + 1]) # {}
        BY <2>2, <2>6, <3>1, <4>1, Zenon
      <4>. QED
        BY <2>1, <4>2, <4>3, Zenon
    <3>. QED
      BY <3>1
  <2>10. IsFiniteSet(all) /\ Cardinality(all) = Cardinality(old) + Cardinality(R) - Cardinality(old \intersect R)
    BY <2>5, <2>7, <2>8, FS_Union
  <2>11. Cardinality(old \intersect R) = 0
    BY <2>9, FS_EmptySet, Zenon
  <2>12. Len(Flat(gs, 1, m + 1)) = Len(Flat(gs, 1, m)) + Len(g)
    <3>1. PICK s : s = Flat(gs, 1, m)
      OBVIOUS
    <3>2. s \in Seq(Nat)
      BY <2>4, <3>1
    <3>3. Len(s \o g) = Len(s) + Len(g)
      BY <2>3, <3>2, ConcatProperties
    <3>. QED
      BY <2>3, <3>1, <3>3, Zenon
  <2>13. Len(g) \in Nat /\ Len(Flat(gs, 1, m)) \in Nat
    <3>1. Len(g) \in Nat
      BY <2>3
    <3>2. Len(Flat(gs, 1, m)) \in Nat
      BY <2>4, LenProperties
    <3>. QED
      BY <3>1, <3>2
  <2>14. Cardinality(all) = Len(Flat(gs, 1, m + 1))
    <3>1. PICK c, d, e, f : c = Cardinality(old) /\ d = Cardinality(R) /\ e = Cardinality(old \intersect R) /\ f = Cardinality(all)
      OBVIOUS
    <3>2. PICK k, l, j : k = Len(Flat(gs, 1, m)) /\ l = Len(g) /\ j = Len(Flat(gs, 1, m + 1))
      OBVIOUS
    <3>3. k \in Nat /\ l \in Nat /\ c = k /\ d = l /\ e = 0 /\ f = c + d - e /\ j = k + l
      BY <2>5, <2>7, <2>10, <2>11, <2>12, <2>13, <3>1, <3>2, Zenon
    <3>4. f = j
      BY <3>3
    <3>. QED
      BY <3>1, <3>2, <3>4
  <2>. QED
    BY <1>2, <2>1, <2>2, <2>10, <2>14, Zenon
<1>5. \A m \in 0..(n - 1) : m \in S => m + 1 \in S
  BY <1>4
<1>6. n \in S
  <2>1. \A m \in 0..n : m \in S
    BY <1>3, <1>5, UpTo
  <2>. QED
    BY <2>1
<1>7. Cardinality(Rows(n)) = Len(Flat(gs, 1, n))
  BY <1>2, <1>6, Zenon
<1>8. Flat(gs, 1, n) = FlattenSeq(gs)
  <2>1. SubSeq(gs, 1, n) = gs
    BY <1>1, SubSeqFull
  <2>. QED
    BY <2>1, Zenon DEF Flat
<1>. QED
  BY <1>1, <1>7, <1>8, Zenon

-----------------------------------------------------------------------------

\* The events that are pending are rows of the table.
Events ==
  /\ pending \in [DOMAIN pending -> [type : Range(Headings), width : Width]]
  /\ DOMAIN pending \subseteq Row /\ IsFiniteSet(DOMAIN pending)

\* The ids of a type are the pending rows of that type, each once.
LEMMA IdsOfAType ==
  ASSUME Events, NEW type
  PROVE  /\ IdsOf(type) \in Seq(Nat) /\ IsInjective(IdsOf(type))
         /\ \A i \in 1..Len(IdsOf(type)) :
              IdsOf(type)[i] \in DOMAIN pending /\ pending[IdsOf(type)[i]].type = type
         /\ \A id \in DOMAIN pending : pending[id].type = type =>
              \E i \in 1..Len(IdsOf(type)) : IdsOf(type)[i] = id
<1>1. PICK S : S = {id \in DOMAIN pending : pending[id].type = type}
  OBVIOUS
<1>2. S \in SUBSET DOMAIN pending /\ S \in SUBSET Nat
  BY <1>1, ChunksAssumption DEF Events
<1>3. IsFiniteSet(S)
  BY <1>2, FS_Subset DEF Events
<1>4. PICK f, n : f = InOrder(S) /\ n = Cardinality(S)
  OBVIOUS
<1>5. n \in Nat /\ f \in [1..n -> S] /\ IsInjective(f) /\ \A e \in S : \E k \in 1..n : f[k] = e
  BY <1>2, <1>3, <1>4, InOrderIs
<1>6. f = IdsOf(type)
  BY <1>1, <1>4, Zenon DEF IdsOf
<1>7. f \in Seq(Nat) /\ Len(f) = n
  <2>1. f \in [1..n -> Nat]
    BY <1>2, <1>5
  <2>. QED
    BY <1>5, <2>1
<1>8. \A i \in 1..n : f[i] \in DOMAIN pending /\ pending[f[i]].type = type
  BY <1>1, <1>5
<1>9. \A id \in DOMAIN pending : pending[id].type = type => \E i \in 1..n : f[i] = id
  BY <1>1, <1>5
<1>. QED
  BY <1>5, <1>6, <1>7, <1>8, <1>9, Zenon

\* The groups are the pending rows, each in one group and there once, and no
\* group is empty (buildDigestGroups).
LEMMA GroupsAre ==
  ASSUME Events, NEW gs, gs = Groups
  PROVE  /\ gs \in Seq(Seq(Nat))
         /\ \A k \in 1..Len(gs) : /\ gs[k] # <<>> /\ IsInjective(gs[k])
                                  /\ \A i \in 1..Len(gs[k]) : gs[k][i] \in DOMAIN pending
         /\ \A k, l \in 1..Len(gs) : \A i \in 1..Len(gs[k]), j \in 1..Len(gs[l]) :
              gs[k][i] = gs[l][j] => k = l
         /\ \A id \in DOMAIN pending : \E k \in 1..Len(gs) : \E i \in 1..Len(gs[k]) : gs[k][i] = id
<1>1. PICK S : S = {h \in DOMAIN Headings : IdsOf(Headings[h]) # <<>>}
  OBVIOUS
<1>2. DOMAIN Headings = 1..Len(Headings) /\ Len(Headings) \in Nat
  BY ChunksAssumption
<1>3. S \in SUBSET Nat /\ IsFiniteSet(S)
  <2>1. S \in SUBSET (1..Len(Headings))
    BY <1>1, <1>2
  <2>2. IsFiniteSet(1..Len(Headings))
    BY <1>2, FS_Interval
  <2>. QED
    <3>1. IsFiniteSet(S)
      BY <2>1, <2>2, FS_Subset
    <3>2. S \in SUBSET Nat
      BY <1>2, <2>1
    <3>. QED
      BY <3>1, <3>2
<1>4. PICK filled, n : filled = InOrder(S) /\ n = Cardinality(S)
  OBVIOUS
<1>5. /\ n \in Nat /\ filled \in [1..n -> S] /\ IsInjective(filled)
      /\ \A e \in S : \E k \in 1..n : filled[k] = e
  BY <1>3, <1>4, InOrderIs
<1>6. gs = [k \in 1..n |-> IdsOf(Headings[filled[k]])]
  <2>1. Groups = [k \in DOMAIN filled |-> IdsOf(Headings[filled[k]])]
    BY <1>1, <1>4, Zenon DEF Groups
  <2>2. DOMAIN filled = 1..n
    BY <1>5
  <2>. QED
    BY <2>1, <2>2, Zenon
<1>7. \A k \in 1..n : gs[k] = IdsOf(Headings[filled[k]]) /\ filled[k] \in S
  BY <1>5, <1>6
<1>8. \A k \in 1..n :
        /\ gs[k] \in Seq(Nat) /\ IsInjective(gs[k])
        /\ \A i \in 1..Len(gs[k]) :
             gs[k][i] \in DOMAIN pending /\ pending[gs[k][i]].type = Headings[filled[k]]
  <2>1. ASSUME NEW k \in 1..n
        PROVE  /\ gs[k] \in Seq(Nat) /\ IsInjective(gs[k])
               /\ \A i \in 1..Len(gs[k]) :
                    gs[k][i] \in DOMAIN pending /\ pending[gs[k][i]].type = Headings[filled[k]]
    <3>1. PICK type, g : type = Headings[filled[k]] /\ g = gs[k]
      OBVIOUS
    <3>2. g = IdsOf(type)
      BY <1>7, <3>1, Zenon
    <3>3. /\ IdsOf(type) \in Seq(Nat) /\ IsInjective(IdsOf(type))
          /\ \A i \in 1..Len(IdsOf(type)) :
               IdsOf(type)[i] \in DOMAIN pending /\ pending[IdsOf(type)[i]].type = type
      BY IdsOfAType
    <3>. QED
      BY <3>1, <3>2, <3>3, Zenon
  <2>. QED
    BY <2>1
<1>9. gs \in Seq(Seq(Nat)) /\ Len(gs) = n
  <2>1. PICK T : T = Seq(Nat)
    OBVIOUS
  <2>2. \A k \in 1..n : gs[k] \in T
    BY <1>8, <2>1, Zenon
  <2>3. gs \in [1..n -> T]
    BY <1>6, <1>7, <2>2
  <2>4. gs \in Seq(T) /\ Len(gs) = n
    BY <1>5, <2>3
  <2>. QED
    BY <2>1, <2>4
<1>10. \A k \in 1..n : gs[k] # <<>>
  BY <1>1, <1>7
<1>11. ASSUME NEW k \in 1..n, NEW l \in 1..n, NEW i \in 1..Len(gs[k]), NEW j \in 1..Len(gs[l]),
              gs[k][i] = gs[l][j]
       PROVE  k = l
  <2>1. Headings[filled[k]] = Headings[filled[l]]
    BY <1>8, <1>11, Zenon
  <2>2. filled[k] \in DOMAIN Headings /\ filled[l] \in DOMAIN Headings
    BY <1>1, <1>7
  <2>3. filled[k] = filled[l]
    BY <2>1, <2>2, ChunksAssumption, Zenon DEF IsInjective
  <2>4. DOMAIN filled = 1..n
    BY <1>5
  <2>. QED
    BY <1>5, <2>3, <2>4, Zenon DEF IsInjective
<1>12. ASSUME NEW id \in DOMAIN pending
       PROVE  \E k \in 1..n : \E i \in 1..Len(gs[k]) : gs[k][i] = id
  <2>1. pending[id].type \in Range(Headings)
    BY DEF Events
  <2>2. PICK h \in DOMAIN Headings : Headings[h] = pending[id].type
    BY <2>1 DEF Range
  <2>3. PICK i \in 1..Len(IdsOf(Headings[h])) : IdsOf(Headings[h])[i] = id
    BY <2>2, IdsOfAType, Zenon
  <2>4. IdsOf(Headings[h]) # <<>>
    BY <2>3
  <2>5. h \in S
    BY <1>1, <2>4
  <2>6. PICK k \in 1..n : filled[k] = h
    BY <1>5, <2>5
  <2>7. gs[k] = IdsOf(Headings[h])
    BY <1>7, <2>6, Zenon
  <2>. QED
    BY <2>3, <2>7, Zenon
<1>13. \A k \in 1..n : /\ gs[k] # <<>> /\ IsInjective(gs[k])
                          /\ \A i \in 1..Len(gs[k]) : gs[k][i] \in DOMAIN pending
  BY <1>8, <1>10, Zenon
<1>14. \A k, l \in 1..n : \A i \in 1..Len(gs[k]), j \in 1..Len(gs[l]) : gs[k][i] = gs[l][j] => k = l
  BY <1>11
<1>15. \A id \in DOMAIN pending : \E k \in 1..n : \E i \in 1..Len(gs[k]) : gs[k][i] = id
  BY <1>12
<1>16. Len(gs) = n
  BY <1>9
<1>17. \A k \in 1..Len(gs) : /\ gs[k] # <<>> /\ IsInjective(gs[k])
                          /\ \A i \in 1..Len(gs[k]) : gs[k][i] \in DOMAIN pending
  BY <1>13, <1>16, Zenon
<1>18. \A k, l \in 1..Len(gs) : \A i \in 1..Len(gs[k]), j \in 1..Len(gs[l]) : gs[k][i] = gs[l][j] => k = l
  <2>1. ASSUME NEW k \in 1..Len(gs), NEW l \in 1..Len(gs),
               NEW i \in 1..Len(gs[k]), NEW j \in 1..Len(gs[l]), gs[k][i] = gs[l][j]
        PROVE  k = l
    <3>1. k \in 1..n /\ l \in 1..n
      BY <1>16
    <3>. QED
      BY <1>11, <2>1, <3>1
  <2>. QED
    BY <2>1
<1>19. \A id \in DOMAIN pending : \E k \in 1..Len(gs) : \E i \in 1..Len(gs[k]) : gs[k][i] = id
  BY <1>15, <1>16, Zenon
<1>. QED
  BY <1>9, <1>17, <1>18, <1>19

-----------------------------------------------------------------------------
(* Where a message starts and ends.                                          *)

\* Two lists put together start as the first does and end as the second does.
LEMMA EndsOfConcat ==
  ASSUME NEW s \in Seq(Nat), NEW t \in Seq(Nat)
  PROVE  /\ s # <<>> => Head(s \o t) = Head(s) /\ s \o t # <<>>
         /\ t # <<>> => Last(s \o t) = Last(t) /\ s \o t # <<>>
<1>1. PICK u : u = s \o t
  OBVIOUS
<1>2. /\ u \in Seq(Nat) /\ Len(u) = Len(s) + Len(t) /\ Len(s) \in Nat /\ Len(t) \in Nat
      /\ \A i \in 1..(Len(s) + Len(t)) : u[i] = IF i <= Len(s) THEN s[i] ELSE t[i - Len(s)]
  BY <1>1, ConcatProperties
<1>3. ASSUME s # <<>> PROVE Head(u) = Head(s) /\ u # <<>>
  <2>1. Len(s) >= 1
    BY <1>3
  <2>2. Len(u) >= 1 /\ u[1] = s[1]
    BY <1>2, <2>1
  <2>. QED
    BY <1>2, <1>3, <2>2
<1>4. ASSUME t # <<>> PROVE Last(u) = Last(t) /\ u # <<>>
  <2>1. Len(t) >= 1
    BY <1>4
  <2>2. PICK k, l : k = Len(s) /\ l = Len(t)
    OBVIOUS
  <2>3. k + l \in 1..(k + l) /\ ~(k + l <= k) /\ (k + l) - k = l /\ k \in Nat /\ l \in Nat
    BY <1>2, <2>1, <2>2
  <2>4. u[k + l] = IF k + l <= k THEN s[k + l] ELSE t[(k + l) - k]
    BY <1>2, <2>2, <2>3, Zenon
  <2>5. u[Len(u)] = t[Len(t)]
    BY <1>2, <2>2, <2>3, <2>4, Zenon
  <2>6. u # <<>>
    <3>1. Len(u) # 0
      BY <1>2, <2>1
    <3>. QED
      BY <3>1
  <2>. QED
    BY <2>5, <2>6 DEF Last
<1>. QED
  BY <1>1, <1>3, <1>4

\* Groups put together start with the first line of the first and end with
\* the last line of the last.
LEMMA EndsOfGroups ==
  ASSUME NEW gs \in Seq(Seq(Nat)), \A k \in 1..Len(gs) : gs[k] # <<>>,
         NEW p \in 1..Len(gs), NEW q \in 1..Len(gs), p <= q
  PROVE  /\ Flat(gs, p, q) # <<>>
         /\ Head(Flat(gs, p, q)) = Head(gs[p]) /\ Last(Flat(gs, p, q)) = Last(gs[q])
<1>1. PICK first, final : first = gs[p] /\ final = gs[q]
  OBVIOUS
<1>2. first \in Seq(Nat) /\ final \in Seq(Nat) /\ first # <<>> /\ final # <<>>
  BY <1>1
<1>3. PICK rest : rest = Flat(gs, p + 1, q)
  OBVIOUS
<1>4. rest \in Seq(Nat)
  <2>1. q \in 0..Len(gs) /\ p + 1 \in 1..(q + 1)
    OBVIOUS
  <2>. QED
    BY <1>3, <2>1, GroupCut
<1>5. PICK k : k = p - 1
  OBVIOUS
<1>6. k \in 0..(Len(gs) - 1) /\ k + 1 = p /\ p \in 1..(k + 1)
  BY <1>5
<1>7. Flat(gs, p, p) = first
  <2>1. Flat(gs, k + 1, k + 1) = gs[k + 1]
    BY <1>6, GroupMore
  <2>. QED
    BY <1>1, <1>6, <2>1, Zenon
<1>8. Flat(gs, p, q) = first \o rest
  <2>1. p \in 1..(Len(gs) + 1) /\ p \in (p - 1)..Len(gs) /\ q \in p..Len(gs)
    OBVIOUS
  <2>2. Flat(gs, p, p) \o Flat(gs, p + 1, q) = Flat(gs, p, q)
    BY <2>1, FlattenParts, Marks DEF Flat
  <2>. QED
    BY <1>3, <1>7, <2>2, Zenon
<1>9. PICK l : l = q - 1
  OBVIOUS
<1>10. l \in 0..(Len(gs) - 1) /\ l \in 0..Len(gs) /\ l + 1 = q /\ p \in 1..(l + 1)
  BY <1>9
<1>11. PICK front : front = Flat(gs, p, l)
  OBVIOUS
<1>12. front \in Seq(Nat)
  BY <1>10, <1>11, GroupCut
<1>13. Flat(gs, p, q) = front \o final
  <2>1. Flat(gs, p, l) \o gs[l + 1] = Flat(gs, p, l + 1)
    BY <1>10, GroupMore
  <2>. QED
    BY <1>1, <1>10, <1>11, <2>1, Zenon
<1>14. Head(first \o rest) = Head(first) /\ first \o rest # <<>>
  BY <1>2, <1>4, EndsOfConcat
<1>15. Last(front \o final) = Last(final)
  BY <1>2, <1>12, EndsOfConcat
<1>. QED
  BY <1>1, <1>8, <1>13, <1>14, <1>15, Zenon

\* A part of a group starts and ends with the lines it was cut at.
LEMMA EndsOfAPart ==
  ASSUME NEW g \in Seq(Nat), NEW p \in 1..Len(g), NEW q \in 1..Len(g), p <= q
  PROVE  SubSeq(g, p, q) # <<>> /\ Head(SubSeq(g, p, q)) = g[p] /\ Last(SubSeq(g, p, q)) = g[q]
<1>1. PICK s : s = SubSeq(g, p, q)
  OBVIOUS
<1>2. \A i \in p..q : g[i] \in Nat
  OBVIOUS
<1>3. /\ s \in Seq(Nat) /\ Len(s) = (q - p) + 1
      /\ \A i \in 1..((q - p) + 1) : s[i] = g[(p + i) - 1]
  <2>1. s \in Seq(Nat) /\ Len(s) = IF p <= q THEN q - p + 1 ELSE 0
    BY <1>1, <1>2, SubSeqProperties
  <2>2. Len(s) = (q - p) + 1
    BY <2>1
  <2>3. \A i \in 1..((q - p) + 1) : s[i] = g[(p + i) - 1]
    BY <1>1
  <2>. QED
    BY <2>1, <2>2, <2>3
<1>4. /\ 1 \in 1..((q - p) + 1) /\ (p + 1) - 1 = p
      /\ (q - p) + 1 \in 1..((q - p) + 1) /\ (p + ((q - p) + 1)) - 1 = q /\ (q - p) + 1 # 0
  OBVIOUS
<1>5. s[1] = g[p] /\ s[(q - p) + 1] = g[q]
  BY <1>3, <1>4, Zenon
<1>6. s # <<>>
  BY <1>3, <1>4
<1>7. Head(s) = g[p]
  BY <1>3, <1>5, <1>6
<1>8. Last(s) = g[q]
  BY <1>3, <1>5, Zenon DEF Last
<1>. QED
  BY <1>1, <1>6, <1>7, <1>8, Zenon

\* A message that is fair to groups has rows, is no wider than the budget and
\* the note, opens with a heading just when it starts with a group, and closes
\* without the note just when it ends with one, unless it was truncated.
LEMMA MessagesSaySo ==
  ASSUME NEW gs \in Seq(Seq(Nat)),
         \A k \in 1..Len(gs) : gs[k] # <<>> /\ IsInjective(gs[k]),
         ASSUME NEW k \in 1..Len(gs), NEW l \in 1..Len(gs), NEW i \in 1..Len(gs[k]),
                NEW j \in 1..Len(gs[l]), gs[k][i] = gs[l][j] PROVE k = l,
         NEW c, Fair(gs, c)
  PROVE  /\ c.ids # <<>> /\ c.width \in Nat /\ c.width <= Budget + NoteWidth
         /\ c.opens = IF Head(c.ids) \in {Head(g) : g \in Range(gs)} THEN "heading" ELSE "continued"
         /\ c.closes # "truncated" =>
              c.closes = IF Last(c.ids) \in {Last(g) : g \in Range(gs)} THEN "whole" ELSE "note"
<1>1. PICK firsts, finals : /\ firsts = {Head(g) : g \in Range(gs)}
                          /\ finals = {Last(g) : g \in Range(gs)}
  OBVIOUS
<1>2. DOMAIN gs = 1..Len(gs) /\ Len(gs) \in Nat
  OBVIOUS
<1>3. \A k \in 1..Len(gs) : gs[k] \in Seq(Nat) /\ gs[k] \in Range(gs)
  BY GroupsOf
<1>4. \A k \in 1..Len(gs) : Head(gs[k]) \in firsts /\ Last(gs[k]) \in finals
  BY <1>1, <1>3, Zenon
<1>5. \A e \in firsts : \E l \in 1..Len(gs) : e = Head(gs[l])
  BY <1>1, <1>2 DEF Range
<1>6. \A e \in finals : \E l \in 1..Len(gs) : e = Last(gs[l])
  BY <1>1, <1>2 DEF Range
<1>7. c \in Message /\ c.width \in Nat
  BY Parts DEF Fair
<1>8. CASE WholeGroups(gs, c)
  <2>1. PICK p \in 1..Len(gs), q \in 1..Len(gs) : p <= q /\ c.ids = Flat(gs, p, q)
    BY <1>8, Zenon DEF WholeGroups
  <2>2. c.width <= Budget /\ c.opens = "heading" /\ c.closes = "whole"
    BY <1>8, Zenon DEF WholeGroups
  <2>3. /\ Flat(gs, p, q) # <<>>
        /\ Head(Flat(gs, p, q)) = Head(gs[p]) /\ Last(Flat(gs, p, q)) = Last(gs[q])
    BY <2>1, EndsOfGroups
  <2>4. c.ids # <<>> /\ Head(c.ids) \in firsts /\ Last(c.ids) \in finals
    BY <1>4, <2>1, <2>3, Zenon
  <2>5. c.width <= Budget + NoteWidth
    BY <1>7, <2>2, Widths
  <2>. QED
    BY <1>1, <1>7, <2>2, <2>4, <2>5, Zenon
<1>9. CASE PartOfAGroup(gs, c)
  <2>1. PICK k \in 1..Len(gs) : Piece(gs[k], c)
    BY <1>9, Zenon DEF PartOfAGroup
  <2>2. PICK g : g = gs[k]
    OBVIOUS
  <2>3. g \in Seq(Nat) /\ IsInjective(g) /\ g # <<>>
    BY <1>3, <2>2, Zenon
  <2>4. Piece(g, c)
    BY <2>1, <2>2, Zenon
  <2>5. PICK p \in 1..Len(g), q \in 1..Len(g) :
          /\ p <= q /\ c.ids = SubSeq(g, p, q)
          /\ c.opens = IF p = 1 THEN "heading" ELSE "continued"
          /\ c.closes # "truncated" => c.closes = IF q = Len(g) THEN "whole" ELSE "note"
    BY <2>4, Zenon DEF Piece
  <2>6. c.width <= Budget + NoteWidth
    BY <2>4, Zenon DEF Piece
  <2>7. c.ids # <<>> /\ Head(c.ids) = g[p] /\ Last(c.ids) = g[q]
    <3>1. SubSeq(g, p, q) # <<>> /\ Head(SubSeq(g, p, q)) = g[p] /\ Last(SubSeq(g, p, q)) = g[q]
      BY <2>3, <2>5, EndsOfAPart
    <3>. QED
      BY <2>5, <3>1, Zenon
  <2>8. DOMAIN g = 1..Len(g) /\ Len(g) \in Nat \ {0} /\ 1 \in 1..Len(g) /\ Len(g) \in 1..Len(g)
    BY <2>3
  <2>9. ASSUME NEW l \in 1..Len(gs)
        PROVE  /\ gs[l] \in Seq(Nat) /\ Head(gs[l]) = gs[l][1] /\ Last(gs[l]) = gs[l][Len(gs[l])]
               /\ 1 \in 1..Len(gs[l]) /\ Len(gs[l]) \in 1..Len(gs[l])
    <3>1. PICK s : s = gs[l]
      OBVIOUS
    <3>2. s \in Seq(Nat) /\ s # <<>>
      BY <1>3, <3>1, Zenon
    <3>3. Head(s) = s[1] /\ 1 \in 1..Len(s) /\ Len(s) \in 1..Len(s)
      BY <3>2
    <3>4. Last(s) = s[Len(s)]
      BY DEF Last
    <3>. QED
      BY <3>1, <3>2, <3>3, <3>4, Zenon
  <2>10. g[p] \in firsts <=> p = 1
    <3>1. ASSUME g[p] \in firsts PROVE p = 1
      <4>1. PICK l \in 1..Len(gs) : g[p] = Head(gs[l])
        BY <1>5, <3>1, Zenon
      <4>2. gs[k][p] = gs[l][1] /\ p \in 1..Len(gs[k]) /\ 1 \in 1..Len(gs[l])
        BY <2>2, <2>9, <4>1
      <4>3. k = l
        BY <4>2
      <4>4. g[p] = g[1]
        BY <2>2, <4>2, <4>3, Zenon
      <4>. QED
        BY <2>3, <2>8, <4>4, Zenon DEF IsInjective
    <3>2. ASSUME p = 1 PROVE g[p] \in firsts
      BY <1>4, <2>2, <2>9, <3>2
    <3>. QED
      BY <3>1, <3>2
  <2>11. g[q] \in finals <=> q = Len(g)
    <3>1. ASSUME g[q] \in finals PROVE q = Len(g)
      <4>1. PICK l \in 1..Len(gs) : g[q] = Last(gs[l])
        BY <1>6, <3>1, Zenon
      <4>2. gs[k][q] = gs[l][Len(gs[l])] /\ q \in 1..Len(gs[k]) /\ Len(gs[l]) \in 1..Len(gs[l])
        BY <2>2, <2>9, <4>1
      <4>3. k = l
        BY <4>2
      <4>4. g[q] = g[Len(g)]
        BY <2>2, <4>2, <4>3, Zenon
      <4>. QED
        BY <2>3, <2>8, <4>4, Zenon DEF IsInjective
    <3>2. ASSUME q = Len(g) PROVE g[q] \in finals
      BY <1>4, <2>2, <2>9, <3>2
    <3>. QED
      BY <3>1, <3>2
  <2>12. c.opens = IF Head(c.ids) \in firsts THEN "heading" ELSE "continued"
    BY <2>5, <2>7, <2>10, Zenon
  <2>13. c.closes # "truncated" => c.closes = IF Last(c.ids) \in finals THEN "whole" ELSE "note"
    BY <2>5, <2>7, <2>11, Zenon
  <2>. QED
    BY <1>1, <1>7, <2>6, <2>7, <2>12, <2>13, Zenon
<1>. QED
  BY <1>8, <1>9 DEF Fair

-----------------------------------------------------------------------------
(* The cap and the headers (buildDigestChunks), and all together.            *)

\* The widths of the parts of a header fit the reserve.
LEMMA HeaderFits ==
  ASSUME NEW chunks, NEW i
  PROVE  HeaderWidth(chunks, i) \in Nat /\ HeaderWidth(chunks, i) + NoteWidth <= Reserve
<1>1. /\ WindowWidth \in Nat /\ IndicatorWidth \in Nat /\ MarkerWidth \in Nat /\ NoteWidth \in Nat
      /\ Reserve \in Nat
      /\ WindowWidth + IndicatorWidth + MarkerWidth + 1 + NoteWidth <= Reserve
  BY ChunksAssumption
<1>2. PICK k, l : /\ k = (IF Len(Kept(chunks)) > 1 THEN IndicatorWidth ELSE 0)
                  /\ l = (IF i = Len(Kept(chunks)) /\ DeferredCount(chunks) > 0 THEN MarkerWidth ELSE 0)
  OBVIOUS
<1>3. HeaderWidth(chunks, i) = WindowWidth + 1 + k + l
  BY <1>2, Zenon DEF HeaderWidth
<1>4. k \in Nat /\ l \in Nat /\ k <= IndicatorWidth /\ l <= MarkerWidth
  <2>1. k = IndicatorWidth \/ k = 0
    BY <1>2, Zenon
  <2>2. l = MarkerWidth \/ l = 0
    BY <1>2, Zenon
  <2>. QED
    BY <1>1, <2>1, <2>2
<1>. QED
  BY <1>1, <1>3, <1>4

\* What is kept and what is deferred is all there is.
LEMMA KeptAndDeferred ==
  ASSUME NEW chunks \in Seq(Message)
  PROVE  /\ DOMAIN Kept(chunks) \subseteq 1..Len(chunks)
         /\ \A i \in DOMAIN Kept(chunks) : Kept(chunks)[i] = chunks[i]
         /\ Len(RowsIn(Kept(chunks))) + DeferredCount(chunks) = Len(RowsIn(chunks))
<1>1. PICK n, m : n = Len(chunks) /\ m = IF n > MaxDigestChunks THEN MaxDigestChunks ELSE n
  OBVIOUS
<1>2. n \in Nat /\ m \in 0..n /\ MaxDigestChunks \in Nat \ {0}
  BY <1>1, Widths
<1>3. PICK kept, rest : kept = SubSeq(chunks, 1, m) /\ rest = SubSeq(chunks, MaxDigestChunks + 1, n)
  OBVIOUS
<1>4. Kept(chunks) = kept /\ DeferredCount(chunks) = Len(RowsIn(rest))
  BY <1>1, <1>3, Zenon DEF Kept, DeferredCount
<1>5. /\ kept \in Seq(Message) /\ rest \in Seq(Message) /\ Len(kept) = m
      /\ \A i \in 1..m : kept[i] = chunks[i]
  <2>1. \A i \in 1..m : chunks[i] \in Message
    BY <1>1, <1>2
  <2>2. \A i \in (MaxDigestChunks + 1)..n : chunks[i] \in Message
    BY <1>1, <1>2
  <2>3. kept \in Seq(Message) /\ Len(kept) = IF 1 <= m THEN m - 1 + 1 ELSE 0
    BY <1>2, <1>3, <2>1, SubSeqProperties
  <2>4. Len(kept) = m
    BY <1>2, <2>3
  <2>5. rest \in Seq(Message)
    BY <1>2, <1>3, <2>2, SubSeqProperties
  <2>6. \A i \in 1..m : kept[i] = chunks[i]
    BY <1>1, <1>2, <1>3
  <2>. QED
    BY <2>3, <2>4, <2>5, <2>6
<1>6. chunks = kept \o rest
  <2>1. CASE n > MaxDigestChunks
    <3>1. m = MaxDigestChunks /\ 1 \in 1..(n + 1) /\ m \in (1 - 1)..n /\ n \in m..n
      BY <1>1, <1>2, <2>1
    <3>2. SubSeq(chunks, 1, m) \o SubSeq(chunks, m + 1, n) = SubSeq(chunks, 1, n)
      BY <1>1, <3>1, ConcatAdjacentSubSeq
    <3>3. SubSeq(chunks, 1, n) = chunks
      BY <1>1, SubSeqFull
    <3>. QED
      BY <1>3, <3>1, <3>2, <3>3, Zenon
  <2>2. CASE ~(n > MaxDigestChunks)
    <3>1. m = n /\ n < MaxDigestChunks + 1
      BY <1>1, <1>2, <2>2
    <3>2. rest = <<>>
      BY <1>2, <1>3, <3>1, SubSeqEmpty
    <3>3. kept = chunks
      BY <1>1, <1>3, <3>1, SubSeqFull
    <3>4. chunks \o <<>> = chunks
      BY ConcatEmptySeq
    <3>. QED
      BY <3>2, <3>3, <3>4, Zenon
  <2>. QED
    BY <2>1, <2>2
<1>7. PICK s, t : s = RowsIn(kept) /\ t = RowsIn(rest)
  OBVIOUS
<1>8. s \in Seq(Nat) /\ t \in Seq(Nat) /\ RowsIn(chunks) = s \o t
  <2>1. s \in Seq(Nat)
    BY <1>5, <1>7, RowsOf
  <2>2. t \in Seq(Nat)
    BY <1>5, <1>7, RowsOf
  <2>3. RowsIn(kept \o rest) = RowsIn(kept) \o RowsIn(rest)
    BY <1>5, RowsOfConcat
  <2>. QED
    BY <1>6, <1>7, <2>1, <2>2, <2>3, Zenon
<1>9. Len(s \o t) = Len(s) + Len(t)
  BY <1>8, ConcatProperties
<1>10. DOMAIN kept = 1..m
  BY <1>5
<1>11. DOMAIN kept \subseteq 1..n
  BY <1>2, <1>10
<1>. QED
  BY <1>1, <1>4, <1>5, <1>7, <1>8, <1>9, <1>10, <1>11, Zenon

\* Whatever the pending events are, the digest made of them is whole.
LEMMA DigestOfEvents == Events => DigestIsWhole
<1>. SUFFICES ASSUME Events PROVE DigestIsWhole
  OBVIOUS
<1>1. PICK gs : gs = Groups
  OBVIOUS
<1>2. /\ gs \in Seq(Seq(Nat))
      /\ \A k \in 1..Len(gs) : /\ gs[k] # <<>> /\ IsInjective(gs[k])
                               /\ \A i \in 1..Len(gs[k]) : gs[k][i] \in DOMAIN pending
      /\ \A k, l \in 1..Len(gs) : \A i \in 1..Len(gs[k]), j \in 1..Len(gs[l]) :
           gs[k][i] = gs[l][j] => k = l
      /\ \A id \in DOMAIN pending : \E k \in 1..Len(gs) : \E i \in 1..Len(gs[k]) : gs[k][i] = id
  BY <1>1, GroupsAre
<1>3. ASSUME NEW k \in 1..Len(gs), NEW l \in 1..Len(gs), NEW i \in 1..Len(gs[k]),
                NEW j \in 1..Len(gs[l]), gs[k][i] = gs[l][j] PROVE k = l
  BY <1>2, <1>3
<1>4. \A k \in 1..Len(gs) : gs[k] # <<>> /\ IsInjective(gs[k])
  BY <1>2, Zenon
<1>5. \A id \in DOMAIN pending : LineWidth(id) \in Nat \ {0}
  <2>1. \A id \in DOMAIN pending : pending[id].width \in Width
    BY DEF Events
  <2>. QED
    BY <2>1, ChunksAssumption DEF LineWidth
<1>6. \A k \in 1..Len(gs) : \A i \in 1..Len(gs[k]) : LineWidth(gs[k][i]) \in Nat \ {0}
  BY <1>2, <1>5, Zenon
<1>7. PICK chunks : chunks = ChunkDigest
  OBVIOUS
<1>8. chunks = MessagesOf(gs)
  BY <1>1, <1>7, Zenon DEF ChunkDigest, MessagesOf
<1>9. /\ chunks \in Seq(Message)
      /\ RowsIn(chunks) = FlattenSeq(gs)
      /\ \A i \in 1..Len(chunks) : Fair(gs, chunks[i])
      /\ \A k \in 1..Len(gs) : Rendered(gs[k]) <= Budget => Held(gs[k], chunks)
  BY <1>2, <1>6, <1>8, DigestIsCut
<1>10. PICK kept : kept = Kept(chunks)
  OBVIOUS
<1>11. /\ DOMAIN kept \subseteq 1..Len(chunks)
       /\ \A i \in DOMAIN kept : kept[i] = chunks[i]
       /\ Len(RowsIn(kept)) + DeferredCount(chunks) = Len(RowsIn(chunks))
  BY <1>9, <1>10, KeptAndDeferred
<1>12. PICK firsts, finals : /\ firsts = {Head(g) : g \in Range(gs)}
                             /\ finals = {Last(g) : g \in Range(gs)}
  OBVIOUS
<1>13. \A i \in 1..Len(chunks) :
         /\ chunks[i].ids # <<>> /\ chunks[i].width \in Nat /\ chunks[i].width <= Budget + NoteWidth
         /\ chunks[i].opens = IF Head(chunks[i].ids) \in firsts THEN "heading" ELSE "continued"
         /\ chunks[i].closes # "truncated" =>
              chunks[i].closes = IF Last(chunks[i].ids) \in finals THEN "whole" ELSE "note"
  <2>1. ASSUME NEW i \in 1..Len(chunks)
        PROVE  /\ chunks[i].ids # <<>> /\ chunks[i].width \in Nat /\ chunks[i].width <= Budget + NoteWidth
               /\ chunks[i].opens = IF Head(chunks[i].ids) \in firsts THEN "heading" ELSE "continued"
               /\ chunks[i].closes # "truncated" =>
                    chunks[i].closes = IF Last(chunks[i].ids) \in finals THEN "whole" ELSE "note"
    <3>1. PICK c : c = chunks[i]
      OBVIOUS
    <3>2. Fair(gs, c)
      BY <1>9, <3>1, Zenon
    <3>3. /\ c.ids # <<>> /\ c.width \in Nat /\ c.width <= Budget + NoteWidth
          /\ c.opens = IF Head(c.ids) \in {Head(g) : g \in Range(gs)} THEN "heading" ELSE "continued"
          /\ c.closes # "truncated" =>
               c.closes = IF Last(c.ids) \in {Last(g) : g \in Range(gs)} THEN "whole" ELSE "note"
      BY <1>2, <1>3, <1>4, <3>2, MessagesSaySo
    <3>. QED
      BY <1>12, <3>1, <3>3, Zenon
  <2>. QED
    BY <2>1
<1>14. Len(RowsIn(kept)) + DeferredCount(chunks) = Cardinality(DOMAIN pending)
  <2>1. ASSUME NEW k \in 1..Len(gs) PROVE DOMAIN gs[k] = 1..Len(gs[k])
    <3>1. PICK s : s = gs[k]
      OBVIOUS
    <3>2. s \in Seq(Nat)
      BY <1>2, <3>1
    <3>3. DOMAIN s = 1..Len(s)
      BY <3>2
    <3>. QED
      BY <3>1, <3>3, Zenon
  <2>2. \A k, l \in 1..Len(gs) : Range(gs[k]) \intersect Range(gs[l]) # {} => k = l
    <3>1. ASSUME NEW k \in 1..Len(gs), NEW l \in 1..Len(gs), NEW e,
                 e \in Range(gs[k]), e \in Range(gs[l])
          PROVE  k = l
      <4>1. PICK i \in 1..Len(gs[k]) : e = gs[k][i]
        BY <2>1, <3>1, Zenon DEF Range
      <4>2. PICK j \in 1..Len(gs[l]) : e = gs[l][j]
        BY <2>1, <3>1, Zenon DEF Range
      <4>. QED
        BY <1>3, <4>1, <4>2
    <3>. QED
      BY <3>1
  <2>3. PICK all : all = UNION {Range(gs[k]) : k \in 1..Len(gs)}
    OBVIOUS
  <2>4. Len(FlattenSeq(gs)) = Cardinality(all)
    <3>1. \A k \in 1..Len(gs) : IsInjective(gs[k])
      BY <1>4, Zenon
    <3>. QED
      BY <1>2, <2>2, <2>3, <3>1, RowsCounted
  <2>5. all = DOMAIN pending
    <3>1. ASSUME NEW e \in all PROVE e \in DOMAIN pending
      <4>1. PICK k \in 1..Len(gs) : e \in Range(gs[k])
        BY <2>3, <3>1
      <4>2. PICK i \in 1..Len(gs[k]) : e = gs[k][i]
        BY <2>1, <4>1, Zenon DEF Range
      <4>. QED
        BY <1>2, <4>2, Zenon
    <3>2. ASSUME NEW e \in DOMAIN pending PROVE e \in all
      <4>1. PICK k \in 1..Len(gs) : \E i \in 1..Len(gs[k]) : gs[k][i] = e
        BY <1>2, <3>2, Zenon
      <4>2. e \in Range(gs[k])
        BY <2>1, <4>1, Zenon DEF Range
      <4>. QED
        BY <2>3, <4>2, Zenon
    <3>. QED
      BY <3>1, <3>2
  <2>. QED
    BY <1>9, <1>11, <2>4, <2>5, Zenon
<1>15. ASSUME NEW i \in DOMAIN kept
       PROVE  kept[i].ids # <<>> /\ HeaderWidth(chunks, i) + kept[i].width <= Budget + Reserve
  <2>1. i \in 1..Len(chunks) /\ kept[i] = chunks[i]
    BY <1>11, Zenon
  <2>2. PICK w, h : w = kept[i].width /\ h = HeaderWidth(chunks, i)
    OBVIOUS
  <2>3. kept[i].ids # <<>> /\ w \in Nat /\ w <= Budget + NoteWidth
    BY <1>13, <2>1, <2>2, Zenon
  <2>4. h \in Nat /\ h + NoteWidth <= Reserve
    BY <2>2, HeaderFits, Zenon
  <2>5. h + w <= Budget + Reserve
    BY <2>3, <2>4, Widths
  <2>. QED
    BY <2>2, <2>3, <2>5, Zenon
<1>16. DOMAIN chunks = 1..Len(chunks) /\ DOMAIN gs = 1..Len(gs)
  BY <1>2, <1>9
<1>17. ASSUME NEW g \in Range(gs), Rendered(g) <= Budget
       PROVE  \E i \in DOMAIN chunks : Range(g) \subseteq Range(chunks[i].ids)
  <2>1. PICK k \in 1..Len(gs) : g = gs[k]
    BY <1>16, Zenon DEF Range
  <2>2. Held(g, chunks)
    BY <1>9, <1>17, <2>1, Zenon
  <2>. QED
    BY <1>16, <2>2, Zenon DEF Held
<1>18. /\ RowsIn(chunks) = FlattenSeq(gs)
       /\ Len(RowsIn(kept)) + DeferredCount(chunks) = Cardinality(DOMAIN pending)
       /\ \A i \in DOMAIN kept :
            /\ kept[i].ids # <<>>
            /\ HeaderWidth(chunks, i) + kept[i].width <= Budget + Reserve
       /\ \A g \in Range(gs) : Rendered(g) <= Budget =>
            \E i \in DOMAIN chunks : Range(g) \subseteq Range(chunks[i].ids)
       /\ \A i \in DOMAIN chunks :
            /\ chunks[i].opens = IF Head(chunks[i].ids) \in firsts THEN "heading" ELSE "continued"
            /\ chunks[i].closes # "truncated" =>
                 chunks[i].closes = IF Last(chunks[i].ids) \in finals THEN "whole" ELSE "note"
  BY <1>9, <1>13, <1>14, <1>15, <1>16, <1>17, Zenon
<1>. QED
  BY <1>1, <1>7, <1>10, <1>12, <1>18, Zenon DEF DigestIsWhole

\* No event is pending at first.
LEMMA EventsInitially == ChunksInit => Events
<1>. SUFFICES ASSUME ChunksInit PROVE Events
  OBVIOUS
<1>1. PICK p : p = pending
  OBVIOUS
<1>2. p = <<>>
  BY <1>1 DEF ChunksInit
<1>3. DOMAIN p = {} /\ p \in [{} -> [type : Range(Headings), width : Width]]
  BY <1>2
<1>. QED
  BY <1>1, <1>3, FS_EmptySet, Zenon DEF Events

\* To queue an event keeps the pending events rows of the table.
LEMMA EventsStay == Events /\ ChunksNext => Events'
<1>. SUFFICES ASSUME Events, ChunksNext PROVE Events'
  OBVIOUS
<1>1. PICK id \in Row \ DOMAIN pending, type \in Range(Headings), width \in Width :
        pending' = [r \in DOMAIN pending \union {id} |->
                      IF r = id THEN [type |-> type, width |-> width] ELSE pending[r]]
  BY DEF ChunksNext
<1>2. PICK old, new, Record : /\ old = pending /\ new = pending'
                              /\ Record = [type : Range(Headings), width : Width]
  OBVIOUS
<1>3. old \in [DOMAIN old -> Record] /\ DOMAIN old \subseteq Row /\ IsFiniteSet(DOMAIN old)
  BY <1>2, Zenon DEF Events
<1>4. [type |-> type, width |-> width] \in Record
  BY <1>2
<1>5. new = [r \in DOMAIN old \union {id} |->
               IF r = id THEN [type |-> type, width |-> width] ELSE old[r]]
  BY <1>1, <1>2, Zenon
<1>6. DOMAIN new = DOMAIN old \union {id} /\ new \in [DOMAIN new -> Record]
  BY <1>3, <1>4, <1>5
<1>7. IsFiniteSet(DOMAIN new)
  BY <1>3, <1>6, FS_AddElement
<1>8. DOMAIN new \subseteq Row
  BY <1>3, <1>6
<1>. QED
  BY <1>2, <1>6, <1>7, <1>8, Zenon DEF Events

(* Of every list of pending events, of any widths, with any budget and cap,  *)
(* each row is in one message of the digest and in no other, in the order    *)
(* of the groups, and the rows past the cap are counted as deferred; no      *)
(* message is empty or, with its header, longer than Discord allows; a group *)
(* that fits a message is never cut, and where one is cut both messages say  *)
(* so (buildDigestChunks, chunkDigest, splitOversizedGroup).                 *)
THEOREM DigestsAreWhole == ServerSpec => []DigestIsWhole
<1>1. ServerInit => Events
  BY EventsInitially DEF ServerInit
<1>2. Events /\ [ServerNext]_serverVars => Events'
  <2>. SUFFICES ASSUME Events, [ServerNext]_serverVars PROVE Events'
    OBVIOUS
  <2>1. CASE ServerNext
    <3>1. UNCHANGED pending \/ ChunksNext
      BY <2>1, Zenon DEF ServerNext, Only
    <3>2. CASE UNCHANGED pending
      BY <3>2, Zenon DEF Events
    <3>. QED
      BY <3>1, <3>2, EventsStay
  <2>2. CASE UNCHANGED serverVars
    <3>1. UNCHANGED pending
      BY <2>2 DEF serverVars
    <3>. QED
      BY <3>1, Zenon DEF Events
  <2>. QED
    BY <2>1, <2>2
<1>3. Events => DigestIsWhole
  BY DigestOfEvents
<1>. QED
  BY <1>1, <1>2, <1>3, PTL DEF ServerSpec
=============================================================================
