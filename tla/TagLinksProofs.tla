--------------------------- MODULE TagLinksProofs ---------------------------
(***************************************************************************)
(* What TagLinks guarantees for any artists, tags, names, requests and cap. *)
(***************************************************************************)
EXTENDS TagLinks, TLAPS, FiniteSetTheorems, SequenceTheorems

-----------------------------------------------------------------------------
(* What a transaction may hold.                                            *)

Rows == ArtistRow \union TagRow \union Link

\* Whether q attaches; and whether it is at a row of an insert.
Attacher(q) == q.op \in {"attach", "bulk attach"}

Visiting == {"check", "artist", "recheck", "insert"}

Labels(q) ==
  {"idle", "done", "commit"} \union
    CASE q.op = "attach"      -> {"tag", "refused"} \union Visiting
      [] q.op = "bulk attach" -> {"tag", "rows"} \union Visiting
      [] q.op = "merge"       -> {"lock tags", "duplicates", "repoint", "sweep", "duplicate key"}
      [] q.op = "delete"      -> {"lock tags", "sweep"}
      [] q.op = "detach"      -> {"sweep"}
      [] OTHER                -> {"rename", "index", "collided"}

Places ==
  {"idle", "done", "commit", "tag", "refused", "rows", "lock tags", "duplicates", "repoint",
   "sweep", "duplicate key", "rename", "index", "collided"} \union Visiting

States ==
  [at : Places, todo : Seq(Rows), tag : TagRow \union {0}, made : SUBSET TagRow,
   tags : SUBSET TagRow, artists : SUBSET ArtistRow, shared : SUBSET Link,
   ins : SUBSET Link, del : SUBSET Link, retried : BOOLEAN, target : TagRow \union {0}]

\* An attacher deletes nothing and inserts its own tag; a bulk attach reaches
\* its insert with the artists locked.  Only attachers share links.  A merge
\* inserts a link only in place of one it deletes; others insert none.
Local(q, s) ==
  /\ s \in States /\ s.at \in Labels(q)
  /\ Attacher(q) =>
       /\ s.del = {} /\ s.todo \in Seq(ArtistRow)
       /\ s.at \in Visiting \union {"rows"} => s.tag \in TagRow
       /\ s.at \in Visiting => s.todo # <<>>
       /\ s.at = "rows" => q.artists \subseteq s.artists \union Range(s.todo)
       /\ s.at = "recheck" => Head(s.todo) \in s.artists
       /\ \A l \in s.ins : l[2] = s.tag
  /\ ~Attacher(q) => s.shared = {}
  /\ q.op = "merge" => \A l \in s.ins : l[2] = q.into /\ \E d \in s.del : d[1] = l[1]
  /\ ~Attacher(q) /\ q.op # "merge" => s.ins = {}

\* Artists that q inserts for, or may yet without a look at the cap.
Sure(q, s, a) ==
  \/ <<a, s.tag>> \in s.ins
  \/ s.at = "insert" /\ a = Head(s.todo) /\ <<a, s.tag>> \notin s.shared
  \/ q.op = "bulk attach" /\ s.at \in Visiting /\ a \in Range(s.todo)

HasRoom(q, s) ==
  Attacher(q) =>
    \A a \in ArtistRow : Sure(q, s, a) => a \in s.artists /\ Cardinality(Carried(a)) < MaxTags

\* What q holds is there, and in nobody else's way.
Apart(q, s) ==
  /\ s.del \subseteq links /\ s.shared \subseteq links
  /\ s.shared \intersect s.del = {}
  /\ \A r \in Request \ {q} :
       /\ s.artists \intersect tx[r].artists = {}
       /\ s.del \intersect tx[r].del = {}
       /\ s.shared \intersect tx[r].del = {}
       /\ s.del \intersect tx[r].shared = {}

Fits(q, s) == Local(q, s) /\ HasRoom(q, s) /\ Apart(q, s)

Tables ==
  /\ links \subseteq Link /\ DOMAIN tagTable \subseteq TagRow /\ usedTags \subseteq TagRow
  /\ tx \in [Request -> States]

CapInv == Tables /\ CapHolds /\ \A q \in Request : Fits(q, tx[q])

-----------------------------------------------------------------------------
(* Requests, sequences and sets of links.                                  *)

LEMMA RequestFields ==
  ASSUME NEW q \in Request
  PROVE  /\ q.op \in {"attach", "bulk attach", "detach", "merge", "delete", "rename"}
         /\ Attacher(q) => q.artists \subseteq ArtistRow
         /\ q.op = "detach" => q.tag \in TagRow
         /\ q.op = "merge" => q.tag \in TagRow /\ q.into \in TagRow
         /\ q.op \in {"delete", "rename"} => q.tag \in TagRow
  BY LinksAssumption DEF Requests, Attacher

\* The cap counts finite sets.
LEMMA CarriedFinite ==
  ASSUME NEW a
  PROVE  /\ IsFiniteSet(Carried(a)) /\ Cardinality(Carried(a)) \in Nat
         /\ Carried(a) \subseteq TagRow
<1>1. Carried(a) \in SUBSET TagRow
  BY DEF Carried
<1>2. IsFiniteSet(Carried(a))
  BY <1>1, FS_Subset, LinksAssumption
<1>. QED
  BY <1>1, <1>2, FS_CardinalityType

LEMMA OneMore ==
  ASSUME NEW S, IsFiniteSet(S), NEW x
  PROVE  /\ IsFiniteSet(S \union {x})
         /\ Cardinality(S \union {x}) \in Nat /\ Cardinality(S) \in Nat
         /\ Cardinality(S \union {x}) <= Cardinality(S) + 1
<1>1. Cardinality(S) \in Nat
  BY FS_CardinalityType
<1>2. /\ IsFiniteSet(S \union {x})
      /\ Cardinality(S \union {x}) = IF x \in S THEN Cardinality(S) ELSE Cardinality(S) + 1
  BY FS_AddElement
<1>. QED
  BY <1>1, <1>2

\* An order of a finite set is a sequence of all its members.
LEMMA OrderOfAll ==
  ASSUME NEW S, IsFiniteSet(S), NEW s \in Orders(S)
  PROVE  /\ s \in Seq(S) /\ Range(s) = S
         /\ S # {} => s # <<>>
<1>. DEFINE n == Cardinality(S)
<1>1. n \in Nat /\ IsFiniteSet(1 .. n) /\ Cardinality(1 .. n) = n
  BY FS_CardinalityType, FS_Interval
<1>2. s \in [1 .. n -> S] /\ s \in Injection(1 .. n, S)
  BY DEF Orders, IsInjective, Injection
<1>3. s \in Surjection(1 .. n, S)
  BY <1>1, <1>2, FS_Injection
<1>4. Range(s) = S
  BY <1>2, <1>3 DEF Surjection, Range
<1>5. s \in Seq(S)
  BY <1>1, <1>2, SeqDef
<1>6. S # {} => s # <<>>
  BY <1>4, <1>5, EmptySeq, LenProperties DEF Range
<1>. QED
  BY <1>4, <1>5, <1>6

LEMMA AscendingIsAnOrder ==
  ASSUME NEW S PROVE Ascending(S) \subseteq Orders(S)
  BY DEF Ascending

\* A visited row is a row of the statement, and the rest are the others.
LEMMA RowsVisited ==
  ASSUME NEW S, NEW s \in Seq(S), s # <<>>
  PROVE  /\ Head(s) \in S /\ Tail(s) \in Seq(S)
         /\ Range(s) = {Head(s)} \union Range(Tail(s))
<1>1. Head(s) \in S /\ Tail(s) \in Seq(S) /\ Len(Tail(s)) = Len(s) - 1
  BY HeadTailProperties
<1>2. \A i \in 1 .. Len(s) - 1 : Tail(s)[i] = s[i + 1]
  BY HeadTailProperties
<1>3. Len(s) \in Nat \ {0} /\ Head(s) = s[1]
  BY EmptySeq
<1>4. DOMAIN s = 1 .. Len(s) /\ DOMAIN Tail(s) = 1 .. Len(s) - 1
  BY <1>1, LenProperties
<1>5. \A x : x \in Range(s) <=> \E i \in 1 .. Len(s) : x = s[i]
  BY <1>4 DEF Range
<1>6. \A x : x \in Range(Tail(s)) <=> \E i \in 1 .. Len(s) - 1 : x = Tail(s)[i]
  BY <1>4 DEF Range
<1>7. ASSUME NEW x \in Range(s) PROVE x = Head(s) \/ x \in Range(Tail(s))
  <2>1. PICK i \in 1 .. Len(s) : x = s[i]
    BY <1>5, <1>7
  <2>2. CASE i = 1
    BY <1>3, <2>1, <2>2
  <2>3. CASE i # 1
    <3>1. i - 1 \in 1 .. Len(s) - 1 /\ (i - 1) + 1 = i
      BY <1>3, <2>3
    <3>2. Tail(s)[i - 1] = x
      BY <1>2, <2>1, <3>1
    <3>. QED
      BY <1>6, <3>1, <3>2
  <2>. QED
    BY <2>2, <2>3
<1>8. ASSUME NEW x \in Range(Tail(s)) PROVE x \in Range(s)
  <2>1. PICK i \in 1 .. Len(s) - 1 : x = Tail(s)[i]
    BY <1>6, <1>8
  <2>2. i + 1 \in 1 .. Len(s)
    BY <1>3
  <2>. QED
    BY <1>2, <1>5, <2>1, <2>2
<1>9. Head(s) \in Range(s)
  BY <1>3, <1>5
<1>. QED
  BY <1>1, <1>7, <1>8, <1>9

LEMMA RowOrders ==
  /\ \A S \in SUBSET Link : \A s : s \in Orders(S) => s \in Seq(Rows)
  /\ \A S \in SUBSET TagRow : \A s : s \in Orders(S) => s \in Seq(Rows)
  /\ \A S \in SUBSET ArtistRow : \A s :
       s \in Orders(S) => s \in Seq(ArtistRow) /\ Range(s) = S /\ (S # {} => s # <<>>)
  /\ Seq(ArtistRow) \subseteq Seq(Rows)
<1>1. IsFiniteSet(ArtistRow) /\ IsFiniteSet(TagRow) /\ IsFiniteSet(Link)
  BY LinksAssumption, FS_Product DEF Link
<1>2. \A S, T, s : s \in Seq(S) /\ S \subseteq T => s \in Seq(T)
  BY SeqMonotonic
<1>3. \A S \in SUBSET Link : IsFiniteSet(S)
  BY <1>1, FS_Subset
<1>4. \A S \in SUBSET TagRow : IsFiniteSet(S)
  BY <1>1, FS_Subset
<1>5. \A S \in SUBSET ArtistRow : IsFiniteSet(S)
  BY <1>1, FS_Subset
<1>6. \A S, s : IsFiniteSet(S) /\ s \in Orders(S) =>
        s \in Seq(S) /\ Range(s) = S /\ (S # {} => s # <<>>)
  BY OrderOfAll
<1>7. Link \subseteq Rows /\ TagRow \subseteq Rows /\ ArtistRow \subseteq Rows
  BY DEF Rows
<1>8. ASSUME NEW S \in SUBSET Link, NEW s \in Orders(S) PROVE s \in Seq(Rows)
  <2>1. S \subseteq Rows /\ s \in Seq(S)
    BY <1>3, <1>6, <1>7
  <2>. QED
    BY <1>2, <2>1
<1>9. ASSUME NEW S \in SUBSET TagRow, NEW s \in Orders(S) PROVE s \in Seq(Rows)
  <2>1. S \subseteq Rows /\ s \in Seq(S)
    BY <1>4, <1>6, <1>7
  <2>. QED
    BY <1>2, <2>1
<1>10. ASSUME NEW S \in SUBSET ArtistRow, NEW s \in Orders(S) PROVE s \in Seq(ArtistRow)
  <2>1. s \in Seq(S)
    BY <1>5, <1>6
  <2>. QED
    BY <1>2, <2>1
<1>11. Seq(ArtistRow) \subseteq Seq(Rows)
  BY <1>2, <1>7
<1>. QED
  BY <1>5, <1>6, <1>8, <1>9, <1>10, <1>11

-----------------------------------------------------------------------------
(* Steps that write no table.                                              *)

LEMMA ChangesFit ==
  ASSUME CapInv, NEW q \in Request, NEW s, Changes(q, s), Fits(q, s),
         UNCHANGED <<tagTable, links>>, usedTags' \subseteq TagRow
  PROVE  CapInv'
<1>1. tx \in [Request -> States] /\ s \in States
  BY DEF CapInv, Tables, Fits, Local
<1>2. tx' = [tx EXCEPT ![q] = s]
      /\ tagTable' = tagTable /\ links' = links
  BY DEF Changes
<1>3. tx' \in [Request -> States] /\ \A r \in Request : tx'[r] = IF r = q THEN s ELSE tx[r]
  BY <1>1, <1>2
<1>4. \A a : Carried(a)' = Carried(a)
  BY <1>2 DEF Carried
<1>5. ASSUME NEW r \in Request PROVE Fits(r, tx[r])'
  <2>1. Fits(r, tx[r])
    BY DEF CapInv
  <2>2. Fits(r, tx'[r])
    <3>1. CASE r = q
      BY <1>3, <3>1
    <3>2. CASE r # q
      BY <1>3, <2>1, <3>2
    <3>. QED
      BY <3>1, <3>2
  <2>3. Local(r, tx[r])'
    BY <2>2 DEF Fits, Local
  <2>4. HasRoom(r, tx[r])'
    BY <1>4, <2>2 DEF Fits, HasRoom, Sure
  <2>5. Apart(r, tx[r])'
    <3>1. tx'[r].del \subseteq links' /\ tx'[r].shared \subseteq links'
          /\ tx'[r].shared \intersect tx'[r].del = {}
      BY <1>2, <2>2 DEF Fits, Apart
    <3>2. ASSUME NEW h \in Request \ {r}
          PROVE  /\ tx'[r].artists \intersect tx'[h].artists = {}
                 /\ tx'[r].del \intersect tx'[h].del = {}
                 /\ tx'[r].shared \intersect tx'[h].del = {}
                 /\ tx'[r].del \intersect tx'[h].shared = {}
      <4>1. CASE r = q
        BY <1>3, <4>1 DEF Fits, Apart
      <4>2. CASE r # q /\ h # q
        BY <1>3, <2>1, <4>2 DEF Fits, Apart
      <4>3. CASE r # q /\ h = q
        BY <1>3, <4>3 DEF Fits, Apart
      <4>. QED
        BY <4>1, <4>2, <4>3
    <3>. QED
      BY <3>1, <3>2 DEF Apart
  <2>. QED
    BY <2>3, <2>4, <2>5 DEF Fits
<1>6. Tables'
  BY <1>2, <1>3 DEF CapInv, Tables
<1>7. CapHolds'
  BY <1>4 DEF CapInv, CapHolds
<1>. QED
  BY <1>5, <1>6, <1>7 DEF CapInv

LEMMA MovesFit ==
  ASSUME CapInv, NEW q \in Request, NEW s, Moves(q, s), Fits(q, s)
  PROVE  CapInv'
  BY ChangesFit DEF Moves, CapInv, Tables

\* A transaction that holds nothing is in nobody's way.
LEMMA EmptyHandsFit ==
  ASSUME NEW q \in Request, NEW s, Local(q, s),
         s.artists = {}, s.shared = {}, s.ins = {}, s.del = {},
         s.at \notin Visiting \/ (q.op = "attach" /\ s.at # "insert")
  PROVE  Fits(q, s)
  BY DEF Fits, HasRoom, Sure, Apart, Visiting

LEMMA AtType ==
  ASSUME NEW where \in Places
  PROVE  /\ At(where) \in States
         /\ At(where).at = where /\ At(where).todo = <<>>
         /\ At(where).artists = {} /\ At(where).shared = {}
         /\ At(where).ins = {} /\ At(where).del = {}
<1>1. <<>> \in Seq(Rows)
  BY EmptySeq
<1>. QED
  BY <1>1 DEF At, States

\* Where a transaction may always go: back, or to its end.
LEMMA EndFits ==
  ASSUME NEW q \in Request, NEW where \in {"idle", "done"}
  PROVE  Fits(q, At(where))
<1>. DEFINE s == At(where)
<1>1. /\ s \in States /\ s.at = where /\ s.todo = <<>>
      /\ s.artists = {} /\ s.shared = {} /\ s.ins = {} /\ s.del = {}
  <2>1. where \in Places
    BY DEF Places
  <2>. QED
    BY <2>1, AtType
<1>2. where \in Labels(q) /\ where \notin Visiting /\ where # "rows" /\ where # "recheck"
  BY DEF Labels, Visiting
<1>3. s.todo \in Seq(ArtistRow)
  BY <1>1, EmptySeq
<1>. HIDE DEF s
<1>4. Local(q, s)
  BY <1>1, <1>2, <1>3 DEF Local
<1>. QED
  BY <1>1, <1>2, <1>4, EmptyHandsFit DEF s

\* What a label says of the request.
LEMMA LabelOfRequest ==
  ASSUME NEW q \in Request, NEW where, where \in Labels(q)
  PROVE  /\ where \in Places
         /\ where \in Visiting \union {"tag"} => Attacher(q)
         /\ where = "rows" => q.op = "bulk attach"
         /\ where \in {"duplicates", "repoint"} => q.op = "merge"
         /\ where = "lock tags" => q.op \in {"merge", "delete"}
         /\ where = "sweep" => ~Attacher(q)
         /\ where = "refused" => q.op = "attach"
         /\ where \in {"rename", "index", "collided"} => q.op = "rename"
<1>1. q.op \in {"attach", "bulk attach", "detach", "merge", "delete", "rename"}
  BY RequestFields
<1>. QED
  BY <1>1 DEF Labels, Places, Visiting, Attacher

\* A merge, delete, detach or rename that has written nothing yet.
LEMMA NothingWrittenFits ==
  ASSUME NEW q \in Request, ~Attacher(q), NEW s \in States, s.at \in Labels(q),
         s.artists = {}, s.shared = {}, s.ins = {}, s.del = {}
  PROVE  Fits(q, s)
<1>1. s.at \notin Visiting
  BY LabelOfRequest
<1>2. Local(q, s)
  BY DEF Local
<1>. QED
  BY <1>1, <1>2, EmptyHandsFit

LEMMA StartFits ==
  ASSUME NEW q \in Request, ~Attacher(q), NEW where \in Labels(q), NEW t \in Seq(Rows),
         NEW s, s = [At(where) EXCEPT !.todo = t]
  PROVE  Fits(q, s)
<1>1. where \in Places
  BY LabelOfRequest
<1>2. /\ s \in States /\ s.at = where
      /\ s.artists = {} /\ s.shared = {} /\ s.ins = {} /\ s.del = {}
  BY <1>1, AtType DEF States
<1>. QED
  BY <1>2, NothingWrittenFits

LEMMA BeginKeeps ==
  ASSUME CapInv, NEW q \in Request, Begin(q)
  PROVE  CapInv'
<1>1. links \subseteq Link /\ DOMAIN tagTable \subseteq TagRow /\ tx \in [Request -> States]
  BY DEF CapInv, Tables
<1>2. CASE q.op \in {"attach", "bulk attach"} /\ Moves(q, At("tag"))
  <2>. DEFINE s == At("tag")
  <2>1. "tag" \in Places /\ "tag" \notin Visiting /\ "tag" \in Labels(q)
    BY <1>2 DEF Places, Visiting, Labels
  <2>2. /\ s \in States /\ s.at = "tag" /\ s.todo = <<>>
        /\ s.artists = {} /\ s.shared = {} /\ s.ins = {} /\ s.del = {}
    BY <2>1, AtType
  <2>3. s.todo \in Seq(ArtistRow)
    BY <2>2, EmptySeq
  <2>. HIDE DEF s
  <2>4. Local(q, s)
    BY <1>2, <2>1, <2>2, <2>3 DEF Local, Attacher
  <2>5. Fits(q, s)
    BY <2>1, <2>2, <2>4, EmptyHandsFit
  <2>. QED
    BY <1>2, <2>5, MovesFit DEF s
<1>3. CASE q.op = "detach" /\ \E t \in Orders({l \in SeenLinks(q, q.tag) : l[1] \in q.artists}) :
             Moves(q, [At("sweep") EXCEPT !.todo = t])
  <2>1. PICK t \in Orders({l \in SeenLinks(q, q.tag) : l[1] \in q.artists}) :
           Moves(q, [At("sweep") EXCEPT !.todo = t])
    BY <1>3
  <2>2. {l \in SeenLinks(q, q.tag) : l[1] \in q.artists} \in SUBSET Link
    BY <1>1 DEF SeenLinks, States
  <2>3. t \in Seq(Rows)
    BY <2>2, RowOrders
  <2>4. ~Attacher(q) /\ "sweep" \in Labels(q)
    BY <1>3 DEF Attacher, Labels
  <2>5. Fits(q, [At("sweep") EXCEPT !.todo = t])
    BY <2>3, <2>4, StartFits
  <2>. QED
    BY <2>1, <2>5, MovesFit
<1>4. CASE q.op \in {"merge", "delete"} /\ \E S \in SUBSET TagRow : \E t \in Ascending(S) :
             Moves(q, [At("lock tags") EXCEPT !.todo = t])
  <2>1. PICK S \in SUBSET TagRow : \E t \in Ascending(S) :
           Moves(q, [At("lock tags") EXCEPT !.todo = t])
    BY <1>4
  <2>2. PICK t \in Ascending(S) : Moves(q, [At("lock tags") EXCEPT !.todo = t])
    BY <2>1
  <2>3. t \in Seq(Rows)
    BY AscendingIsAnOrder, RowOrders
  <2>4. ~Attacher(q) /\ "lock tags" \in Labels(q)
    BY <1>4 DEF Attacher, Labels
  <2>5. Fits(q, [At("lock tags") EXCEPT !.todo = t])
    BY <2>3, <2>4, StartFits
  <2>. QED
    BY <2>2, <2>5, MovesFit
<1>5. CASE q.op = "rename" /\ Moves(q, [At("rename") EXCEPT !.todo = <<q.tag>>])
  <2>1. <<q.tag>> \in Seq(Rows)
    <3>1. q.tag \in Rows
      BY <1>5, RequestFields DEF Rows
    <3>. QED
      BY <3>1
  <2>2. ~Attacher(q) /\ "rename" \in Labels(q)
    BY <1>5 DEF Attacher, Labels
  <2>3. Fits(q, [At("rename") EXCEPT !.todo = <<q.tag>>])
    BY <2>1, <2>2, StartFits
  <2>. QED
    BY <1>5, <2>3, MovesFit
<1>6. DOMAIN tagTable \intersect {q.tag, q.into} \in SUBSET TagRow
      /\ DOMAIN tagTable \intersect {q.tag} \in SUBSET TagRow
  BY <1>1
<1>. QED
  BY <1>2, <1>3, <1>4, <1>5, <1>6 DEF Begin

-----------------------------------------------------------------------------
(* Attaching.                                                              *)

LEMMA GotTagFits ==
  ASSUME NEW q \in Request, Attacher(q), NEW t \in TagRow, NEW made \in SUBSET {t},
         NEW o \in Ascending(q.artists)
  PROVE  Fits(q, GotTag(q, t, made, o))
<1>. DEFINE s == GotTag(q, t, made, o)
<1>1. q.artists \in SUBSET ArtistRow
  BY RequestFields
<1>2. o \in Seq(ArtistRow) /\ o \in Seq(Rows) /\ Range(o) = q.artists
      /\ (q.artists # {} => o # <<>>)
  BY <1>1, AscendingIsAnOrder, RowOrders
<1>3. AfterTag(q) \in Places
  BY DEF AfterTag, Places, Visiting
<1>4. /\ s \in States /\ s.at = AfterTag(q) /\ s.todo = o /\ s.tag = t
      /\ s.artists = {} /\ s.shared = {} /\ s.ins = {} /\ s.del = {}
  <2>. DEFINE fresh == At(AfterTag(q))
  <2>1. /\ fresh \in States /\ fresh.at = AfterTag(q)
        /\ fresh.artists = {} /\ fresh.shared = {} /\ fresh.ins = {} /\ fresh.del = {}
    BY <1>3, AtType
  <2>2. {t} \in SUBSET TagRow /\ made \in SUBSET TagRow
    OBVIOUS
  <2>3. s = [fresh EXCEPT !.tag = t, !.tags = {t}, !.made = made, !.todo = o]
    BY DEF GotTag
  <2>. HIDE DEF fresh, s
  <2>. QED
    BY <1>2, <2>1, <2>2, <2>3 DEF States
<1>. HIDE DEF s
<1>5. CASE q.op = "attach"
  <2>1. s.at = "check" /\ s.at \in Labels(q)
    BY <1>4, <1>5 DEF AfterTag, Labels, Visiting
  <2>2. o # <<>>
    <3>1. Cardinality(q.artists) = 1
      BY <1>5, LinksAssumption
    <3>2. q.artists # {}
      BY <3>1, FS_EmptySet
    <3>. QED
      BY <1>2, <3>2
  <2>3. Local(q, s)
    BY <1>2, <1>4, <1>5, <2>1, <2>2 DEF Local, Attacher
  <2>. QED
    BY <1>4, <1>5, <2>1, <2>3, EmptyHandsFit DEF s
<1>6. CASE q.op = "bulk attach"
  <2>1. s.at = "rows" /\ s.at \in Labels(q) /\ s.at \notin Visiting
    BY <1>4, <1>6 DEF AfterTag, Labels, Visiting
  <2>2. Local(q, s)
    BY <1>2, <1>4, <1>6, <2>1 DEF Local, Attacher
  <2>. QED
    BY <1>4, <2>1, <2>2, EmptyHandsFit DEF s
<1>. QED
  BY <1>5, <1>6 DEF Attacher

LEMMA GetTagKeeps ==
  ASSUME CapInv, NEW q \in Request, GetTag(q)
  PROVE  CapInv'
<1>1. PICK t \in Named(q.name), o \in Ascending(q.artists) : Moves(q, GotTag(q, t, {}, o))
  BY DEF GetTag
<1>2. t \in TagRow
  <2>1. DOMAIN tagTable \subseteq TagRow /\ \A r \in Request : tx[r].tags \subseteq TagRow
    BY DEF CapInv, Tables, States
  <2>. QED
    BY <2>1 DEF Named, Committed, Claimed
<1>3. Attacher(q)
  BY LabelOfRequest DEF GetTag, Proceeds, CapInv, Fits, Local
<1>4. Fits(q, GotTag(q, t, {}, o))
  BY <1>2, <1>3, GotTagFits
<1>. QED
  BY <1>1, <1>4, MovesFit

LEMMA CreateTagKeeps ==
  ASSUME CapInv, NEW q \in Request, CreateTag(q)
  PROVE  CapInv'
<1>1. PICK t \in TagRow, o \in Ascending(q.artists) :
         usedTags' = usedTags \union {t} /\ Changes(q, GotTag(q, t, {t}, o))
  BY DEF CreateTag
<1>2. Attacher(q)
  BY LabelOfRequest DEF CreateTag, Proceeds, CapInv, Fits, Local
<1>3. Fits(q, GotTag(q, t, {t}, o))
  BY <1>2, GotTagFits
<1>4. usedTags' \subseteq TagRow /\ UNCHANGED <<tagTable, links>>
  BY <1>1 DEF CapInv, Tables, CreateTag
<1>. QED
  BY <1>1, <1>3, <1>4, ChangesFit

\* A lock on an artist's row excludes the others.
LEMMA LockedAlone ==
  ASSUME CapInv, NEW q \in Request, Proceeds(q, {"rows", "artist"}), tx[q].todo # <<>>,
         NEW r \in Request \ {q}
  PROVE  Head(tx[q].todo) \notin tx[r].artists
  BY DEF Proceeds, WaitsFor, Visits

LEMMA LockRowKeeps ==
  ASSUME CapInv, NEW q \in Request, LockRow(q)
  PROVE  CapInv'
<1>. DEFINE s == [tx[q] EXCEPT !.artists = @ \union {Head(tx[q].todo)}, !.todo = Tail(@)]
<1>1. /\ Fits(q, tx[q]) /\ tx[q] \in States /\ tx[q].at = "rows" /\ tx[q].todo # <<>>
      /\ Moves(q, s)
  BY DEF LockRow, Proceeds, CapInv, Tables
<1>2. q.op = "bulk attach" /\ Attacher(q)
  BY <1>1, LabelOfRequest DEF Fits, Local, Attacher
<1>3. tx[q].todo \in Seq(ArtistRow)
  BY <1>1, <1>2 DEF Fits, Local
<1>4. Head(tx[q].todo) \in ArtistRow /\ Tail(tx[q].todo) \in Seq(ArtistRow)
      /\ Range(tx[q].todo) = {Head(tx[q].todo)} \union Range(Tail(tx[q].todo))
  BY <1>1, <1>3, RowsVisited
<1>5. Tail(tx[q].todo) \in Seq(Rows)
  BY <1>4, RowOrders
<1>6. /\ s \in States /\ s.at = "rows" /\ s.todo = Tail(tx[q].todo) /\ s.tag = tx[q].tag
      /\ s.artists = tx[q].artists \union {Head(tx[q].todo)}
      /\ s.shared = tx[q].shared /\ s.ins = tx[q].ins /\ s.del = tx[q].del
  BY <1>1, <1>4, <1>5 DEF States
<1>. HIDE DEF s
<1>7. Local(q, s)
  BY <1>1, <1>2, <1>4, <1>6 DEF Fits, Local, Visiting
<1>8. HasRoom(q, s)
  BY <1>1, <1>2, <1>6 DEF Fits, HasRoom, Sure, Visiting
<1>9. Apart(q, s)
  <2>1. \A r \in Request \ {q} : Head(tx[q].todo) \notin tx[r].artists
    BY <1>1, LockedAlone DEF LockRow, Proceeds
  <2>. QED
    BY <1>1, <1>6, <2>1 DEF Fits, Apart
<1>. QED
  BY <1>1, <1>7, <1>8, <1>9, MovesFit DEF Fits

LEMMA GuardedInsertKeeps ==
  ASSUME CapInv, NEW q \in Request, GuardedInsert(q)
  PROVE  CapInv'
<1>. DEFINE had  == {a \in q.artists : <<a, tx[q].tag>> \in links}
            room == {a \in q.artists \ had : Cardinality(Carried(a)) < MaxTags}
<1>1. /\ Fits(q, tx[q]) /\ tx[q] \in States /\ tx[q].at = "rows" /\ tx[q].todo = <<>>
  BY DEF GuardedInsert, Proceeds, CapInv, Tables
<1>2. q.op = "bulk attach" /\ Attacher(q) /\ q.artists \subseteq ArtistRow
  BY <1>1, LabelOfRequest, RequestFields DEF Fits, Local, Attacher
<1>3. q.artists \subseteq tx[q].artists
  <2>1. Range(<<>>) = {}
    BY DEF Range
  <2>. QED
    BY <1>1, <1>2, <2>1 DEF Fits, Local
<1>4. CASE Moves(q, At("done"))
  BY <1>4, EndFits, MovesFit
<1>5. CASE \E o \in Ascending(room) :
             Moves(q, [tx[q] EXCEPT !.at = IF room = {} THEN "commit" ELSE "check", !.todo = o])
  <2>1. PICK o \in Ascending(room) :
           Moves(q, [tx[q] EXCEPT !.at = IF room = {} THEN "commit" ELSE "check", !.todo = o])
    BY <1>5
  <2>. DEFINE s == [tx[q] EXCEPT !.at = IF room = {} THEN "commit" ELSE "check", !.todo = o]
  <2>2. room \in SUBSET ArtistRow
    BY <1>2
  <2>. HIDE DEF had
  <2>3. o \in Seq(ArtistRow) /\ o \in Seq(Rows) /\ Range(o) = room /\ (room # {} => o # <<>>)
    BY <2>2, AscendingIsAnOrder, RowOrders
  <2>4. \A a \in room : a \in tx[q].artists /\ Cardinality(Carried(a)) < MaxTags
    BY <1>3 DEF had
  <2>. HIDE DEF room
  <2>5. /\ s \in States /\ s.todo = o /\ s.tag = tx[q].tag /\ s.artists = tx[q].artists
        /\ s.shared = tx[q].shared /\ s.ins = tx[q].ins /\ s.del = tx[q].del
        /\ s.at = (IF room = {} THEN "commit" ELSE "check")
    BY <1>1, <2>3 DEF States, Places, Visiting
  <2>. HIDE DEF s
  <2>6. s.at \in Labels(q)
    BY <1>2, <2>5 DEF Labels, Visiting
  <2>7. Local(q, s)
    BY <1>1, <1>2, <2>3, <2>5, <2>6 DEF Fits, Local, Visiting
  <2>8. HasRoom(q, s)
    BY <1>1, <1>2, <2>3, <2>4, <2>5 DEF Fits, HasRoom, Sure, Visiting
  <2>9. Apart(q, s)
    BY <1>1, <2>5 DEF Fits, Apart
  <2>. QED
    BY <2>1, <2>7, <2>8, <2>9, MovesFit DEF Fits, s
<1>. QED
  BY <1>4, <1>5 DEF GuardedInsert

\* A request at a row of its insert.
LEMMA RowOfInsert ==
  ASSUME CapInv, NEW q \in Request, tx[q].at \in Visiting
  PROVE  /\ Attacher(q) /\ Fits(q, tx[q]) /\ tx[q] \in States
         /\ tx[q].todo \in Seq(ArtistRow) /\ tx[q].todo # <<>> /\ tx[q].tag \in TagRow
         /\ tx[q].del = {}
         /\ Head(tx[q].todo) \in ArtistRow
         /\ Tail(tx[q].todo) \in Seq(ArtistRow) /\ Tail(tx[q].todo) \in Seq(Rows)
         /\ Range(tx[q].todo) = {Head(tx[q].todo)} \union Range(Tail(tx[q].todo))
         /\ NewLink(q) \in Link
<1>1. Fits(q, tx[q]) /\ tx[q] \in States
  BY DEF CapInv, Tables
<1>2. Attacher(q)
  BY <1>1, LabelOfRequest DEF Fits, Local
<1>3. /\ tx[q].todo \in Seq(ArtistRow) /\ tx[q].todo # <<>> /\ tx[q].tag \in TagRow
      /\ tx[q].del = {}
  BY <1>1, <1>2 DEF Fits, Local
<1>4. /\ Head(tx[q].todo) \in ArtistRow /\ Tail(tx[q].todo) \in Seq(ArtistRow)
      /\ Range(tx[q].todo) = {Head(tx[q].todo)} \union Range(Tail(tx[q].todo))
  BY <1>3, RowsVisited
<1>5. Tail(tx[q].todo) \in Seq(Rows)
  BY <1>4, RowOrders
<1>6. NewLink(q) \in Link
  BY <1>3, <1>4 DEF NewLink, Link
<1>. QED
  BY <1>1, <1>2, <1>3, <1>4, <1>5, <1>6

\* The trigger's look at the link locks it, once no delete of it is in doubt.
LEMMA SharedFits ==
  ASSUME CapInv, NEW q \in Request, Proceeds(q, {"check", "recheck"}),
         NEW where \in Places,
         NEW s, s = [tx[q] EXCEPT !.shared = SharedIfFound(q), !.at = where]
  PROVE  /\ s \in States /\ s.at = where /\ s.shared = SharedIfFound(q)
         /\ s.todo = tx[q].todo /\ s.tag = tx[q].tag /\ s.artists = tx[q].artists
         /\ s.ins = tx[q].ins /\ s.del = {} /\ Apart(q, s)
<1>1. tx[q].at \in Visiting
  BY DEF Proceeds, Visiting
<1>2. SharedIfFound(q) \in SUBSET Link /\ SharedIfFound(q) \subseteq links
  BY <1>1, RowOfInsert DEF SharedIfFound, Fits, Apart, States
<1>3. /\ s \in States /\ s.at = where /\ s.shared = SharedIfFound(q)
      /\ s.todo = tx[q].todo /\ s.tag = tx[q].tag /\ s.artists = tx[q].artists
      /\ s.ins = tx[q].ins /\ s.del = {}
  BY <1>1, <1>2, RowOfInsert DEF States
<1>4. \A r \in Request \ {q} : NewLink(q) \notin tx[r].del
  BY <1>1, RowOfInsert DEF Proceeds, WaitsFor, Visits, InDoubt
<1>5. Apart(q, s)
  BY <1>1, <1>2, <1>3, <1>4, RowOfInsert DEF Fits, Apart, SharedIfFound
<1>. QED
  BY <1>3, <1>5

LEMMA CheckKeeps ==
  ASSUME CapInv, NEW q \in Request, Check(q)
  PROVE  CapInv'
<1>. DEFINE where == IF NewLink(q) \in links THEN "insert" ELSE "artist"
            s == [tx[q] EXCEPT !.shared = SharedIfFound(q), !.at = where]
<1>1. tx[q].at = "check" /\ tx[q].at \in Visiting /\ Proceeds(q, {"check", "recheck"})
      /\ Moves(q, s)
  BY DEF Check, Proceeds, Visiting
<1>2. where \in Places /\ where \in Visiting /\ where # "recheck" /\ where # "rows"
      /\ (where = "insert" => NewLink(q) \in links)
  BY DEF Places, Visiting
<1>. HIDE DEF where
<1>3. /\ s \in States /\ s.at = where /\ s.shared = SharedIfFound(q)
      /\ s.todo = tx[q].todo /\ s.tag = tx[q].tag /\ s.artists = tx[q].artists
      /\ s.ins = tx[q].ins /\ s.del = {} /\ Apart(q, s)
  BY <1>1, <1>2, SharedFits
<1>. HIDE DEF s
<1>4. where \in Labels(q)
  BY <1>1, <1>2, RowOfInsert DEF Labels, Attacher
<1>5. Local(q, s)
  BY <1>1, <1>2, <1>3, <1>4, RowOfInsert DEF Fits, Local, Attacher
<1>6. s.at = "insert" => <<Head(s.todo), s.tag>> \in s.shared
  BY <1>2, <1>3 DEF SharedIfFound, NewLink
<1>7. HasRoom(q, s)
  BY <1>1, <1>3, <1>6, RowOfInsert DEF Fits, HasRoom, Sure
<1>. QED
  BY <1>1, <1>3, <1>5, <1>7, MovesFit DEF Fits

LEMMA LockArtistKeeps ==
  ASSUME CapInv, NEW q \in Request, LockArtist(q)
  PROVE  CapInv'
<1>. DEFINE s == [tx[q] EXCEPT !.artists = @ \union {Head(tx[q].todo)}, !.at = "recheck"]
<1>1. tx[q].at = "artist" /\ tx[q].at \in Visiting /\ Proceeds(q, {"rows", "artist"})
      /\ Moves(q, s)
  BY DEF LockArtist, Proceeds, Visiting
<1>2. /\ s \in States /\ s.at = "recheck" /\ s.todo = tx[q].todo /\ s.tag = tx[q].tag
      /\ s.artists = tx[q].artists \union {Head(tx[q].todo)}
      /\ s.shared = tx[q].shared /\ s.ins = tx[q].ins /\ s.del = tx[q].del
  BY <1>1, RowOfInsert DEF States, Places, Visiting
<1>. HIDE DEF s
<1>3. s.at \in Labels(q) /\ s.at \in Visiting
  BY <1>1, <1>2, RowOfInsert DEF Labels, Attacher, Visiting
<1>4. Local(q, s)
  BY <1>1, <1>2, <1>3, RowOfInsert DEF Fits, Local, Attacher
<1>5. HasRoom(q, s)
  BY <1>1, <1>2, RowOfInsert DEF Fits, HasRoom, Sure
<1>6. \A r \in Request \ {q} : Head(tx[q].todo) \notin tx[r].artists
  BY <1>1, RowOfInsert, LockedAlone
<1>7. Apart(q, s)
  BY <1>1, <1>2, <1>6, RowOfInsert DEF Fits, Apart
<1>. QED
  BY <1>1, <1>4, <1>5, <1>7, MovesFit DEF Fits

LEMMA RecheckKeeps ==
  ASSUME CapInv, NEW q \in Request, Recheck(q)
  PROVE  CapInv'
<1>. DEFINE full == Cardinality(Carried(Head(tx[q].todo))) >= MaxTags
            where == IF NewLink(q) \notin links /\ full THEN "refused" ELSE "insert"
            s == [tx[q] EXCEPT !.shared = SharedIfFound(q), !.at = where]
<1>1. tx[q].at = "recheck" /\ tx[q].at \in Visiting /\ Proceeds(q, {"check", "recheck"})
      /\ Moves(q, s)
  BY DEF Recheck, Proceeds, Visiting
<1>2. where \in Places /\ where # "recheck" /\ where # "rows"
  BY DEF Places, Visiting
<1>3. ASSUME q.op = "bulk attach" PROVE where = "insert"
  <2>1. Sure(q, tx[q], Head(tx[q].todo))
    BY <1>1, <1>3, RowOfInsert DEF Sure
  <2>2. Cardinality(Carried(Head(tx[q].todo))) < MaxTags
    BY <1>1, <2>1, RowOfInsert DEF Fits, HasRoom
  <2>3. Cardinality(Carried(Head(tx[q].todo))) \in Nat
    BY CarriedFinite
  <2>4. MaxTags \in Nat
    BY LinksAssumption
  <2>5. ~full
    BY <2>2, <2>3, <2>4
  <2>. QED
    BY <2>5
<1>4. where = "insert" /\ NewLink(q) \notin links =>
        Cardinality(Carried(Head(tx[q].todo))) < MaxTags
  <2>1. Cardinality(Carried(Head(tx[q].todo))) \in Nat
    BY CarriedFinite
  <2>2. MaxTags \in Nat
    BY LinksAssumption
  <2>. QED
    BY <2>1, <2>2
<1>5. where \in Labels(q)
  BY <1>1, <1>3, RowOfInsert DEF Labels, Attacher, Visiting
<1>. HIDE DEF where
<1>6. /\ s \in States /\ s.at = where /\ s.shared = SharedIfFound(q)
      /\ s.todo = tx[q].todo /\ s.tag = tx[q].tag /\ s.artists = tx[q].artists
      /\ s.ins = tx[q].ins /\ s.del = {} /\ Apart(q, s)
  BY <1>1, <1>2, SharedFits
<1>. HIDE DEF s
<1>7. Local(q, s)
  BY <1>1, <1>2, <1>5, <1>6, RowOfInsert DEF Fits, Local, Attacher
<1>8. Head(tx[q].todo) \in tx[q].artists
  BY <1>1, RowOfInsert DEF Fits, Local
<1>9. NewLink(q) \in links => <<Head(s.todo), s.tag>> \in s.shared
  BY <1>6 DEF SharedIfFound, NewLink
<1>10. HasRoom(q, s)
  BY <1>1, <1>4, <1>6, <1>8, <1>9, RowOfInsert DEF Fits, HasRoom, Sure
<1>. QED
  BY <1>1, <1>6, <1>7, <1>10, MovesFit DEF Fits

LEMMA InsertLinkKeeps ==
  ASSUME CapInv, NEW q \in Request, InsertLink(q)
  PROVE  CapInv'
<1>. DEFINE where == IF Tail(tx[q].todo) = <<>> THEN "commit" ELSE "check"
            s == [tx[q] EXCEPT !.ins = @ \union ({NewLink(q)} \ links), !.todo = Tail(@),
                               !.at = where]
<1>1. tx[q].at = "insert" /\ tx[q].at \in Visiting /\ Moves(q, s)
  BY DEF InsertLink, Proceeds, Visiting
<1>2. where \in Places /\ where # "recheck" /\ where # "rows" /\ where # "insert"
      /\ where \in {"commit", "check"}
      /\ (where = "check" => Tail(tx[q].todo) # <<>>)
  BY DEF Places, Visiting
<1>. HIDE DEF where
<1>3. /\ s \in States /\ s.at = where /\ s.shared = tx[q].shared
      /\ s.todo = Tail(tx[q].todo) /\ s.tag = tx[q].tag /\ s.artists = tx[q].artists
      /\ s.ins = tx[q].ins \union ({NewLink(q)} \ links) /\ s.del = {}
  <2>1. {NewLink(q)} \ links \in SUBSET Link
    BY <1>1, RowOfInsert
  <2>2. tx[q] \in States /\ Tail(tx[q].todo) \in Seq(Rows) /\ tx[q].del = {}
    BY <1>1, RowOfInsert
  <2>. QED
    BY <1>2, <2>1, <2>2 DEF States
<1>. HIDE DEF s
<1>4. where \in Labels(q)
  BY <1>1, <1>2, RowOfInsert DEF Labels, Attacher, Visiting
<1>5. NewLink(q)[2] = tx[q].tag
  BY DEF NewLink
<1>6. where \in Visiting => Tail(tx[q].todo) # <<>>
  BY <1>2 DEF Visiting
<1>7. Local(q, s)
  BY <1>1, <1>2, <1>3, <1>4, <1>5, <1>6, RowOfInsert DEF Fits, Local, Attacher
<1>8. ASSUME NEW a \in ArtistRow, Sure(q, s, a) PROVE Sure(q, tx[q], a)
  <2>1. tx[q].shared \subseteq links
    BY <1>1, RowOfInsert DEF Fits, Apart
  <2>2. <<a, tx[q].tag>> = NewLink(q) => a = Head(tx[q].todo)
    BY DEF NewLink
  <2>. QED
    BY <1>1, <1>2, <1>3, <1>8, <2>1, <2>2, RowOfInsert DEF Sure
<1>9. HasRoom(q, s)
  BY <1>1, <1>3, <1>8, RowOfInsert DEF Fits, HasRoom
<1>10. Apart(q, s)
  BY <1>1, <1>3, RowOfInsert DEF Fits, Apart
<1>. QED
  BY <1>1, <1>7, <1>9, <1>10, MovesFit DEF Fits

-----------------------------------------------------------------------------
(* Merging, deleting, detaching and renaming.                              *)

\* A step that writes no link.
LEMMA NoLinkWrittenFits ==
  ASSUME CapInv, NEW q \in Request, ~Attacher(q), NEW s \in States, s.at \in Labels(q),
         s.artists = tx[q].artists, s.shared = tx[q].shared,
         s.ins = tx[q].ins, s.del = tx[q].del
  PROVE  Fits(q, s)
<1>1. Fits(q, tx[q])
  BY DEF CapInv
<1>. QED
  BY <1>1 DEF Fits, Local, HasRoom, Apart

LEMMA LockTagKeeps ==
  ASSUME CapInv, NEW q \in Request, LockTag(q)
  PROVE  CapInv'
<1>. DEFINE s == [tx[q] EXCEPT !.todo = Tail(@),
                    !.tags = @ \union (DOMAIN tagTable \intersect {Head(tx[q].todo)})]
<1>1. /\ tx[q] \in States /\ tx[q].at = "lock tags" /\ tx[q].at \in Labels(q)
      /\ tx[q].todo \in Seq(Rows) /\ tx[q].todo # <<>> /\ DOMAIN tagTable \subseteq TagRow
      /\ Moves(q, s)
  BY DEF LockTag, Proceeds, CapInv, Tables, Fits, Local, States
<1>2. ~Attacher(q)
  BY <1>1, LabelOfRequest DEF Attacher
<1>3. Tail(tx[q].todo) \in Seq(Rows)
  BY <1>1, RowsVisited
<1>4. /\ s \in States /\ s.at = tx[q].at /\ s.artists = tx[q].artists
      /\ s.shared = tx[q].shared /\ s.ins = tx[q].ins /\ s.del = tx[q].del
  BY <1>1, <1>3 DEF States
<1>. QED
  BY <1>1, <1>2, <1>4, NoLinkWrittenFits, MovesFit

LEMMA NextStatementKeeps ==
  ASSUME CapInv, NEW q \in Request, NextStatement(q)
  PROVE  CapInv'
<1>1. tx[q] \in States /\ tx[q].at \in Labels(q) /\ links \subseteq Link
      /\ tx[q].ins \subseteq Link
  BY DEF CapInv, Tables, Fits, Local, States
<1>2. SeenLinks(q, q.tag) \in SUBSET Link /\ Duplicates(q) \in SUBSET Link
  BY <1>1 DEF SeenLinks, Duplicates
<1>3. tx[q].at \in {"lock tags", "duplicates", "repoint", "sweep"}
  BY DEF NextStatement
<1>4. ~Attacher(q) /\ q.op \in {"attach", "bulk attach", "detach", "merge", "delete", "rename"}
  BY <1>1, <1>3, LabelOfRequest, RequestFields DEF Attacher
<1>5. CASE Moves(q, At("done"))
  BY <1>5, EndFits, MovesFit
<1>6. CASE Moves(q, [tx[q] EXCEPT !.at = "commit"])
  <2>. DEFINE s == [tx[q] EXCEPT !.at = "commit"]
  <2>1. /\ s \in States /\ s.at = "commit" /\ s.artists = tx[q].artists
        /\ s.shared = tx[q].shared /\ s.ins = tx[q].ins /\ s.del = tx[q].del
    BY <1>1 DEF States, Places
  <2>2. "commit" \in Labels(q)
    BY <1>4 DEF Labels
  <2>. QED
    BY <1>4, <1>6, <2>1, <2>2, NoLinkWrittenFits, MovesFit
<1>7. ASSUME NEW where \in Labels(q), NEW S \in SUBSET Link, NEW o \in Orders(S),
             Moves(q, [tx[q] EXCEPT !.at = where, !.todo = o])
      PROVE  CapInv'
  <2>. DEFINE s == [tx[q] EXCEPT !.at = where, !.todo = o]
  <2>1. where \in Places /\ o \in Seq(Rows)
    BY LabelOfRequest, RowOrders
  <2>2. /\ s \in States /\ s.at = where /\ s.artists = tx[q].artists
        /\ s.shared = tx[q].shared /\ s.ins = tx[q].ins /\ s.del = tx[q].del
    BY <1>1, <2>1 DEF States
  <2>. QED
    BY <1>4, <1>7, <2>2, NoLinkWrittenFits, MovesFit
<1>8. q.op \in {"merge", "delete"} => "sweep" \in Labels(q)
  BY DEF Labels
<1>9. q.op = "merge" => "duplicates" \in Labels(q) /\ "repoint" \in Labels(q)
  BY DEF Labels
<1>10. tx[q].at \in {"duplicates", "repoint"} => q.op = "merge"
  BY <1>1, LabelOfRequest
<1>11. CASE tx[q].at = "lock tags" /\ ~Moves(q, At("done"))
  BY <1>2, <1>7, <1>8, <1>9, <1>11 DEF NextStatement
<1>12. CASE tx[q].at = "duplicates"
  BY <1>2, <1>7, <1>9, <1>10, <1>12 DEF NextStatement
<1>13. CASE tx[q].at = "repoint"
  BY <1>2, <1>7, <1>8, <1>10, <1>13 DEF NextStatement
<1>14. CASE tx[q].at = "sweep"
  BY <1>6, <1>14 DEF NextStatement
<1>. QED
  BY <1>3, <1>5, <1>11, <1>12, <1>13, <1>14

\* The row a delete or a repoint is at, once it waits for nobody.
LEMMA RowAlone ==
  ASSUME CapInv, NEW q \in Request, tx[q].todo # <<>>,
         Proceeds(q, {"duplicates", "repoint", "sweep"}), NEW r \in Request \ {q}
  PROVE  Head(tx[q].todo) \notin tx[r].shared /\ Head(tx[q].todo) \notin tx[r].del
  BY DEF Proceeds, WaitsFor, Visits, Written

LEMMA RowOfDelete ==
  ASSUME CapInv, NEW q \in Request, tx[q].at \in {"duplicates", "repoint", "sweep"},
         tx[q].todo # <<>>
  PROVE  /\ ~Attacher(q) /\ Fits(q, tx[q]) /\ tx[q] \in States
         /\ Tail(tx[q].todo) \in Seq(Rows)
         /\ tx[q].at = "repoint" => q.op = "merge" /\ q.into \in TagRow
<1>1. Fits(q, tx[q]) /\ tx[q] \in States /\ tx[q].todo \in Seq(Rows)
  BY DEF CapInv, Tables, States
<1>2. ~Attacher(q) /\ (tx[q].at = "repoint" => q.op = "merge" /\ q.into \in TagRow)
  BY <1>1, LabelOfRequest, RequestFields DEF Fits, Local, Attacher
<1>3. Tail(tx[q].todo) \in Seq(Rows)
  BY <1>1, RowsVisited
<1>. QED
  BY <1>1, <1>2, <1>3

LEMMA DeleteLinkKeeps ==
  ASSUME CapInv, NEW q \in Request, DeleteLink(q)
  PROVE  CapInv'
<1>. DEFINE gone == links \intersect {Head(tx[q].todo)}
            s == [tx[q] EXCEPT !.todo = Tail(@), !.del = @ \union gone]
<1>1. /\ tx[q].at \in {"duplicates", "repoint", "sweep"} /\ tx[q].todo # <<>> /\ Moves(q, s)
      /\ Proceeds(q, {"duplicates", "repoint", "sweep"}) /\ links \subseteq Link
  BY DEF DeleteLink, Proceeds, CapInv, Tables
<1>2. /\ s \in States /\ s.at = tx[q].at /\ s.artists = tx[q].artists
      /\ s.shared = tx[q].shared /\ s.ins = tx[q].ins /\ s.del = tx[q].del \union gone
  BY <1>1, RowOfDelete DEF States
<1>. HIDE DEF s
<1>3. Local(q, s)
  BY <1>1, <1>2, RowOfDelete DEF Fits, Local
<1>4. Apart(q, s)
  BY <1>1, <1>2, RowOfDelete, RowAlone DEF Fits, Local, Apart
<1>5. HasRoom(q, s)
  BY <1>1, RowOfDelete DEF HasRoom
<1>. QED
  BY <1>1, <1>3, <1>4, <1>5, MovesFit DEF Fits

LEMMA RepointLinkKeeps ==
  ASSUME CapInv, NEW q \in Request, RepointLink(q)
  PROVE  CapInv'
<1>. DEFINE moved == links \intersect {Head(tx[q].todo)}
            s == [tx[q] EXCEPT !.todo = Tail(@), !.del = @ \union moved,
                               !.ins = @ \union {Repointed(q) : l \in moved}]
            refused == [tx[q] EXCEPT !.at = "duplicate key"]
<1>1. /\ tx[q].at = "repoint" /\ tx[q].todo # <<>>
      /\ Proceeds(q, {"duplicates", "repoint", "sweep"}) /\ links \subseteq Link
      /\ Moves(q, s) \/ Moves(q, refused)
  BY DEF RepointLink, Proceeds, CapInv, Tables
<1>2. CASE Moves(q, refused)
  <2>0. "duplicate key" \in Places
    BY DEF Places
  <2>1. /\ refused \in States /\ refused.at = "duplicate key"
        /\ refused.artists = tx[q].artists /\ refused.shared = tx[q].shared
        /\ refused.ins = tx[q].ins /\ refused.del = tx[q].del
    BY <1>1, <2>0, RowOfDelete DEF States
  <2>2. "duplicate key" \in Labels(q)
    BY <1>1, RowOfDelete DEF Labels
  <2>. QED
    BY <1>1, <1>2, <2>1, <2>2, RowOfDelete, NoLinkWrittenFits, MovesFit
<1>3. CASE Moves(q, s)
  <2>. DEFINE new == {Repointed(q) : l \in moved}
  <2>1. \A l \in new : l = Repointed(q) /\ Head(tx[q].todo) \in moved
    OBVIOUS
  <2>2. Head(tx[q].todo) \in moved => Repointed(q) \in Link
    <3>1. q.into \in TagRow
      BY <1>1, RowOfDelete
    <3>. QED
      BY <1>1, <3>1 DEF Repointed, Link
  <2>3. new \in SUBSET Link
    BY <2>1, <2>2
  <2>4. Repointed(q)[1] = Head(tx[q].todo)[1] /\ Repointed(q)[2] = q.into
    BY DEF Repointed
  <2>5. \A l \in new : l[2] = q.into /\ \E d \in moved : d[1] = l[1]
    BY <2>1, <2>4
  <2>6. moved \in SUBSET Link
    BY <1>1
  <2>. HIDE DEF new, moved
  <2>7. /\ s \in States /\ s.at = tx[q].at /\ s.artists = tx[q].artists
        /\ s.shared = tx[q].shared /\ s.ins = tx[q].ins \union new
        /\ s.del = tx[q].del \union moved
    <3>1. tx[q] \in States /\ Tail(tx[q].todo) \in Seq(Rows)
      BY <1>1, RowOfDelete
    <3>. QED
      BY <2>3, <2>6, <3>1 DEF States, new
  <2>. HIDE DEF s
  <2>8. /\ q.op = "merge" /\ ~Attacher(q) /\ tx[q].shared = {}
        /\ Local(q, tx[q]) /\ Apart(q, tx[q])
    BY <1>1, RowOfDelete DEF Fits, Local
  <2>9. tx[q].at \in Labels(q)
    BY <2>8 DEF Local
  <2>10. Local(q, s)
    <3>1. \A l \in s.ins : l[2] = q.into /\ \E d \in s.del : d[1] = l[1]
      BY <2>5, <2>7, <2>8 DEF Local
    <3>. QED
      BY <2>7, <2>8, <2>9, <3>1 DEF Local
  <2>11. \A r \in Request \ {q} : moved \intersect tx[r].del = {} /\ moved \intersect tx[r].shared = {}
    BY <1>1, RowAlone DEF moved
  <2>12. moved \subseteq links
    BY DEF moved
  <2>13. Apart(q, s)
    BY <2>7, <2>8, <2>11, <2>12 DEF Apart
  <2>14. HasRoom(q, s)
    BY <2>8 DEF HasRoom
  <2>. QED
    BY <1>3, <2>10, <2>13, <2>14, MovesFit DEF Fits, s, new, moved
<1>. QED
  BY <1>1, <1>2, <1>3

LEMMA RenamesKeep ==
  ASSUME CapInv, NEW q \in Request, Renames(q)
  PROVE  CapInv'
<1>1. tx[q] \in States /\ tx[q].at \in Labels(q) /\ DOMAIN tagTable \subseteq TagRow
  BY DEF CapInv, Tables, Fits, Local
<1>2. tx[q].at \in {"rename", "index", "collided"}
  BY DEF Renames, RenameRow, IndexName, GetCollider, Proceeds
<1>3. q.op = "rename" /\ ~Attacher(q) /\ q.tag \in TagRow
  BY <1>1, <1>2, LabelOfRequest, RequestFields DEF Attacher
<1>4. /\ {"done", "index", "commit", "collided", "rename"} \subseteq Labels(q)
      /\ {"done", "index", "commit", "collided", "rename"} \subseteq Places
  BY <1>3 DEF Labels, Places
<1>5. \A w \in Places : /\ At(w) \in States /\ At(w).at = w
                        /\ At(w).artists = {} /\ At(w).shared = {}
                        /\ At(w).ins = {} /\ At(w).del = {}
  BY AtType
<1>6. <<>> \in Seq(Rows) /\ <<q.tag>> \in Seq(Rows)
  <2>1. q.tag \in Rows
    BY <1>3 DEF Rows
  <2>. QED
    BY <2>1, EmptySeq
<1>7. CASE Moves(q, At("done"))
  BY <1>7, EndFits, MovesFit
<1>8. CASE Moves(q, [tx[q] EXCEPT !.at = "index", !.todo = <<>>, !.tags = {q.tag}])
  <2>. DEFINE s == [tx[q] EXCEPT !.at = "index", !.todo = <<>>, !.tags = {q.tag}]
  <2>1. {q.tag} \in SUBSET TagRow
    BY <1>3
  <2>2. /\ s \in States /\ s.at = "index" /\ s.artists = tx[q].artists
        /\ s.shared = tx[q].shared /\ s.ins = tx[q].ins /\ s.del = tx[q].del
    BY <1>1, <1>4, <1>6, <2>1 DEF States
  <2>. QED
    BY <1>3, <1>4, <1>8, <2>2, NoLinkWrittenFits, MovesFit
<1>9. CASE Moves(q, [tx[q] EXCEPT !.at = "commit"])
  <2>. DEFINE s == [tx[q] EXCEPT !.at = "commit"]
  <2>1. /\ s \in States /\ s.at = "commit" /\ s.artists = tx[q].artists
        /\ s.shared = tx[q].shared /\ s.ins = tx[q].ins /\ s.del = tx[q].del
    BY <1>1, <1>4 DEF States
  <2>. QED
    BY <1>3, <1>4, <1>9, <2>1, NoLinkWrittenFits, MovesFit
<1>10. CASE Moves(q, At("collided"))
  BY <1>3, <1>4, <1>5, <1>10, NothingWrittenFits, MovesFit
<1>11. ASSUME NEW t \in TagRow, Moves(q, [At("done") EXCEPT !.target = t]) PROVE CapInv'
  <2>. DEFINE s == [At("done") EXCEPT !.target = t]
  <2>1. /\ s \in States /\ s.at = "done" /\ s.artists = {}
        /\ s.shared = {} /\ s.ins = {} /\ s.del = {}
    BY <1>4, <1>5 DEF States
  <2>. QED
    BY <1>3, <1>4, <1>11, <2>1, NothingWrittenFits, MovesFit
<1>12. CASE Moves(q, [At("rename") EXCEPT !.todo = <<q.tag>>, !.retried = TRUE])
  <2>. DEFINE s == [At("rename") EXCEPT !.todo = <<q.tag>>, !.retried = TRUE]
              fresh == At("rename")
  <2>1. /\ s \in States /\ s.at = "rename" /\ s.artists = {}
        /\ s.shared = {} /\ s.ins = {} /\ s.del = {}
    <3>1. /\ fresh \in States /\ fresh.at = "rename" /\ fresh.artists = {}
          /\ fresh.shared = {} /\ fresh.ins = {} /\ fresh.del = {}
      BY <1>4, <1>5
    <3>2. s = [fresh EXCEPT !.todo = <<q.tag>>, !.retried = TRUE]
      OBVIOUS
    <3>. HIDE DEF fresh, s
    <3>. QED
      BY <1>6, <3>1, <3>2 DEF States
  <2>. QED
    BY <1>3, <1>4, <1>12, <2>1, NothingWrittenFits, MovesFit
<1>13. CASE RenameRow(q)
  BY <1>7, <1>8, <1>13 DEF RenameRow
<1>14. CASE IndexName(q)
  <2>1. Moves(q, [tx[q] EXCEPT !.at = "commit"]) \/ Moves(q, At("done")) \/ Moves(q, At("collided"))
    BY <1>14 DEF IndexName
  <2>. QED
    BY <1>7, <1>9, <1>10, <2>1
<1>15. CASE GetCollider(q)
  <2>1. Committed(q.name) \subseteq TagRow
    BY <1>1 DEF Committed
  <2>. QED
    BY <1>11, <1>12, <1>15, <2>1 DEF GetCollider
<1>. QED
  BY <1>13, <1>14, <1>15 DEF Renames

-----------------------------------------------------------------------------
(* Commits.                                                                *)

\* A commit adds a link to an artist only in place of another one, or with the
\* artist's row locked and room for it.
LEMMA CommitGrowth ==
  ASSUME CapInv, NEW q \in Request, Commit(q), NEW a \in ArtistRow
  PROVE  /\ Cardinality(Carried(a)') \in Nat
         /\ \/ Cardinality(Carried(a)') <= Cardinality(Carried(a))
            \/ /\ a \in tx[q].artists
               /\ Cardinality(Carried(a)) < MaxTags
               /\ Cardinality(Carried(a)') <= Cardinality(Carried(a)) + 1
<1>. DEFINE C == Carried(a)
            D == Carried(a)'
<1>1. /\ Local(q, tx[q]) /\ HasRoom(q, tx[q]) /\ Apart(q, tx[q]) /\ links \subseteq Link
      /\ tx[q].ins \subseteq Link
  BY DEF CapInv, Tables, Fits, Local, States
<1>2. D = {t \in TagRow : <<a, t>> \in (links \ tx[q].del) \union tx[q].ins}
  BY DEF Commit, Carried
<1>3. C = {t \in TagRow : <<a, t>> \in links}
  BY DEF Carried
<1>4. IsFiniteSet(C) /\ Cardinality(C) \in Nat
  BY CarriedFinite
<1>5. IsFiniteSet(TagRow) /\ D \in SUBSET TagRow
  BY <1>2, LinksAssumption
<1>6. IsFiniteSet(D)
  BY <1>5, FS_Subset
<1>7. Cardinality(D) \in Nat
  BY <1>6, FS_CardinalityType
<1>. HIDE DEF C, D
<1>8. CASE \A l \in tx[q].ins : l[1] # a
  <2>1. D \in SUBSET C
    BY <1>2, <1>3, <1>8
  <2>. QED
    BY <1>4, <1>7, <2>1, FS_Subset DEF C, D
<1>9. CASE Attacher(q) /\ \E l \in tx[q].ins : l[1] = a
  <2>1. PICK l \in tx[q].ins : l[1] = a
    BY <1>9
  <2>2. l[2] = tx[q].tag /\ l = <<l[1], l[2]>>
    BY <1>1, <1>9 DEF Local, Link
  <2>3. Sure(q, tx[q], a)
    BY <2>1, <2>2 DEF Sure
  <2>4. a \in tx[q].artists /\ Cardinality(C) < MaxTags
    BY <1>1, <1>9, <2>3 DEF HasRoom, C
  <2>5. \A t : <<a, t>> \in tx[q].ins => t = tx[q].tag
    BY <1>1, <1>9 DEF Local
  <2>6. D \in SUBSET (C \union {tx[q].tag})
    BY <1>2, <1>3, <2>5
  <2>7. IsFiniteSet(C \union {tx[q].tag}) /\ Cardinality(C \union {tx[q].tag}) <= Cardinality(C) + 1
        /\ Cardinality(C \union {tx[q].tag}) \in Nat
    BY <1>4, OneMore
  <2>8. Cardinality(D) <= Cardinality(C \union {tx[q].tag})
    BY <2>6, <2>7, FS_Subset
  <2>9. Cardinality(D) <= Cardinality(C) + 1
    BY <1>4, <1>7, <2>7, <2>8
  <2>. QED
    BY <1>7, <2>4, <2>9 DEF C, D
<1>10. CASE ~Attacher(q) /\ \E l \in tx[q].ins : l[1] = a
  <2>1. PICK l \in tx[q].ins : l[1] = a
    BY <1>10
  <2>2. q.op = "merge"
    BY <1>1, <1>10, <2>1 DEF Local
  <2>3. PICK d \in tx[q].del : d[1] = a
    BY <1>1, <2>1, <2>2 DEF Local
  <2>4. d \in links /\ d = <<a, d[2]>> /\ d[2] \in TagRow
    BY <1>1, <2>3 DEF Apart, Link
  <2>5. d[2] \in C
    BY <1>3, <2>4
  <2>6. \A t : <<a, t>> \in tx[q].ins => t = q.into
    BY <1>1, <2>2 DEF Local
  <2>7. D \in SUBSET ((C \ {d[2]}) \union {q.into})
    <3>1. ASSUME NEW t \in D, t # q.into PROVE t \in C \ {d[2]}
      BY <1>2, <1>3, <2>3, <2>4, <2>6, <3>1
    <3>. QED
      BY <3>1
  <2>8. IsFiniteSet(C \ {d[2]}) /\ Cardinality(C \ {d[2]}) = Cardinality(C) - 1
    BY <1>4, <2>5, FS_RemoveElement
  <2>9. Cardinality(C \ {d[2]}) \in Nat
    BY <2>8, FS_CardinalityType
  <2>10. IsFiniteSet((C \ {d[2]}) \union {q.into})
         /\ Cardinality((C \ {d[2]}) \union {q.into}) <= Cardinality(C \ {d[2]}) + 1
         /\ Cardinality((C \ {d[2]}) \union {q.into}) \in Nat
    BY <2>8, OneMore
  <2>11. Cardinality(D) <= Cardinality((C \ {d[2]}) \union {q.into})
    BY <2>7, <2>10, FS_Subset
  <2>12. Cardinality(D) <= Cardinality(C)
    BY <1>4, <1>7, <2>8, <2>9, <2>10, <2>11
  <2>. QED
    BY <1>7, <2>12 DEF C, D
<1>. QED
  BY <1>8, <1>9, <1>10

LEMMA CommitKeeps ==
  ASSUME CapInv, NEW q \in Request, Commit(q)
  PROVE  CapInv'
<1>1. /\ tx \in [Request -> States] /\ Fits(q, tx[q]) /\ links \subseteq Link
      /\ DOMAIN tagTable \subseteq TagRow /\ usedTags \subseteq TagRow
  BY DEF CapInv, Tables
<1>2. Fits(q, At("done"))
  BY EndFits
<1>3. tx' \in [Request -> States]
      /\ \A r \in Request : tx'[r] = IF r = q THEN At("done") ELSE tx[r]
  BY <1>1, <1>2 DEF Commit, Changes, Fits, Local
<1>4. links' = (links \ tx[q].del) \union tx[q].ins /\ usedTags' = usedTags
  BY DEF Commit
<1>5. Tables'
  <2>1. tx[q].ins \subseteq Link /\ tx[q].made \subseteq TagRow
    BY <1>1 DEF States
  <2>2. TagsNamed(q) \subseteq TagRow
    BY <2>1, RequestFields DEF TagsNamed
  <2>3. DOMAIN tagTable' \subseteq TagRow
    BY <1>1, <2>2 DEF Commit
  <2>. QED
    BY <1>1, <1>3, <1>4, <2>1, <2>3 DEF Tables
<1>6. MaxTags \in Nat
  BY LinksAssumption
<1>7. \A a : Cardinality(Carried(a)) \in Nat
  BY CarriedFinite
<1>8. ASSUME NEW a \in ArtistRow PROVE Cardinality(Carried(a)') <= MaxTags
  <2>1. Cardinality(Carried(a)) <= MaxTags
    BY DEF CapInv, CapHolds
  <2>. QED
    BY <1>6, <1>7, <2>1, CommitGrowth
<1>9. CapHolds'
  BY <1>8 DEF CapHolds
<1>10. ASSUME NEW r \in Request PROVE Fits(r, tx[r])'
  <2>1. Fits(r, tx[r])
    BY DEF CapInv
  <2>2. Local(r, tx[r])'
    BY <1>2, <1>3, <2>1 DEF Fits, Local
  <2>3. CASE r = q
    <3>1. /\ tx'[r] = At("done") /\ tx'[r].at = "done" /\ tx'[r].artists = {}
          /\ tx'[r].shared = {} /\ tx'[r].ins = {} /\ tx'[r].del = {}
      <4>1. "done" \in Places
        BY DEF Places
      <4>. QED
        BY <1>3, <2>3, <4>1, AtType
    <3>2. HasRoom(r, tx[r])'
      BY <3>1 DEF HasRoom, Sure, Visiting
    <3>3. Apart(r, tx[r])'
      BY <3>1 DEF Apart
    <3>. QED
      BY <2>2, <3>2, <3>3 DEF Fits
  <2>4. CASE r # q
    <3>1. tx'[r] = tx[r] /\ Apart(r, tx[r]) /\ HasRoom(r, tx[r])
      BY <1>3, <2>1, <2>4 DEF Fits
    <3>2. HasRoom(r, tx[r])'
      <4>1. ASSUME NEW a \in ArtistRow, Attacher(r), Sure(r, tx[r], a)
            PROVE  a \in tx[r].artists /\ Cardinality(Carried(a)') < MaxTags
        <5>1. a \in tx[r].artists /\ Cardinality(Carried(a)) < MaxTags
          BY <3>1, <4>1 DEF HasRoom
        <5>2. a \notin tx[q].artists
          BY <2>4, <3>1, <5>1 DEF Apart
        <5>3. Cardinality(Carried(a)') <= Cardinality(Carried(a))
              /\ Cardinality(Carried(a)') \in Nat
          BY <5>2, CommitGrowth
        <5>. QED
          BY <1>6, <1>7, <5>1, <5>3
      <4>2. \A a : Sure(r, tx[r], a)' <=> Sure(r, tx[r], a)
        BY <3>1 DEF Sure
      <4>. QED
        BY <3>1, <4>1, <4>2 DEF HasRoom
    <3>3. tx[r].del \subseteq links' /\ tx[r].shared \subseteq links'
      BY <1>4, <2>4, <3>1 DEF Apart
    <3>4. ASSUME NEW h \in Request \ {r}
          PROVE  /\ tx'[r].artists \intersect tx'[h].artists = {}
                 /\ tx'[r].del \intersect tx'[h].del = {}
                 /\ tx'[r].shared \intersect tx'[h].del = {}
                 /\ tx'[r].del \intersect tx'[h].shared = {}
      <4>1. CASE h = q
        <5>1. /\ tx'[h].artists = {} /\ tx'[h].del = {} /\ tx'[h].shared = {}
          <6>1. "done" \in Places
            BY DEF Places
          <6>. QED
            BY <1>3, <4>1, <6>1, AtType
        <5>. QED
          BY <5>1
      <4>2. CASE h # q
        BY <1>3, <3>1, <4>2 DEF Apart
      <4>. QED
        BY <4>1, <4>2
    <3>5. Apart(r, tx[r])'
      BY <3>1, <3>3, <3>4 DEF Apart
    <3>. QED
      BY <2>2, <3>2, <3>5 DEF Fits
  <2>. QED
    BY <2>3, <2>4
<1>. QED
  BY <1>5, <1>9, <1>10 DEF CapInv

-----------------------------------------------------------------------------
(* The invariant and what follows from it.                                 *)

LEMMA InitFits == LinksInit => CapInv
<1>. SUFFICES ASSUME LinksInit PROVE CapInv
  OBVIOUS
<1>1. \A q \in Request : tx[q] = At("idle") /\ Fits(q, tx[q])
  BY EndFits DEF LinksInit
<1>2. tx \in [Request -> States]
  BY <1>1 DEF LinksInit, Fits, Local
<1>3. Tables
  BY <1>2, LinksAssumption DEF LinksInit, Tables, Link
<1>4. CapHolds
  BY LinksAssumption DEF LinksInit, CapHolds, Carried
<1>. QED
  BY <1>1, <1>3, <1>4 DEF CapInv

LEMMA StepFits == CapInv /\ [LinksNext]_linksVars => CapInv'
<1>. SUFFICES ASSUME CapInv, [LinksNext]_linksVars PROVE CapInv'
  OBVIOUS
<1>1. CASE UNCHANGED linksVars
  <2>1. tx' = tx /\ links' = links /\ tagTable' = tagTable /\ usedTags' = usedTags
    BY <1>1 DEF linksVars
  <2>2. \A a : Carried(a)' = Carried(a)
    BY <2>1 DEF Carried
  <2>3. ASSUME NEW q \in Request PROVE Fits(q, tx[q])'
    <3>1. Fits(q, tx[q])
      BY DEF CapInv
    <3>2. Local(q, tx[q])' /\ Apart(q, tx[q])'
      BY <2>1, <3>1 DEF Fits, Local, Apart
    <3>3. HasRoom(q, tx[q])'
      BY <2>1, <2>2, <3>1 DEF Fits, HasRoom, Sure
    <3>. QED
      BY <3>2, <3>3 DEF Fits
  <2>4. Tables' /\ CapHolds'
    BY <2>1, <2>2 DEF CapInv, Tables, CapHolds
  <2>. QED
    BY <2>3, <2>4 DEF CapInv
<1>2. ASSUME NEW q \in Request, Rollback(q) PROVE CapInv'
  BY <1>2, EndFits, MovesFit DEF Rollback
<1>3. ASSUME NEW q \in Request, Attaches(q) PROVE CapInv'
  BY <1>3, GetTagKeeps, CreateTagKeeps, LockRowKeeps, GuardedInsertKeeps, CheckKeeps,
     LockArtistKeeps, RecheckKeeps, InsertLinkKeeps DEF Attaches
<1>4. ASSUME NEW q \in Request, Rewrites(q) PROVE CapInv'
  BY <1>4, LockTagKeeps, NextStatementKeeps, DeleteLinkKeeps, RepointLinkKeeps DEF Rewrites
<1>. QED
  BY <1>1, <1>2, <1>3, <1>4, BeginKeeps, RenamesKeep, CommitKeeps DEF LinksNext

LEMMA FitsAlways == LinksSpec => []CapInv
  BY InitFits, StepFits, PTL DEF LinksSpec

(* No artist ever carries more than the cap (migrations 000010 to 000012),   *)
(* for any requests on any artists and tags, in any order of their           *)
(* statements and with any rollbacks.                                        *)
THEOREM CapIsKept == LinksSpec => []CapHolds
<1>1. CapInv => CapHolds
  BY DEF CapInv
<1>. QED
  BY <1>1, FitsAlways, PTL

(* The trigger refuses only a single attach: a bulk attach, which counts     *)
(* under the artists' locks (bulk.sql, BulkAttachTag), never fails half way. *)
THEOREM BulkIsNeverRefused ==
  LinksSpec => [](\A q \in Request : tx[q].at = "refused" => q.op = "attach")
<1>1. CapInv => \A q \in Request : tx[q].at = "refused" => q.op = "attach"
  BY LabelOfRequest DEF CapInv, Fits, Local
<1>. QED
  BY <1>1, FitsAlways, PTL

\* A request is at its link statements.
AtLinks == {"duplicates", "repoint", "sweep"}

\* The tags it has locked, and made, are its own, and all it writes is of them,
\* save what a detach deletes.
Held(q, s) ==
  /\ s.made \subseteq s.tags \intersect {s.tag} /\ s.made \intersect DOMAIN tagTable = {}
  /\ s.tags \ s.made \subseteq DOMAIN tagTable
  /\ s.made # {} => Attacher(q)
  /\ s.at \in {"idle", "done", "tag", "rename"} => s.tags = {} /\ s.artists = {}
  /\ ~Attacher(q) => s.artists = {}
  /\ q.op = "detach" => s.tags = {}
  /\ s.at \in Visiting \union {"rows"} \/ (Attacher(q) /\ s.at = "commit") => s.tag \in s.tags
  /\ q.op = "merge" /\ s.at \in AtLinks \union {"commit"} => {q.tag, q.into} \subseteq s.tags
  /\ q.op = "delete" /\ s.at \in {"sweep", "commit"} => q.tag \in s.tags
  /\ q.op = "rename" /\ s.at \in {"index", "commit"} => q.tag \in s.tags
  /\ \A l \in s.ins \union s.shared : l[2] \in s.tags
  /\ \A l \in s.del :
       l[2] = q.tag /\ IF q.op = "detach" THEN l[1] \in q.artists ELSE l[2] \in s.tags
  /\ Attacher(q) /\ s.at = "commit" /\ s.made # {} => s.ins # {}

Alone(q, s) == \A r \in Request \ {q} : s.tags \intersect tx[r].tags = {}

\* Rows are locked in ascending order.
Rising(t) == \A i, j \in DOMAIN t : i < j => t[i] < t[j]

Orderly(q, s) ==
  /\ s.at \in Visiting \union {"rows", "lock tags"} => Rising(s.todo)
  /\ s.at = "rows" \/ (q.op = "attach" /\ s.at \in {"check", "artist"}) =>
       \A x \in s.artists, y \in Range(s.todo) : x < y
  /\ q.op = "attach" /\ s.at \in {"recheck", "insert"} => \A x \in s.artists : x <= Head(s.todo)
  /\ s.at = "rename" => s.todo = <<q.tag>>
  /\ s.at = "lock tags" =>
       Range(s.todo) \subseteq TagRow /\ \A t \in s.tags, u \in Range(s.todo) : t < u

\* A statement visits links of its own tag, each once; a detach none it deleted.
Sweeping(q, s) ==
  s.at \in AtLinks =>
    /\ IsInjective(s.todo)
    /\ \A l \in Range(s.todo) :
         l \in Link /\ l[2] = q.tag /\ (q.op = "detach" => l[1] \in q.artists /\ l \notin s.del)

\* What a delete or a merge has still to do, and what a merge leaves.
Covers(q, s) ==
  /\ (q.op = "delete" /\ s.at = "sweep") \/ s.at = "repoint" =>
       \A l \in links : l[2] = q.tag => l \in s.del \union Range(s.todo)
  /\ (q.op = "delete" /\ s.at = "commit") \/ (q.op = "merge" /\ s.at \in {"sweep", "commit"}) =>
       \A l \in links : l[2] = q.tag => l \in s.del
  /\ s.at = "duplicates" =>
       /\ s.ins = {}
       /\ \A l \in links : l[2] = q.tag /\ <<l[1], q.into>> \in links =>
            l \in s.del \union Range(s.todo)
       /\ \A l \in Range(s.todo) : <<l[1], q.into>> \in links \/ DetachedBeside(q, l[1])
  /\ s.at = "repoint" => \A l \in Range(s.todo) : <<l[1], q.into>> \notin links \union s.ins
  /\ s.at = "sweep" /\ q.op = "merge" => s.todo = <<>>
  /\ s.at # "duplicate key"
  /\ s.at = "lock tags" => s.ins = {} /\ s.del = {}
  /\ q.op = "merge" /\ s.at \in AtLinks \union {"commit"} =>
       \A l \in s.del : <<l[1], q.into>> \in links \union s.ins \/ DetachedBeside(q, l[1])

Sound(q, s) == Held(q, s) /\ Alone(q, s) /\ Orderly(q, s) /\ Sweeping(q, s) /\ Covers(q, s)

Linked ==
  /\ \A l \in links : l[2] \in DOMAIN tagTable
  /\ DOMAIN tagTable \subseteq usedTags
  /\ \A q \in Request : tx[q].tags \subseteq usedTags

WholeInv == Linked /\ \A q \in Request : Sound(q, tx[q])

-----------------------------------------------------------------------------
(* Orders of rows.                                                         *)

LEMMA RestOfRows ==
  ASSUME NEW S, NEW t \in Seq(S), t # <<>>
  PROVE  /\ Rising(t) => Rising(Tail(t)) /\ \A x \in Range(Tail(t)) : Head(t) < x
         /\ IsInjective(t) => IsInjective(Tail(t)) /\ Head(t) \notin Range(Tail(t))
<1>1. PICK n : n = Len(t)
  OBVIOUS
<1>2. n \in Nat \ {0} /\ DOMAIN t = 1..n /\ Head(t) = t[1]
  BY <1>1, EmptySeq, LenProperties
<1>3. PICK r : r = Tail(t)
  OBVIOUS
<1>4. DOMAIN r = 1..(n - 1) /\ \A i \in 1..(n - 1) : r[i] = t[i + 1] /\ i + 1 \in 1..n /\ 1 < i + 1
  BY <1>1, <1>2, <1>3, HeadTailProperties, LenProperties
<1>5. \A x \in Range(r) : \E i \in 1..(n - 1) : x = t[i + 1]
  BY <1>4 DEF Range
<1>6. ASSUME Rising(t) PROVE Rising(r) /\ \A x \in Range(r) : Head(t) < x
  <2>1. ASSUME NEW i \in 1..(n - 1), NEW j \in 1..(n - 1), i < j PROVE r[i] < r[j]
    <3>1. i + 1 < j + 1
      BY <1>2, <2>1
    <3>. QED
      BY <1>2, <1>4, <1>6, <3>1 DEF Rising
  <2>2. \A x \in Range(r) : Head(t) < x
    BY <1>2, <1>4, <1>5, <1>6 DEF Rising
  <2>. QED
    BY <1>4, <2>1, <2>2 DEF Rising
<1>7. ASSUME IsInjective(t) PROVE IsInjective(r) /\ Head(t) \notin Range(r)
  <2>1. ASSUME NEW i \in 1..(n - 1), NEW j \in 1..(n - 1), r[i] = r[j] PROVE i = j
    <3>1. i + 1 = j + 1
      BY <1>2, <1>4, <1>7, <2>1 DEF IsInjective
    <3>. QED
      BY <1>2, <3>1
  <2>2. \A i \in 1..(n - 1) : t[i + 1] # t[1]
    BY <1>2, <1>4, <1>7 DEF IsInjective
  <2>. QED
    BY <1>2, <1>4, <1>5, <2>1, <2>2 DEF IsInjective
<1>. QED
  BY <1>3, <1>6, <1>7

LEMMA RowNumbers == (\A x \in ArtistRow : x \in Int) /\ (\A x \in TagRow : x \in Int)
  BY LinksAssumption

\* The rows of a statement over a finite set, in the order asked for or in any.
LEMMA RowsOfSet ==
  ASSUME NEW S, IsFiniteSet(S), NEW t \in Orders(S)
  PROVE  /\ t \in Seq(S) /\ Range(t) = S /\ IsInjective(t)
         /\ t \in Ascending(S) => Rising(t)
  BY OrderOfAll DEF Orders, Ascending, Rising

LEMMA FiniteRows ==
  /\ \A S \in SUBSET ArtistRow : IsFiniteSet(S)
  /\ \A S \in SUBSET TagRow : IsFiniteSet(S)
  /\ \A S \in SUBSET Link : IsFiniteSet(S)
<1>1. IsFiniteSet(ArtistRow) /\ IsFiniteSet(TagRow) /\ IsFiniteSet(Link)
  BY LinksAssumption, FS_Product DEF Link
<1>2. \A S \in SUBSET ArtistRow : IsFiniteSet(S)
  BY <1>1, FS_Subset
<1>3. \A S \in SUBSET TagRow : IsFiniteSet(S)
  BY <1>1, FS_Subset
<1>4. \A S \in SUBSET Link : IsFiniteSet(S)
  BY <1>1, FS_Subset
<1>. QED
  BY <1>2, <1>3, <1>4

-----------------------------------------------------------------------------
(* Steps that write no table.                                              *)

\* A detach that has begun has begun for good.
LEMMA BesideStays ==
  ASSUME NEW q \in Request, NEW s, Changes(q, s), s.at # "idle", tx \in [Request -> States],
         NEW r, NEW a, DetachedBeside(r, a)
  PROVE  DetachedBeside(r, a)'
<1>1. PICK d \in Request : d.op = "detach" /\ d.tag \in {r.tag, r.into}
                           /\ a \in d.artists /\ tx[d].at # "idle"
  BY DEF DetachedBeside
<1>2. tx'[d].at # "idle"
  BY <1>1 DEF Changes
<1>. QED
  BY <1>1, <1>2 DEF DetachedBeside

LEMMA ChangesHold ==
  ASSUME CapInv, WholeInv, NEW q \in Request, NEW s, Changes(q, s), Sound(q, s), s.at # "idle",
         UNCHANGED <<tagTable, links>>, usedTags \subseteq usedTags', s.tags \subseteq usedTags'
  PROVE  WholeInv'
<1>1. tx \in [Request -> States]
  BY DEF CapInv, Tables
<1>2. \A r \in Request : tx'[r] = IF r = q THEN s ELSE tx[r]
  BY <1>1 DEF Changes
<1>3. \A r, a : DetachedBeside(r, a) => DetachedBeside(r, a)'
  BY <1>1, BesideStays
<1>4. ASSUME NEW r \in Request PROVE Sound(r, tx[r])'
  <2>1. PICK u : u = tx'[r]
    OBVIOUS
  <2>2. Sound(r, u)
    BY <1>2, <2>1 DEF WholeInv
  <2>3. Held(r, u)' /\ Orderly(r, u)' /\ Sweeping(r, u)'
    BY <2>2 DEF Sound, Held, Orderly, Sweeping
  <2>4. Alone(r, u)'
    <3>1. ASSUME NEW h \in Request \ {r} PROVE u.tags \intersect tx'[h].tags = {}
      <4>1. Sound(h, tx[h])
        BY DEF WholeInv
      <4>. QED
        BY <1>2, <2>1, <2>2, <4>1 DEF Sound, Alone
    <3>. QED
      BY <3>1 DEF Alone
  <2>5. Covers(r, u)'
    BY <1>3, <2>2 DEF Sound, Covers
  <2>6. Held(r, tx[r])' /\ Alone(r, tx[r])'
    BY <2>1, <2>3, <2>4 DEF Held, Alone
  <2>7. Orderly(r, tx[r])' /\ Sweeping(r, tx[r])'
    BY <2>1, <2>3 DEF Orderly, Sweeping
  <2>8. Covers(r, tx[r])'
    BY <2>1, <2>5 DEF Covers
  <2>. QED
    BY <2>6, <2>7, <2>8 DEF Sound
<1>5. Linked'
  <2>1. \A r \in Request : tx'[r].tags \subseteq usedTags'
    BY <1>2 DEF WholeInv, Linked
  <2>. QED
    BY <2>1 DEF WholeInv, Linked
<1>. QED
  BY <1>4, <1>5 DEF WholeInv

LEMMA MovesHold ==
  ASSUME CapInv, WholeInv, NEW q \in Request, NEW s, Moves(q, s), Sound(q, s), s.at # "idle",
         s.tags \subseteq usedTags
  PROVE  WholeInv'
  BY ChangesHold DEF Moves

LEMMA AtFields ==
  ASSUME NEW where
  PROVE  /\ At(where).at = where /\ At(where).todo = <<>> /\ At(where).tag = 0
         /\ At(where).made = {} /\ At(where).tags = {} /\ At(where).artists = {}
         /\ At(where).shared = {} /\ At(where).ins = {} /\ At(where).del = {}
  BY DEF At

\* What a transaction knows of itself.
LEMMA Self ==
  ASSUME CapInv, WholeInv, NEW q \in Request
  PROVE  /\ tx[q] \in States /\ Local(q, tx[q]) /\ tx[q].at \in Labels(q) /\ Apart(q, tx[q])
         /\ Held(q, tx[q]) /\ Alone(q, tx[q]) /\ Orderly(q, tx[q])
         /\ Sweeping(q, tx[q]) /\ Covers(q, tx[q]) /\ tx[q].tags \subseteq usedTags
         /\ links \subseteq Link /\ DOMAIN tagTable \subseteq TagRow /\ usedTags \subseteq TagRow
  BY DEF CapInv, Tables, Fits, Local, WholeInv, Sound, Linked

\* A transaction that has locked and written nothing yet.
LEMMA NothingHeld ==
  ASSUME NEW q \in Request, NEW s, s.made = {}, s.artists = {}, s.tags = {}, s.shared = {},
         s.ins = {}, s.del = {},
         \/ s.at \in {"idle", "done", "tag", "rename", "collided", "lock tags"}
         \/ s.at = "sweep" /\ q.op = "detach"
  PROVE  Held(q, s) /\ Alone(q, s)
<1>1. s.at \notin Visiting /\ s.at \notin {"rows", "commit", "index"}
      /\ (s.at = "sweep" => q.op = "detach")
  BY DEF Visiting
<1>2. s.at \in AtLinks => q.op = "detach"
  BY <1>1 DEF AtLinks
<1>. QED
  BY <1>1, <1>2 DEF Held, Alone

LEMMA NothingSound ==
  ASSUME NEW q \in Request, NEW s, s.made = {}, s.artists = {}, s.tags = {}, s.shared = {},
         s.ins = {}, s.del = {},
         s.at \in {"idle", "done", "tag", "rename", "collided"},
         s.at = "rename" => s.todo = <<q.tag>>
  PROVE  Sound(q, s)
<1>1. Held(q, s) /\ Alone(q, s)
  BY NothingHeld
<1>2. s.at \notin Visiting /\ s.at \notin {"rows", "lock tags", "check", "artist", "recheck", "insert"}
  BY DEF Visiting
<1>3. s.at \notin AtLinks /\ s.at \notin {"commit", "duplicate key", "lock tags", "duplicates", "repoint", "sweep"}
  BY DEF AtLinks
<1>. QED
  BY <1>1, <1>2, <1>3 DEF Sound, Orderly, Sweeping, Covers

\* An attach visits no links and a merge, a delete or a detach locks no artists.
LEMMA AttacherSound ==
  ASSUME NEW q \in Request, NEW s, Attacher(q), s.at \in Labels(q)
  PROVE  Sweeping(q, s) /\ Covers(q, s)
<1>1. s.at \in {"idle", "done", "commit", "tag", "refused", "rows"} \union Visiting
  BY DEF Attacher, Labels
<1>2. s.at \notin {"lock tags", "duplicates", "repoint", "sweep", "duplicate key"}
  BY <1>1 DEF Visiting
<1>3. s.at \notin AtLinks /\ q.op \notin {"merge", "delete", "detach"}
  BY <1>2 DEF AtLinks, Attacher
<1>. QED
  BY <1>2, <1>3 DEF Sweeping, Covers

LEMMA BeginHolds ==
  ASSUME CapInv, WholeInv, NEW q \in Request, Begin(q)
  PROVE  WholeInv'
<1>1. links \subseteq Link /\ DOMAIN tagTable \subseteq TagRow /\ tx \in [Request -> States]
      /\ tx[q].at = "idle" /\ tx[q].ins \subseteq Link
  BY DEF CapInv, Tables, Begin, States
<1>2. CASE q.op \in {"attach", "bulk attach"} /\ Moves(q, At("tag"))
  <2>1. PICK s : s = At("tag")
    OBVIOUS
  <2>2. Sound(q, s) /\ s.at # "idle" /\ s.tags \subseteq usedTags
    BY <2>1, AtFields, NothingSound
  <2>. QED
    BY <1>2, <2>1, <2>2, MovesHold
<1>3. CASE q.op = "detach" /\ \E t \in Orders({l \in SeenLinks(q, q.tag) : l[1] \in q.artists}) :
             Moves(q, [At("sweep") EXCEPT !.todo = t])
  <2>1. PICK S : S = {l \in SeenLinks(q, q.tag) : l[1] \in q.artists}
    OBVIOUS
  <2>0. PICK t \in Orders(S) : Moves(q, [At("sweep") EXCEPT !.todo = t])
    BY <1>3, <2>1
  <2>2. PICK s : s = [At("sweep") EXCEPT !.todo = t] /\ Moves(q, s)
    BY <2>0
  <2>3. S \in SUBSET Link /\ \A l \in S : l[2] = q.tag /\ l[1] \in q.artists
    BY <1>1, <2>1 DEF SeenLinks
  <2>4. Range(t) = S /\ IsInjective(t)
    BY <2>3, FiniteRows, RowsOfSet
  <2>5. /\ s.at = "sweep" /\ s.todo = t /\ s.made = {} /\ s.artists = {} /\ s.tags = {} /\ s.shared = {}
        /\ s.ins = {} /\ s.del = {}
    BY <2>2 DEF At
  <2>6. Held(q, s) /\ Alone(q, s)
    BY <1>3, <2>5, NothingHeld
  <2>7. Orderly(q, s)
    BY <2>5 DEF Orderly, Visiting
  <2>8. Sweeping(q, s) /\ Covers(q, s)
    BY <1>3, <2>3, <2>4, <2>5 DEF Sweeping, Covers
  <2>. QED
    BY <2>2, <2>5, <2>6, <2>7, <2>8, MovesHold DEF Sound
<1>4. ASSUME q.op \in {"merge", "delete"}, NEW S \in SUBSET TagRow, NEW t \in Ascending(S),
             Moves(q, [At("lock tags") EXCEPT !.todo = t])
      PROVE  WholeInv'
  <2>1. PICK s : s = [At("lock tags") EXCEPT !.todo = t]
    OBVIOUS
  <2>2. /\ s.at = "lock tags" /\ s.todo = t /\ s.made = {} /\ s.artists = {} /\ s.tags = {} /\ s.shared = {}
        /\ s.ins = {} /\ s.del = {}
    BY <2>1 DEF At
  <2>3. t \in Orders(S) /\ Range(t) = S /\ Rising(t)
    BY FiniteRows, RowsOfSet, AscendingIsAnOrder
  <2>4. Held(q, s) /\ Alone(q, s)
    BY <2>2, NothingHeld
  <2>5. Orderly(q, s)
    BY <2>2, <2>3 DEF Orderly, Visiting
  <2>6. Sweeping(q, s) /\ Covers(q, s)
    BY <2>2 DEF Sweeping, Covers, AtLinks
  <2>. QED
    BY <1>4, <2>1, <2>2, <2>4, <2>5, <2>6, MovesHold DEF Sound
<1>5. CASE q.op = "rename" /\ Moves(q, [At("rename") EXCEPT !.todo = <<q.tag>>])
  <2>1. PICK s : s = [At("rename") EXCEPT !.todo = <<q.tag>>]
    OBVIOUS
  <2>2. /\ s.at = "rename" /\ s.todo = <<q.tag>> /\ s.made = {} /\ s.artists = {}
        /\ s.tags = {} /\ s.shared = {}
        /\ s.ins = {} /\ s.del = {}
    BY <2>1 DEF At
  <2>3. Sound(q, s)
    BY <2>2, NothingSound
  <2>. QED
    BY <1>5, <2>1, <2>2, <2>3, MovesHold
<1>6. DOMAIN tagTable \intersect {q.tag, q.into} \in SUBSET TagRow
      /\ DOMAIN tagTable \intersect {q.tag} \in SUBSET TagRow
  BY <1>1
<1>. QED
  BY <1>2, <1>3, <1>4, <1>5, <1>6 DEF Begin

\* Done, whatever the outcome.
LEMMA EndHolds ==
  ASSUME CapInv, WholeInv, NEW q \in Request, NEW s, Moves(q, s), s.at \in {"done", "collided"},
         s.made = {}, s.artists = {}, s.tags = {}, s.shared = {}, s.ins = {}, s.del = {}
  PROVE  WholeInv'
  BY NothingSound, MovesHold

-----------------------------------------------------------------------------
(* Attaching.                                                              *)

LEMMA GotTagSound ==
  ASSUME NEW q \in Request, Attacher(q), NEW t \in TagRow, NEW made \in SUBSET {t},
         NEW o \in Ascending(q.artists), t \in DOMAIN tagTable <=> made = {},
         \A r \in Request \ {q} : t \notin tx[r].tags,
         NEW s, s = GotTag(q, t, made, o)
  PROVE  Sound(q, s) /\ s.at # "idle" /\ s.tags = {t}
<1>1. /\ s.at = AfterTag(q) /\ s.todo = o /\ s.tag = t /\ s.tags = {t} /\ s.made = made
      /\ s.artists = {} /\ s.shared = {} /\ s.ins = {} /\ s.del = {}
  BY DEF GotTag, At
<1>2. /\ s.at = IF q.op = "attach" THEN "check" ELSE "rows"
      /\ s.at \in Labels(q) /\ s.at \in Visiting \union {"rows"} /\ s.at # "commit"
      /\ s.at \notin {"idle", "done", "tag", "recheck", "insert", "rename", "lock tags"}
  BY <1>1 DEF AfterTag, Attacher, Labels, Visiting
<1>3. q.artists \in SUBSET ArtistRow
  BY RequestFields
<1>4. Rising(o)
  BY <1>3, FiniteRows, RowsOfSet, AscendingIsAnOrder
<1>5. Held(q, s)
  <2>1. s.made \intersect DOMAIN tagTable = {} /\ s.tags \ s.made \subseteq DOMAIN tagTable
    BY <1>1
  <2>. QED
    BY <1>1, <1>2, <2>1 DEF Held, Attacher
<1>6. Alone(q, s)
  BY <1>1 DEF Alone
<1>7. Orderly(q, s)
  BY <1>1, <1>2, <1>4 DEF Orderly
<1>8. Sweeping(q, s) /\ Covers(q, s)
  BY <1>2, AttacherSound
<1>. QED
  BY <1>1, <1>2, <1>5, <1>6, <1>7, <1>8 DEF Sound

LEMMA GetTagHolds ==
  ASSUME CapInv, WholeInv, NEW q \in Request, GetTag(q)
  PROVE  WholeInv'
<1>1. PICK t \in Named(q.name), o \in Ascending(q.artists) : Moves(q, GotTag(q, t, {}, o))
  BY DEF GetTag
<1>2. tx[q].at = "tag" /\ WaitsFor(q) = {}
  BY DEF GetTag, Proceeds
<1>3. Attacher(q)
  BY <1>2, Self, LabelOfRequest
<1>4. \A r \in Request \ {q} : t \notin tx[r].tags
  BY <1>1, <1>2 DEF WaitsFor
<1>5. t \in DOMAIN tagTable
  <2>1. tx[q].tags = {}
    BY <1>2, Self DEF Held
  <2>2. \A r \in Request : Claimed(r, q.name) \subseteq tx[r].tags
    BY DEF Claimed
  <2>3. t \in Committed(q.name)
    BY <1>1, <1>4, <2>1, <2>2 DEF Named
  <2>. QED
    BY <2>3 DEF Committed
<1>6. t \in TagRow /\ t \in usedTags
  BY <1>5, Self DEF WholeInv, Linked
<1>7. PICK s : s = GotTag(q, t, {}, o)
  OBVIOUS
<1>8. Sound(q, s) /\ s.at # "idle" /\ s.tags = {t}
  BY <1>3, <1>4, <1>5, <1>6, <1>7, GotTagSound
<1>. QED
  BY <1>1, <1>6, <1>7, <1>8, MovesHold

LEMMA CreateTagHolds ==
  ASSUME CapInv, WholeInv, NEW q \in Request, CreateTag(q)
  PROVE  WholeInv'
<1>1. PICK t \in TagRow \ usedTags, o \in Ascending(q.artists) :
         usedTags' = usedTags \union {t} /\ Changes(q, GotTag(q, t, {t}, o))
  BY DEF CreateTag
<1>2. tx[q].at = "tag"
  BY DEF CreateTag, Proceeds
<1>3. Attacher(q)
  BY <1>2, Self, LabelOfRequest
<1>4. t \notin DOMAIN tagTable /\ \A r \in Request \ {q} : t \notin tx[r].tags
  BY <1>1 DEF WholeInv, Linked
<1>5. PICK s : s = GotTag(q, t, {t}, o)
  OBVIOUS
<1>6. Sound(q, s) /\ s.at # "idle" /\ s.tags = {t}
  <2>1. t \in TagRow /\ {t} \in SUBSET {t} /\ (t \in DOMAIN tagTable <=> {t} = {})
    BY <1>1, <1>4
  <2>. QED
    BY <1>3, <1>4, <1>5, <2>1, GotTagSound
<1>7. UNCHANGED <<tagTable, links>>
  BY DEF CreateTag
<1>. QED
  BY <1>1, <1>5, <1>6, <1>7, ChangesHold

\* What an attach keeps while it goes on with the tag it got.
LEMMA SameTag ==
  ASSUME CapInv, WholeInv, NEW q \in Request, Attacher(q), tx[q].at \in Visiting \union {"rows"},
         NEW s, s.at \in Labels(q), s.at \notin {"idle", "done", "tag", "rename"},
         s.tag = tx[q].tag, s.tags = tx[q].tags, s.made = tx[q].made, s.del = tx[q].del,
         \A l \in s.ins \union s.shared :
           l \in tx[q].ins \union tx[q].shared \/ l[2] = tx[q].tag,
         s.at = "commit" /\ s.made # {} => s.ins # {}, Orderly(q, s), Moves(q, s)
  PROVE  WholeInv'
<1>1. Held(q, tx[q]) /\ Alone(q, tx[q]) /\ tx[q].tag \in tx[q].tags /\ tx[q].tags \subseteq usedTags
  BY Self DEF Held
<1>2. Held(q, s)
  <2>1. \A l \in s.ins \union s.shared : l[2] \in s.tags
    BY <1>1 DEF Held
  <2>. QED
    BY <1>1, <2>1 DEF Held, Attacher
<1>3. Alone(q, s)
  BY <1>1 DEF Alone
<1>4. Sweeping(q, s) /\ Covers(q, s)
  BY AttacherSound
<1>. QED
  BY <1>1, <1>2, <1>3, <1>4, MovesHold DEF Sound

LEMMA LockRowHolds ==
  ASSUME CapInv, WholeInv, NEW q \in Request, LockRow(q)
  PROVE  WholeInv'
<1>1. PICK s : s = [tx[q] EXCEPT !.artists = @ \union {Head(tx[q].todo)}, !.todo = Tail(@)]
  OBVIOUS
<1>2. tx[q].at = "rows" /\ tx[q].todo # <<>> /\ Moves(q, s)
  BY <1>1 DEF LockRow, Proceeds
<1>3. q.op = "bulk attach" /\ Attacher(q) /\ tx[q] \in States /\ tx[q].todo \in Seq(ArtistRow)
      /\ tx[q].at \in Labels(q)
  BY <1>2, Self, LabelOfRequest DEF Local, Attacher
<1>4. /\ s.at = "rows" /\ s.todo = Tail(tx[q].todo)
      /\ s.artists = tx[q].artists \union {Head(tx[q].todo)} /\ s.tag = tx[q].tag
      /\ s.tags = tx[q].tags /\ s.made = tx[q].made /\ s.del = tx[q].del
      /\ s.ins = tx[q].ins /\ s.shared = tx[q].shared
  BY <1>1, <1>2, <1>3 DEF States
<1>5. /\ Rising(Tail(tx[q].todo)) /\ \A x \in Range(Tail(tx[q].todo)) : Head(tx[q].todo) < x
      /\ Range(Tail(tx[q].todo)) \subseteq Range(tx[q].todo)
      /\ \A x \in tx[q].artists, y \in Range(tx[q].todo) : x < y
  BY <1>2, <1>3, Self, RestOfRows, RowsVisited DEF Orderly
<1>6. Orderly(q, s)
  BY <1>3, <1>4, <1>5 DEF Orderly
<1>. QED
  BY <1>2, <1>3, <1>4, <1>6, SameTag

LEMMA GuardedInsertHolds ==
  ASSUME CapInv, WholeInv, NEW q \in Request, GuardedInsert(q)
  PROVE  WholeInv'
<1>1. PICK had, room : /\ had = {a \in q.artists : <<a, tx[q].tag>> \in links}
                       /\ room = {a \in q.artists \ had : Cardinality(Carried(a)) < MaxTags}
  OBVIOUS
<1>2. /\ tx[q].at = "rows"
      /\ \/ Moves(q, At("done"))
         \/ /\ had \union room # {}
            /\ \E o \in Ascending(room) :
                 Moves(q, [tx[q] EXCEPT !.at = IF room = {} THEN "commit" ELSE "check", !.todo = o])
  BY <1>1 DEF GuardedInsert, Proceeds
<1>3. q.op = "bulk attach" /\ Attacher(q) /\ tx[q] \in States
  BY <1>2, Self, LabelOfRequest DEF Attacher
<1>4. CASE Moves(q, At("done"))
  BY <1>4, AtFields, EndHolds
<1>5. ASSUME had \union room # {}, NEW o \in Ascending(room), NEW s,
             s = [tx[q] EXCEPT !.at = IF room = {} THEN "commit" ELSE "check", !.todo = o],
             Moves(q, s)
      PROVE  WholeInv'
  <2>1. /\ s.at = (IF room = {} THEN "commit" ELSE "check") /\ s.todo = o
        /\ s.artists = tx[q].artists /\ s.tag = tx[q].tag
        /\ s.tags = tx[q].tags /\ s.made = tx[q].made /\ s.del = tx[q].del
        /\ s.ins = tx[q].ins /\ s.shared = tx[q].shared
    BY <1>3, <1>5 DEF States
  <2>2. s.at \in Labels(q) /\ s.at \in {"commit", "check"}
    BY <1>3, <2>1 DEF Labels, Visiting
  <2>3. room \in SUBSET ArtistRow
    BY <1>1, <1>3, RequestFields
  <2>4. Rising(o)
    BY <2>3, FiniteRows, RowsOfSet, AscendingIsAnOrder
  <2>5. Orderly(q, s)
    BY <1>3, <2>1, <2>2, <2>4 DEF Orderly, Visiting
  <2>6. ASSUME s.at = "commit", s.made # {} PROVE FALSE
    <3>1. PICK a \in q.artists : <<a, tx[q].tag>> \in links
      BY <1>1, <1>5, <2>1, <2>6
    <3>2. <<a, tx[q].tag>>[2] = tx[q].tag
      OBVIOUS
    <3>3. tx[q].tag \in DOMAIN tagTable
      BY <3>1, <3>2 DEF WholeInv, Linked
    <3>. QED
      BY <2>1, <2>6, <3>3, Self DEF Held
  <2>. QED
    BY <1>2, <1>3, <1>5, <2>1, <2>2, <2>5, <2>6, SameTag
<1>. QED
  BY <1>2, <1>4, <1>5

\* The trigger's looks at the link.
LEMMA LookHolds ==
  ASSUME CapInv, WholeInv, NEW q \in Request, tx[q].at \in {"check", "recheck"},
         NEW where \in {"insert", "artist", "refused"},
         tx[q].at = "check" => where # "refused", tx[q].at = "recheck" => where # "artist",
         where \in Labels(q),
         Moves(q, [tx[q] EXCEPT !.shared = SharedIfFound(q), !.at = where])
  PROVE  WholeInv'
<1>1. PICK s : s = [tx[q] EXCEPT !.shared = SharedIfFound(q), !.at = where]
  OBVIOUS
<1>2. tx[q].at \in Visiting
  BY DEF Visiting
<1>3. /\ Attacher(q) /\ tx[q] \in States /\ tx[q].todo # <<>> /\ tx[q].todo \in Seq(ArtistRow)
      /\ Head(tx[q].todo) \in ArtistRow /\ Head(tx[q].todo) \in Range(tx[q].todo)
      /\ tx[q].artists \subseteq ArtistRow
  BY <1>2, RowOfInsert DEF States
<1>4. /\ s.at = where /\ s.todo = tx[q].todo /\ s.artists = tx[q].artists /\ s.tag = tx[q].tag
      /\ s.tags = tx[q].tags /\ s.made = tx[q].made /\ s.del = tx[q].del
      /\ s.ins = tx[q].ins /\ s.shared = SharedIfFound(q)
  BY <1>1, <1>3 DEF States
<1>5. \A l \in s.ins \union s.shared : l \in tx[q].ins \union tx[q].shared \/ l[2] = tx[q].tag
  BY <1>4 DEF SharedIfFound, NewLink
<1>6. Orderly(q, tx[q])
  BY Self
<1>7. Orderly(q, s)
  <2>1. Rising(s.todo)
    BY <1>2, <1>4, <1>6 DEF Orderly
  <2>2. ASSUME where = "artist", q.op = "attach"
        PROVE  \A x \in s.artists, y \in Range(s.todo) : x < y
    BY <1>4, <1>6, <2>2 DEF Orderly
  <2>3. ASSUME where = "insert", q.op = "attach", NEW x \in s.artists PROVE x <= Head(s.todo)
    <3>0. x \in ArtistRow /\ Head(s.todo) \in ArtistRow
      BY <1>3, <1>4
    <3>1. x \in Int /\ Head(s.todo) \in Int
      BY <3>0, RowNumbers
    <3>2. tx[q].at = "check" => x < Head(s.todo)
      BY <1>3, <1>4, <1>6, <2>3 DEF Orderly
    <3>3. tx[q].at = "recheck" => x <= Head(s.todo)
      BY <1>4, <1>6, <2>3 DEF Orderly
    <3>. QED
      BY <3>1, <3>2, <3>3
  <2>. QED
    BY <1>4, <2>1, <2>2, <2>3 DEF Orderly
<1>. QED
  BY <1>1, <1>2, <1>3, <1>4, <1>5, <1>7, SameTag

LEMMA CheckHolds ==
  ASSUME CapInv, WholeInv, NEW q \in Request, Check(q)
  PROVE  WholeInv'
<1>1. PICK where : where = IF NewLink(q) \in links THEN "insert" ELSE "artist"
  OBVIOUS
<1>2. /\ tx[q].at = "check" /\ where \in {"insert", "artist"}
      /\ Moves(q, [tx[q] EXCEPT !.shared = SharedIfFound(q), !.at = where])
  BY <1>1 DEF Check, Proceeds
<1>3. Attacher(q)
  BY <1>2, Self, LabelOfRequest DEF Visiting
<1>4. where \in Labels(q)
  BY <1>2, <1>3 DEF Labels, Visiting, Attacher
<1>. QED
  BY <1>2, <1>4, LookHolds

LEMMA RecheckHolds ==
  ASSUME CapInv, WholeInv, CapInv', NEW q \in Request, Recheck(q)
  PROVE  WholeInv'
<1>1. PICK where :
        where = IF NewLink(q) \notin links /\ Cardinality(Carried(Head(tx[q].todo))) >= MaxTags
                  THEN "refused" ELSE "insert"
  OBVIOUS
<1>2. /\ tx[q].at = "recheck" /\ where \in {"insert", "refused"}
      /\ Moves(q, [tx[q] EXCEPT !.shared = SharedIfFound(q), !.at = where])
  BY <1>1 DEF Recheck, Proceeds
<1>3. tx'[q].at = where
  BY <1>2, Self DEF Moves, Changes, CapInv, Tables, States
<1>4. where \in Labels(q)
  BY <1>3 DEF CapInv, Fits, Local
<1>. QED
  BY <1>2, <1>4, LookHolds

LEMMA LockArtistHolds ==
  ASSUME CapInv, WholeInv, NEW q \in Request, LockArtist(q)
  PROVE  WholeInv'
<1>1. PICK s : s = [tx[q] EXCEPT !.artists = @ \union {Head(tx[q].todo)}, !.at = "recheck"]
  OBVIOUS
<1>2. tx[q].at = "artist" /\ tx[q].at \in Visiting /\ Moves(q, s)
  BY <1>1 DEF LockArtist, Proceeds, Visiting
<1>3. /\ Attacher(q) /\ tx[q] \in States /\ Head(tx[q].todo) \in ArtistRow
      /\ Head(tx[q].todo) \in Range(tx[q].todo) /\ tx[q].artists \subseteq ArtistRow
  BY <1>2, RowOfInsert DEF States
<1>4. /\ s.at = "recheck" /\ s.todo = tx[q].todo
      /\ s.artists = tx[q].artists \union {Head(tx[q].todo)} /\ s.tag = tx[q].tag
      /\ s.tags = tx[q].tags /\ s.made = tx[q].made /\ s.del = tx[q].del
      /\ s.ins = tx[q].ins /\ s.shared = tx[q].shared
  BY <1>1, <1>3 DEF States
<1>5. "recheck" \in Labels(q)
  BY <1>3 DEF Labels, Visiting, Attacher
<1>6. Orderly(q, tx[q])
  BY Self
<1>7. Orderly(q, s)
  <2>1. Rising(s.todo)
    BY <1>2, <1>4, <1>6 DEF Orderly
  <2>2. ASSUME q.op = "attach", NEW x \in s.artists PROVE x <= Head(s.todo)
    <3>0. x \in ArtistRow /\ Head(s.todo) \in ArtistRow
      BY <1>3, <1>4
    <3>1. x \in Int /\ Head(s.todo) \in Int
      BY <3>0, RowNumbers
    <3>2. x = Head(s.todo) \/ x < Head(s.todo)
      BY <1>2, <1>3, <1>4, <1>6, <2>2 DEF Orderly
    <3>. QED
      BY <3>1, <3>2
  <2>. QED
    BY <1>4, <2>1, <2>2 DEF Orderly
<1>. QED
  BY <1>2, <1>3, <1>4, <1>5, <1>7, SameTag

LEMMA InsertLinkHolds ==
  ASSUME CapInv, WholeInv, NEW q \in Request, InsertLink(q)
  PROVE  WholeInv'
<1>1. PICK where, s :
        /\ where = IF Tail(tx[q].todo) = <<>> THEN "commit" ELSE "check"
        /\ s = [tx[q] EXCEPT !.ins = @ \union ({NewLink(q)} \ links), !.todo = Tail(@),
                             !.at = where]
  OBVIOUS
<1>2. tx[q].at = "insert" /\ tx[q].at \in Visiting /\ Moves(q, s) /\ where \in {"commit", "check"}
  BY <1>1 DEF InsertLink, Proceeds, Visiting
<1>3. /\ Attacher(q) /\ tx[q] \in States /\ Head(tx[q].todo) \in ArtistRow
      /\ tx[q].todo \in Seq(ArtistRow) /\ tx[q].todo # <<>>
      /\ Tail(tx[q].todo) \in Seq(ArtistRow) /\ tx[q].artists \subseteq ArtistRow
  BY <1>2, RowOfInsert DEF States
<1>4. /\ s.at = where /\ s.todo = Tail(tx[q].todo) /\ s.artists = tx[q].artists
      /\ s.tag = tx[q].tag /\ s.tags = tx[q].tags /\ s.made = tx[q].made /\ s.del = tx[q].del
      /\ s.ins = tx[q].ins \union ({NewLink(q)} \ links) /\ s.shared = tx[q].shared
  BY <1>1, <1>3 DEF States
<1>5. where \in Labels(q)
  BY <1>2, <1>3 DEF Labels, Visiting, Attacher
<1>6. NewLink(q)[2] = tx[q].tag
  BY DEF NewLink
<1>7. ASSUME s.made # {} PROVE s.ins # {}
  <2>1. tx[q].tag \notin DOMAIN tagTable
    BY <1>4, <1>7, Self DEF Held
  <2>2. NewLink(q) \notin links
    BY <1>6, <2>1 DEF WholeInv, Linked
  <2>. QED
    BY <1>4, <2>2
<1>8. Orderly(q, tx[q])
  BY Self
<1>9. Rising(s.todo) /\ \A x \in Range(s.todo) : Head(tx[q].todo) < x
  BY <1>2, <1>3, <1>4, <1>8, RestOfRows DEF Orderly
<1>10. Range(s.todo) \subseteq ArtistRow
  BY <1>3, <1>4 DEF Range
<1>11. Orderly(q, s)
  <2>1. ASSUME q.op = "attach", NEW x \in s.artists, NEW y \in Range(s.todo) PROVE x < y
    <3>0. x \in ArtistRow /\ y \in ArtistRow
      BY <1>3, <1>4, <1>10
    <3>1. x \in Int /\ y \in Int /\ Head(tx[q].todo) \in Int
      BY <1>3, <3>0, RowNumbers
    <3>2. x <= Head(tx[q].todo) /\ Head(tx[q].todo) < y
      BY <1>2, <1>4, <1>8, <1>9, <2>1 DEF Orderly
    <3>. QED
      BY <3>1, <3>2
  <2>. QED
    BY <1>2, <1>4, <1>9, <2>1 DEF Orderly
<1>. QED
  BY <1>2, <1>3, <1>4, <1>5, <1>6, <1>7, <1>11, SameTag

-----------------------------------------------------------------------------
(* Merging, deleting, detaching and renaming.                              *)

LEMMA LockTagHolds ==
  ASSUME CapInv, WholeInv, NEW q \in Request, LockTag(q)
  PROVE  WholeInv'
<1>1. PICK h, s : /\ h = Head(tx[q].todo)
                  /\ s = [tx[q] EXCEPT !.todo = Tail(@),
                            !.tags = @ \union (DOMAIN tagTable \intersect {h})]
  OBVIOUS
<1>2. tx[q].at = "lock tags" /\ tx[q].todo # <<>> /\ WaitsFor(q) = {} /\ Moves(q, s)
  BY <1>1 DEF LockTag, Proceeds
<1>3. ~Attacher(q) /\ tx[q] \in States /\ tx[q].todo \in Seq(Rows)
  BY <1>2, Self, LabelOfRequest DEF States, Attacher
<1>4. /\ s.at = "lock tags" /\ s.todo = Tail(tx[q].todo)
      /\ s.tags = tx[q].tags \union (DOMAIN tagTable \intersect {h}) /\ s.made = tx[q].made
      /\ s.artists = tx[q].artists
      /\ s.ins = tx[q].ins /\ s.del = tx[q].del /\ s.shared = tx[q].shared
  BY <1>1, <1>2, <1>3 DEF States
<1>5. s.ins = {} /\ s.del = {} /\ s.shared = {} /\ s.made = {} /\ s.artists = {}
  BY <1>2, <1>3, <1>4, Self DEF Covers, Local, Held
<1>6. tx[q].tags \subseteq DOMAIN tagTable /\ tx[q].tags \subseteq usedTags
      /\ DOMAIN tagTable \subseteq usedTags
  BY <1>4, <1>5, Self DEF Held, WholeInv, Linked
<1>7. Held(q, s)
  <2>1.
        /\ s.at \notin Visiting \union AtLinks \union {"rows", "commit", "idle", "done", "tag", "rename", "index"}
        /\ q.op # "detach"
    BY <1>2, <1>4, Self, LabelOfRequest DEF Visiting, AtLinks
  <2>2. s.tags \subseteq DOMAIN tagTable
    BY <1>4, <1>6
  <2>. QED
    BY <1>3, <1>5, <2>1, <2>2 DEF Held, AtLinks
<1>8. Alone(q, s)
  <2>1. \A r \in Request \ {q} : h \notin tx[r].tags
    BY <1>1, <1>2 DEF WaitsFor, Visits
  <2>2. Alone(q, tx[q])
    BY Self
  <2>. QED
    BY <1>4, <2>1, <2>2 DEF Alone
<1>9. Orderly(q, s)
  <2>1. Orderly(q, tx[q])
    BY Self
  <2>2. /\ Rising(tx[q].todo) /\ Range(tx[q].todo) \subseteq TagRow
        /\ \A t \in tx[q].tags, u \in Range(tx[q].todo) : t < u
    BY <1>2, <2>1 DEF Orderly
  <2>3. PICK t : t = tx[q].todo
    OBVIOUS
  <2>4. t \in Seq(Rows) /\ t # <<>> /\ Rising(t) /\ h = Head(t) /\ s.todo = Tail(t)
    BY <1>1, <1>2, <1>3, <1>4, <2>2, <2>3
  <2>5. Rising(Tail(t)) /\ \A x \in Range(Tail(t)) : Head(t) < x
    BY <2>4, RestOfRows
  <2>6. Range(Tail(t)) \subseteq Range(t)
    BY <2>4, RowsVisited
  <2>7. Rising(s.todo) /\ Range(s.todo) \subseteq TagRow
    BY <2>2, <2>3, <2>4, <2>5, <2>6
  <2>8. ASSUME NEW x \in s.tags, NEW u \in Range(s.todo) PROVE x < u
    <3>1. x = h \/ x \in tx[q].tags
      BY <1>4
    <3>2. h < u
      BY <2>4, <2>5
    <3>3. u \in Range(tx[q].todo)
      BY <2>3, <2>4, <2>6
    <3>. QED
      BY <2>2, <3>1, <3>2, <3>3
  <2>. QED
    BY <1>4, <2>7, <2>8 DEF Orderly, Visiting
<1>10. Sweeping(q, s) /\ Covers(q, s)
  BY <1>4, <1>5 DEF Sweeping, Covers, AtLinks
<1>. QED
  BY <1>2, <1>4, <1>6, <1>7, <1>8, <1>9, <1>10, MovesHold DEF Sound

\* What holds of the tags at every link statement.
LEMMA SameTags ==
  ASSUME CapInv, WholeInv, NEW q \in Request, q.op \in {"merge", "delete", "detach"},
         NEW s, s.at \in AtLinks \union {"commit"},
         s.tags = tx[q].tags, s.made = tx[q].made, s.artists = tx[q].artists, s.shared = tx[q].shared,
         q.op = "merge" => {q.tag, q.into} \subseteq s.tags,
         q.op = "delete" => q.tag \in s.tags,
         \A l \in s.ins : l \in tx[q].ins \/ (l[2] \in s.tags),
         \A l \in s.del : l \in tx[q].del \/ (l[2] = q.tag /\ (q.op = "detach" => l[1] \in q.artists)),
         Sweeping(q, s), Covers(q, s), Moves(q, s)
  PROVE  WholeInv'
<1>1. /\ Held(q, tx[q]) /\ Alone(q, tx[q]) /\ tx[q].tags \subseteq usedTags
      /\ ~Attacher(q)
  BY Self DEF Attacher
<1>2. s.at \notin Visiting /\ s.at \notin {"idle", "done", "tag", "rename", "rows", "lock tags"}
      /\ s.at \notin {"check", "artist", "recheck", "insert"}
  BY DEF AtLinks, Visiting
<1>3. Held(q, s)
  <2>1. \A l \in s.ins \union s.shared : l[2] \in s.tags
    BY <1>1 DEF Held
  <2>2. \A l \in s.del : l[2] = q.tag /\ IF q.op = "detach" THEN l[1] \in q.artists ELSE l[2] \in s.tags
    BY <1>1 DEF Held
  <2>3. /\ s.made \subseteq s.tags \intersect {s.tag} /\ s.made \intersect DOMAIN tagTable = {}
        /\ s.tags \ s.made \subseteq DOMAIN tagTable /\ s.made = {} /\ s.artists = {}
        /\ q.op = "detach" => s.tags = {}
    BY <1>1 DEF Held
  <2>. QED
    BY <1>1, <1>2, <2>1, <2>2, <2>3 DEF Held
<1>4. Alone(q, s)
  BY <1>1 DEF Alone
<1>5. Orderly(q, s)
  BY <1>2 DEF Orderly
<1>. QED
  BY <1>1, <1>2, <1>3, <1>4, <1>5, MovesHold DEF Sound

LEMMA SeesLinks ==
  ASSUME CapInv, WholeInv, NEW q \in Request, NEW t
  PROVE  SeenLinks(q, t) \in SUBSET Link /\ \A l \in SeenLinks(q, t) : l[2] = t
<1>1. links \subseteq Link /\ tx[q].ins \subseteq Link
  BY Self DEF States
<1>. QED
  BY <1>1 DEF SeenLinks

LEMMA FirstStatementHolds ==
  ASSUME CapInv, WholeInv, NEW q \in Request, tx[q].at = "lock tags", NextStatement(q)
  PROVE  WholeInv'
<1>1. /\ tx[q] \in States /\ q.op \in {"merge", "delete"} /\ tx[q].ins = {} /\ tx[q].del = {}
  BY Self, LabelOfRequest DEF Covers
<1>2. CASE Moves(q, At("done"))
  BY <1>2, AtFields, EndHolds
<1>3. ASSUME q.op = "merge", {q.tag, q.into} \subseteq tx[q].tags,
             NEW o \in Orders(Duplicates(q)),
             Moves(q, [tx[q] EXCEPT !.at = "duplicates", !.todo = o])
      PROVE  WholeInv'
  <2>1. PICK s : s = [tx[q] EXCEPT !.at = "duplicates", !.todo = o]
    OBVIOUS
  <2>2. /\ s.at = "duplicates" /\ s.todo = o /\ s.tags = tx[q].tags /\ s.made = tx[q].made
        /\ s.artists = tx[q].artists /\ s.shared = tx[q].shared /\ s.ins = {} /\ s.del = {}
    BY <1>1, <2>1 DEF States
  <2>3. Duplicates(q) \in SUBSET Link
        /\ \A l \in Duplicates(q) : l[2] = q.tag /\ <<l[1], q.into>> \in links
    BY <1>1, SeesLinks DEF Duplicates, SeenLinks
  <2>4. Range(o) = Duplicates(q) /\ IsInjective(o)
    BY <2>3, FiniteRows, RowsOfSet
  <2>5. \A l \in links : l[2] = q.tag /\ <<l[1], q.into>> \in links => l \in Duplicates(q)
    BY <1>1 DEF Duplicates, SeenLinks
  <2>6. Sweeping(q, s)
    BY <1>3, <2>2, <2>3, <2>4 DEF Sweeping
  <2>7. Covers(q, s)
    BY <1>3, <2>2, <2>3, <2>4, <2>5 DEF Covers
  <2>. QED
    BY <1>3, <2>1, <2>2, <2>6, <2>7, SameTags DEF AtLinks
<1>4. ASSUME q.op = "delete", q.tag \in tx[q].tags, NEW o \in Orders(SeenLinks(q, q.tag)),
             Moves(q, [tx[q] EXCEPT !.at = "sweep", !.todo = o])
      PROVE  WholeInv'
  <2>1. PICK s : s = [tx[q] EXCEPT !.at = "sweep", !.todo = o]
    OBVIOUS
  <2>2. /\ s.at = "sweep" /\ s.todo = o /\ s.tags = tx[q].tags /\ s.made = tx[q].made
        /\ s.artists = tx[q].artists /\ s.shared = tx[q].shared /\ s.ins = {} /\ s.del = {}
    BY <1>1, <2>1 DEF States
  <2>3. SeenLinks(q, q.tag) \in SUBSET Link /\ \A l \in SeenLinks(q, q.tag) : l[2] = q.tag
    BY SeesLinks
  <2>4. Range(o) = SeenLinks(q, q.tag) /\ IsInjective(o)
    BY <2>3, FiniteRows, RowsOfSet
  <2>5. \A l \in links : l[2] = q.tag => l \in SeenLinks(q, q.tag)
    BY <1>1 DEF SeenLinks
  <2>6. Sweeping(q, s)
    BY <1>4, <2>2, <2>3, <2>4 DEF Sweeping
  <2>7. Covers(q, s)
    BY <1>4, <2>2, <2>4, <2>5 DEF Covers
  <2>. QED
    BY <1>4, <2>1, <2>2, <2>6, <2>7, SameTags DEF AtLinks
<1>. QED
  BY <1>1, <1>2, <1>3, <1>4 DEF NextStatement

LEMMA RepointBeginsHolds ==
  ASSUME CapInv, WholeInv, NEW q \in Request, tx[q].at = "duplicates", NextStatement(q)
  PROVE  WholeInv'
<1>1. /\ tx[q] \in States /\ q.op = "merge" /\ tx[q].ins = {} /\ tx[q].todo = <<>>
      /\ {q.tag, q.into} \subseteq tx[q].tags
  <2>1. tx[q] \in States /\ q.op = "merge"
    BY Self, LabelOfRequest
  <2>2. tx[q].todo = <<>>
    BY DEF NextStatement
  <2>3. tx[q].ins = {}
    BY Self DEF Covers
  <2>4. tx[q].at \in AtLinks
    BY DEF AtLinks
  <2>5. {q.tag, q.into} \subseteq tx[q].tags
    BY <2>1, <2>4, Self DEF Held
  <2>. QED
    BY <2>1, <2>2, <2>3, <2>5
<1>2. PICK o \in Orders(SeenLinks(q, q.tag)) :
        Moves(q, [tx[q] EXCEPT !.at = "repoint", !.todo = o])
  BY DEF NextStatement
<1>3. PICK s : s = [tx[q] EXCEPT !.at = "repoint", !.todo = o]
  OBVIOUS
<1>4. /\ s.at = "repoint" /\ s.todo = o /\ s.tags = tx[q].tags /\ s.made = tx[q].made
      /\ s.artists = tx[q].artists /\ s.shared = tx[q].shared /\ s.ins = {} /\ s.del = tx[q].del
  BY <1>1, <1>3 DEF States
<1>5. SeenLinks(q, q.tag) \in SUBSET Link /\ \A l \in SeenLinks(q, q.tag) : l[2] = q.tag
  BY SeesLinks
<1>6. Range(o) = SeenLinks(q, q.tag) /\ IsInjective(o) /\ Range(<<>>) = {}
  <2>1. Range(<<>>) = {}
    BY DEF Range
  <2>. QED
    BY <1>5, <2>1, FiniteRows, RowsOfSet
<1>7. Covers(q, tx[q])
  BY Self
<1>8. /\ \A l \in links : l[2] = q.tag /\ <<l[1], q.into>> \in links => l \in tx[q].del
      /\ \A l \in tx[q].del : <<l[1], q.into>> \in links \/ DetachedBeside(q, l[1])
  BY <1>1, <1>6, <1>7 DEF Covers, AtLinks
<1>9. \A l \in links : l[2] = q.tag => l \in tx[q].del \union SeenLinks(q, q.tag)
  BY DEF SeenLinks
<1>10. \A l \in SeenLinks(q, q.tag) : <<l[1], q.into>> \notin links
  BY <1>1, <1>8 DEF SeenLinks
<1>11. Sweeping(q, s)
  BY <1>1, <1>4, <1>5, <1>6 DEF Sweeping
<1>12. Covers(q, s)
  BY <1>1, <1>4, <1>6, <1>8, <1>9, <1>10 DEF Covers
<1>. QED
  BY <1>1, <1>2, <1>3, <1>4, <1>11, <1>12, SameTags DEF AtLinks

\* Of a merge nothing is left to sweep.
LEMMA SweepBeginsHolds ==
  ASSUME CapInv, WholeInv, NEW q \in Request, tx[q].at = "repoint", NextStatement(q)
  PROVE  WholeInv'
<1>1. /\ tx[q] \in States /\ q.op = "merge" /\ tx[q].todo = <<>> /\ q.tag # q.into
      /\ {q.tag, q.into} \subseteq tx[q].tags
  <2>1. tx[q] \in States /\ q.op = "merge"
    BY Self, LabelOfRequest
  <2>2. tx[q].todo = <<>>
    BY DEF NextStatement
  <2>3. q.tag # q.into
    BY <2>1, LinksAssumption
  <2>4. tx[q].at \in AtLinks
    BY DEF AtLinks
  <2>5. {q.tag, q.into} \subseteq tx[q].tags
    BY <2>1, <2>4, Self DEF Held
  <2>. QED
    BY <2>1, <2>2, <2>3, <2>5
<1>2. PICK o \in Orders(SeenLinks(q, q.tag)) :
        Moves(q, [tx[q] EXCEPT !.at = "sweep", !.todo = o])
  BY DEF NextStatement
<1>3. PICK s : s = [tx[q] EXCEPT !.at = "sweep", !.todo = o]
  OBVIOUS
<1>4. /\ s.at = "sweep" /\ s.todo = o /\ s.tags = tx[q].tags /\ s.made = tx[q].made
      /\ s.artists = tx[q].artists /\ s.shared = tx[q].shared /\ s.ins = tx[q].ins /\ s.del = tx[q].del
  BY <1>1, <1>3 DEF States
<1>5. Covers(q, tx[q]) /\ Range(<<>>) = {}
  BY Self DEF Range
<1>6. /\ \A l \in links : l[2] = q.tag => l \in tx[q].del
      /\ \A l \in tx[q].del : <<l[1], q.into>> \in links \union tx[q].ins \/ DetachedBeside(q, l[1])
  BY <1>1, <1>5 DEF Covers, AtLinks
<1>7. SeenLinks(q, q.tag) = {}
  <2>1. \A l \in tx[q].ins : l[2] # q.tag
    BY <1>1, Self DEF Local
  <2>. QED
    BY <1>6, <2>1 DEF SeenLinks
<1>8. o = <<>>
  <2>1. {} \in SUBSET Link
    OBVIOUS
  <2>2. IsFiniteSet({}) /\ o \in Orders({})
    BY <1>7, <2>1, FiniteRows
  <2>3. o \in Seq({})
    BY <2>2, RowsOfSet
  <2>. QED
    BY <2>3, EmptySeq
<1>9. Sweeping(q, s)
  BY <1>4, <1>5, <1>8 DEF Sweeping, IsInjective
<1>10. Covers(q, s)
  BY <1>1, <1>4, <1>6, <1>8 DEF Covers
<1>. QED
  BY <1>1, <1>2, <1>3, <1>4, <1>9, <1>10, SameTags DEF AtLinks

LEMMA SweepEndsHolds ==
  ASSUME CapInv, WholeInv, NEW q \in Request, tx[q].at = "sweep", NextStatement(q)
  PROVE  WholeInv'
<1>1. /\ tx[q] \in States /\ q.op \in {"merge", "delete", "detach"} /\ tx[q].todo = <<>>
      /\ q.op = "merge" => {q.tag, q.into} \subseteq tx[q].tags
      /\ q.op = "delete" => q.tag \in tx[q].tags
  <2>1. q.op \in {"merge", "delete", "detach"}
    BY Self, RequestFields DEF Labels, Visiting
  <2>. QED
    BY <2>1, Self DEF NextStatement, Held, AtLinks
<1>2. Moves(q, [tx[q] EXCEPT !.at = "commit"])
  BY DEF NextStatement
<1>3. PICK s : s = [tx[q] EXCEPT !.at = "commit"]
  OBVIOUS
<1>4. /\ s.at = "commit" /\ s.tags = tx[q].tags /\ s.made = tx[q].made
      /\ s.artists = tx[q].artists /\ s.shared = tx[q].shared /\ s.ins = tx[q].ins /\ s.del = tx[q].del
  BY <1>1, <1>3 DEF States
<1>5. Covers(q, tx[q]) /\ Range(<<>>) = {}
  BY Self DEF Range
<1>6. /\ q.op \in {"merge", "delete"} => \A l \in links : l[2] = q.tag => l \in tx[q].del
      /\ q.op = "merge" =>
           \A l \in tx[q].del : <<l[1], q.into>> \in links \union tx[q].ins \/ DetachedBeside(q, l[1])
  BY <1>1, <1>5 DEF Covers, AtLinks
<1>7. Sweeping(q, s) /\ Covers(q, s)
  BY <1>4, <1>6 DEF Sweeping, Covers, AtLinks
<1>. QED
  BY <1>1, <1>2, <1>3, <1>4, <1>7, SameTags

LEMMA NextStatementHolds ==
  ASSUME CapInv, WholeInv, NEW q \in Request, NextStatement(q)
  PROVE  WholeInv'
<1>1. tx[q].at \in {"lock tags", "duplicates", "repoint", "sweep"}
  BY DEF NextStatement
<1>. QED
  BY <1>1, FirstStatementHolds, RepointBeginsHolds, SweepBeginsHolds, SweepEndsHolds

\* A row of a link statement.
LEMMA RowOfLinks ==
  ASSUME CapInv, WholeInv, NEW q \in Request, tx[q].at \in AtLinks, tx[q].todo # <<>>
  PROVE  /\ tx[q] \in States /\ q.op \in {"merge", "delete", "detach"}
         /\ tx[q].at # "sweep" => q.op = "merge" /\ {q.tag, q.into} \subseteq tx[q].tags
         /\ tx[q].at = "sweep" => q.op # "merge" /\ (q.op = "delete" => q.tag \in tx[q].tags)
         /\ Range(tx[q].todo) = {Head(tx[q].todo)} \union Range(Tail(tx[q].todo))
         /\ IsInjective(Tail(tx[q].todo)) /\ Head(tx[q].todo) \notin Range(Tail(tx[q].todo))
         /\ \A l \in Range(tx[q].todo) :
              l \in Link /\ l[2] = q.tag /\ (q.op = "detach" => l[1] \in q.artists /\ l \notin tx[q].del)
<1>1. tx[q] \in States /\ tx[q].at \in {"duplicates", "repoint", "sweep"} /\ tx[q].todo \in Seq(Rows)
  BY Self DEF AtLinks, States
<1>2. q.op \in {"merge", "delete", "detach"} /\ (tx[q].at # "sweep" => q.op = "merge")
  BY <1>1, Self, RequestFields DEF Labels, Visiting
<1>3. /\ tx[q].at # "sweep" => {q.tag, q.into} \subseteq tx[q].tags
      /\ tx[q].at = "sweep" => q.op # "merge" /\ (q.op = "delete" => q.tag \in tx[q].tags)
  BY <1>1, <1>2, Self DEF Held, Covers, AtLinks
<1>4. IsInjective(tx[q].todo) /\ \A l \in Range(tx[q].todo) :
        l \in Link /\ l[2] = q.tag /\ (q.op = "detach" => l[1] \in q.artists /\ l \notin tx[q].del)
  BY Self DEF Sweeping
<1>. QED
  BY <1>1, <1>2, <1>3, <1>4, RestOfRows, RowsVisited

LEMMA DeleteLinkHolds ==
  ASSUME CapInv, WholeInv, NEW q \in Request, DeleteLink(q)
  PROVE  WholeInv'
<1>1. PICK h, rest, gone, s :
        /\ h = Head(tx[q].todo) /\ rest = Tail(tx[q].todo) /\ gone = links \intersect {h}
        /\ s = [tx[q] EXCEPT !.todo = rest, !.del = @ \union gone]
  OBVIOUS
<1>2. /\ tx[q].at \in {"duplicates", "sweep"} /\ tx[q].at \in AtLinks /\ tx[q].todo # <<>>
      /\ Moves(q, s)
  BY <1>1 DEF DeleteLink, Proceeds, AtLinks
<1>3. /\ tx[q] \in States /\ q.op \in {"merge", "delete", "detach"}
      /\ tx[q].at = "duplicates" => q.op = "merge" /\ {q.tag, q.into} \subseteq tx[q].tags
      /\ tx[q].at = "sweep" => q.op # "merge" /\ (q.op = "delete" => q.tag \in tx[q].tags)
      /\ Range(tx[q].todo) = {h} \union Range(rest)
      /\ IsInjective(rest) /\ h \notin Range(rest)
      /\ \A l \in {h} \union Range(rest) :
           l \in Link /\ l[2] = q.tag /\ (q.op = "detach" => l[1] \in q.artists /\ l \notin tx[q].del)
  BY <1>1, <1>2, RowOfLinks
<1>4. /\ s.at = tx[q].at /\ s.todo = rest /\ s.tags = tx[q].tags /\ s.made = tx[q].made
      /\ s.artists = tx[q].artists /\ s.shared = tx[q].shared /\ s.ins = tx[q].ins
      /\ s.del = tx[q].del \union gone
  BY <1>1, <1>3 DEF States
<1>5. \A l \in gone : l = h /\ l \in links
  BY <1>1
<1>6. Sweeping(q, s)
  BY <1>3, <1>4, <1>5 DEF Sweeping
<1>7. Covers(q, tx[q])
  BY Self
<1>8. \A l \in links : l \in tx[q].del \union Range(tx[q].todo) => l \in s.del \union Range(rest)
  BY <1>1, <1>3, <1>4
<1>9. Covers(q, s)
  <2>1. CASE tx[q].at = "sweep"
    <3>1. q.op = "delete" => \A l \in links : l[2] = q.tag => l \in s.del \union Range(s.todo)
      BY <1>4, <1>7, <1>8, <2>1 DEF Covers
    <3>. QED
      BY <1>3, <1>4, <2>1, <3>1 DEF Covers
  <2>2. CASE tx[q].at = "duplicates"
    <3>1. /\ tx[q].ins = {}
          /\ \A l \in links : l[2] = q.tag /\ <<l[1], q.into>> \in links =>
               l \in tx[q].del \union Range(tx[q].todo)
          /\ \A l \in Range(tx[q].todo) : <<l[1], q.into>> \in links \/ DetachedBeside(q, l[1])
          /\ \A l \in tx[q].del : <<l[1], q.into>> \in links \union tx[q].ins \/ DetachedBeside(q, l[1])
      BY <1>2, <1>3, <1>7, <2>2 DEF Covers
    <3>2. \A l \in links : l[2] = q.tag /\ <<l[1], q.into>> \in links => l \in s.del \union Range(s.todo)
      BY <1>4, <1>8, <3>1
    <3>3. \A l \in Range(s.todo) : <<l[1], q.into>> \in links \/ DetachedBeside(q, l[1])
      BY <1>3, <1>4, <3>1
    <3>4. \A l \in s.del : <<l[1], q.into>> \in links \union s.ins \/ DetachedBeside(q, l[1])
      BY <1>3, <1>4, <1>5, <3>1
    <3>. QED
      BY <1>3, <1>4, <2>2, <3>1, <3>2, <3>3, <3>4 DEF Covers
  <2>. QED
    BY <1>2, <2>1, <2>2
<1>10. \A l \in s.del : l \in tx[q].del \/ (l[2] = q.tag /\ (q.op = "detach" => l[1] \in q.artists))
  BY <1>3, <1>4, <1>5
<1>. QED
  BY <1>2, <1>3, <1>4, <1>6, <1>9, <1>10, SameTags DEF AtLinks

LEMMA RepointLinkHolds ==
  ASSUME CapInv, WholeInv, NEW q \in Request, RepointLink(q)
  PROVE  WholeInv'
<1>1. PICK h, rest, moved, new, s :
        /\ h = Head(tx[q].todo) /\ rest = Tail(tx[q].todo) /\ moved = links \intersect {h}
        /\ new = {Repointed(q) : l \in moved}
        /\ s = [tx[q] EXCEPT !.todo = rest, !.del = @ \union moved, !.ins = @ \union new]
  OBVIOUS
<1>2. /\ tx[q].at = "repoint" /\ tx[q].at \in AtLinks /\ tx[q].todo # <<>>
      /\ \/ moved # {} /\ Repointed(q) \in SeenLinks(q, q.into)
         \/ Moves(q, s)
  BY <1>1 DEF RepointLink, Proceeds, AtLinks
<1>3. /\ tx[q] \in States /\ q.op = "merge" /\ {q.tag, q.into} \subseteq tx[q].tags
      /\ Range(tx[q].todo) = {h} \union Range(rest)
      /\ IsInjective(rest) /\ h \notin Range(rest)
      /\ \A l \in {h} \union Range(rest) : l \in Link /\ l[2] = q.tag
  BY <1>1, <1>2, RowOfLinks
<1>4. Repointed(q) = <<h[1], q.into>>
  BY <1>1 DEF Repointed
<1>5. /\ \A l \in links : l[2] = q.tag => l \in tx[q].del \union Range(tx[q].todo)
      /\ \A l \in Range(tx[q].todo) : <<l[1], q.into>> \notin links \union tx[q].ins
      /\ \A l \in tx[q].del : <<l[1], q.into>> \in links \union tx[q].ins \/ DetachedBeside(q, l[1])
  BY <1>2, <1>3, Self DEF Covers
<1>6. Moves(q, s)
  BY <1>2, <1>3, <1>4, <1>5 DEF SeenLinks
<1>7. /\ s.at = "repoint" /\ s.todo = rest /\ s.tags = tx[q].tags /\ s.made = tx[q].made
      /\ s.artists = tx[q].artists /\ s.shared = tx[q].shared
      /\ s.ins = tx[q].ins \union new /\ s.del = tx[q].del \union moved
  BY <1>1, <1>2, <1>3 DEF States
<1>8. (\A l \in new : l = <<h[1], q.into>>) /\ (\A l \in moved : l = h /\ <<h[1], q.into>> \in new)
  BY <1>1, <1>4
<1>9. Sweeping(q, s)
  BY <1>3, <1>7 DEF Sweeping
<1>10. Covers(q, s)
  <2>1. \A l \in links : l[2] = q.tag => l \in s.del \union Range(s.todo)
    BY <1>1, <1>3, <1>5, <1>7
  <2>2. ASSUME NEW l \in Range(rest) PROVE <<l[1], q.into>> \notin links \union s.ins
    <3>1. l[1] # h[1]
      <4>1. l \in Link /\ h \in Link /\ l[2] = q.tag /\ h[2] = q.tag /\ l # h
        BY <1>3
      <4>. QED
        BY <4>1 DEF Link
    <3>2. <<l[1], q.into>> # <<h[1], q.into>>
      BY <3>1
    <3>. QED
      BY <1>3, <1>5, <1>7, <1>8, <3>2
  <2>3. \A l \in s.del : <<l[1], q.into>> \in links \union s.ins \/ DetachedBeside(q, l[1])
    BY <1>5, <1>7, <1>8
  <2>. QED
    BY <1>3, <1>7, <2>1, <2>2, <2>3 DEF Covers
<1>11. /\ \A l \in s.ins : l \in tx[q].ins \/ (l[2] \in s.tags)
       /\ \A l \in s.del : l \in tx[q].del \/ l[2] = q.tag
  BY <1>3, <1>7, <1>8
<1>. QED
  BY <1>3, <1>6, <1>7, <1>9, <1>10, <1>11, SameTags DEF AtLinks

LEMMA RenamesHold ==
  ASSUME CapInv, WholeInv, NEW q \in Request, Renames(q)
  PROVE  WholeInv'
<1>1. tx[q] \in States /\ tx[q].at \in {"rename", "index", "collided"}
  BY Self DEF Renames, RenameRow, IndexName, GetCollider, Proceeds
<1>2. q.op = "rename" /\ ~Attacher(q)
  BY <1>1, Self, LabelOfRequest DEF Attacher
<1>3. tx[q].made = {} /\ tx[q].artists = {} /\ tx[q].ins = {} /\ tx[q].shared = {}
  BY <1>2, Self DEF Held, Local
<1>4. ASSUME NEW s, s.at \in {"index", "commit"}, q.tag \in s.tags, s.tags \subseteq DOMAIN tagTable,
             s.made = {}, s.artists = {}, s.ins = {}, s.shared = {}, \A l \in s.del : l[2] = q.tag,
             \A r \in Request \ {q} : s.tags \intersect tx[r].tags = {}, Moves(q, s)
      PROVE  WholeInv'
  <2>1. s.at \notin Visiting \union AtLinks
        /\ s.at \notin {"idle", "done", "tag", "rename", "rows", "lock tags", "check", "artist",
                        "recheck", "insert", "duplicates", "repoint", "sweep", "duplicate key"}
    BY <1>4 DEF Visiting, AtLinks
  <2>2. Held(q, s) /\ Alone(q, s)
    BY <1>2, <1>4, <2>1 DEF Held, Alone
  <2>3. Orderly(q, s) /\ Sweeping(q, s) /\ Covers(q, s)
    BY <1>2, <2>1 DEF Orderly, Sweeping, Covers
  <2>. QED
    BY <1>4, <2>1, <2>2, <2>3, MovesHold DEF Sound, WholeInv, Linked
<1>5. CASE RenameRow(q)
  <2>1. CASE Moves(q, At("done"))
    BY <2>1, AtFields, EndHolds
  <2>2. CASE /\ q.tag \in DOMAIN tagTable
             /\ Moves(q, [tx[q] EXCEPT !.at = "index", !.todo = <<>>, !.tags = {q.tag}])
    <3>1. PICK s : s = [tx[q] EXCEPT !.at = "index", !.todo = <<>>, !.tags = {q.tag}]
      OBVIOUS
    <3>2. /\ s.at = "index" /\ s.tags = {q.tag} /\ s.made = {} /\ s.artists = {}
          /\ s.ins = {} /\ s.shared = {}
          /\ s.del = tx[q].del
      BY <1>1, <1>3, <3>1 DEF States
    <3>3. tx[q].at = "rename" /\ WaitsFor(q) = {}
      BY <1>5 DEF RenameRow, Proceeds
    <3>4. s.del = {}
      BY <1>2, <3>2, <3>3, Self DEF Held
    <3>5. tx[q].todo # <<>> /\ Head(tx[q].todo) = q.tag
      <4>1. Orderly(q, tx[q])
        BY Self
      <4>2. tx[q].todo = <<q.tag>>
        BY <3>3, <4>1 DEF Orderly
      <4>3. <<q.tag>> # <<>> /\ Head(<<q.tag>>) = q.tag
        OBVIOUS
      <4>. QED
        BY <4>2, <4>3
    <3>6. \A r \in Request \ {q} : q.tag \notin tx[r].tags
      BY <3>3, <3>5 DEF WaitsFor, Visits
    <3>7. Moves(q, s) /\ s.tags \subseteq DOMAIN tagTable /\ q.tag \in s.tags
          /\ \A r \in Request \ {q} : s.tags \intersect tx[r].tags = {}
      BY <2>2, <3>1, <3>2, <3>6
    <3>8. s.at \in {"index", "commit"} /\ \A l \in s.del : l[2] = q.tag
      BY <3>2, <3>4
    <3>. QED
      BY <1>4, <3>2, <3>7, <3>8
  <2>. QED
    BY <1>5, <2>1, <2>2 DEF RenameRow
<1>6. CASE IndexName(q)
  <2>1. CASE Moves(q, At("done")) \/ Moves(q, At("collided"))
    BY <2>1, AtFields, EndHolds
  <2>2. CASE Moves(q, [tx[q] EXCEPT !.at = "commit"])
    <3>1. PICK s : s = [tx[q] EXCEPT !.at = "commit"]
      OBVIOUS
    <3>2. /\ s.at = "commit" /\ s.tags = tx[q].tags /\ s.made = {} /\ s.artists = {}
          /\ s.ins = {} /\ s.shared = {}
          /\ s.del = tx[q].del
      BY <1>1, <1>3, <3>1 DEF States
    <3>3. tx[q].at = "index"
      BY <1>6 DEF IndexName, Proceeds
    <3>4. /\ q.tag \in s.tags /\ s.tags \subseteq DOMAIN tagTable
          /\ \A l \in s.del : l[2] = q.tag
          /\ \A r \in Request \ {q} : s.tags \intersect tx[r].tags = {}
      BY <1>2, <1>3, <3>2, <3>3, Self DEF Held, Alone
    <3>5. Moves(q, s) /\ s.at \in {"index", "commit"}
      BY <2>2, <3>1, <3>2
    <3>. QED
      BY <1>4, <3>2, <3>4, <3>5
  <2>. QED
    BY <1>6, <2>1, <2>2 DEF IndexName
<1>7. CASE GetCollider(q)
  <2>1. ASSUME NEW t, Moves(q, [At("done") EXCEPT !.target = t]) PROVE WholeInv'
    <3>1. PICK s : s = [At("done") EXCEPT !.target = t]
      OBVIOUS
    <3>2. s.at = "done" /\ s.made = {} /\ s.artists = {} /\ s.tags = {} /\ s.shared = {} /\ s.ins = {} /\ s.del = {}
      BY <3>1 DEF At
    <3>. QED
      BY <2>1, <3>1, <3>2, EndHolds
  <2>2. CASE Moves(q, [At("rename") EXCEPT !.todo = <<q.tag>>, !.retried = TRUE])
    <3>1. PICK s : s = [At("rename") EXCEPT !.todo = <<q.tag>>, !.retried = TRUE]
      OBVIOUS
    <3>2. /\ s.at = "rename" /\ s.todo = <<q.tag>> /\ s.made = {} /\ s.artists = {}
          /\ s.tags = {} /\ s.shared = {}
          /\ s.ins = {} /\ s.del = {}
      BY <3>1 DEF At
    <3>3. Sound(q, s)
      BY <3>2, NothingSound
    <3>. QED
      BY <2>2, <3>1, <3>2, <3>3, MovesHold
  <2>. QED
    BY <1>7, <2>1, <2>2 DEF GetCollider
<1>. QED
  BY <1>5, <1>6, <1>7 DEF Renames

-----------------------------------------------------------------------------
(* Commits and rollbacks.                                                  *)

\* What a commit names and drops are its own locked tags.
LEMMA CommitNames ==
  ASSUME CapInv, WholeInv, NEW q \in Request, tx[q].at = "commit"
  PROVE  /\ TagsNamed(q) \subseteq tx[q].tags /\ TagsDropped(q) \subseteq tx[q].tags
         /\ TagsNamed(q) \subseteq DOMAIN tagTable \union tx[q].made
         /\ ~Attacher(q) => tx[q].made = {} /\ tx[q].tags \subseteq DOMAIN tagTable
<1>1. Held(q, tx[q])
  BY Self
<1>2. tx[q].at \in AtLinks \union {"commit"} /\ tx[q].at \in {"sweep", "commit"}
      /\ tx[q].at \in {"index", "commit"}
  OBVIOUS
<1>3. /\ q.op = "merge" => q.tag \in tx[q].tags
      /\ q.op = "delete" => q.tag \in tx[q].tags
      /\ q.op = "rename" => q.tag \in tx[q].tags
      /\ tx[q].made \subseteq tx[q].tags /\ tx[q].tags \ tx[q].made \subseteq DOMAIN tagTable
      /\ ~Attacher(q) => tx[q].made = {}
  BY <1>1, <1>2 DEF Held
<1>. QED
  BY <1>3 DEF TagsNamed, TagsDropped, Attacher

\* A commit leaves the tags of the others alone, save that a detach deletes links.
LEMMA CommitApart ==
  ASSUME CapInv, WholeInv, NEW q \in Request, Commit(q), NEW r \in Request \ {q}
  PROVE  /\ \A t \in tx[r].tags : t \in DOMAIN tagTable' <=> t \in DOMAIN tagTable
         /\ \A l \in links' : l[2] \in tx[r].tags => l \in links
         /\ \A l \in links : l[2] \in tx[r].tags /\ l \notin links' =>
              q.op = "detach" /\ l[2] = q.tag /\ l[1] \in q.artists
<1>1. tx[q].at = "commit" /\ links' = (links \ tx[q].del) \union tx[q].ins
      /\ DOMAIN tagTable' = (DOMAIN tagTable \union TagsNamed(q)) \ TagsDropped(q)
  BY DEF Commit
<1>2. tx[q].tags \intersect tx[r].tags = {}
  BY Self DEF Alone
<1>3. \A t \in tx[r].tags : t \notin TagsNamed(q) /\ t \notin TagsDropped(q)
  BY <1>1, <1>2, CommitNames
<1>4. /\ \A l \in tx[q].ins : l[2] \in tx[q].tags
      /\ \A l \in tx[q].del :
           l[2] = q.tag /\ IF q.op = "detach" THEN l[1] \in q.artists ELSE l[2] \in tx[q].tags
  BY Self DEF Held
<1>. QED
  BY <1>1, <1>2, <1>3, <1>4

LEMMA CommitHolds ==
  ASSUME CapInv, WholeInv, NEW q \in Request, Commit(q)
  PROVE  WholeInv'
<1>1. /\ tx[q].at = "commit" /\ links' = (links \ tx[q].del) \union tx[q].ins
      /\ DOMAIN tagTable' = (DOMAIN tagTable \union TagsNamed(q)) \ TagsDropped(q)
      /\ usedTags' = usedTags /\ Changes(q, At("done"))
  BY DEF Commit
<1>2. tx \in [Request -> States] /\ \A r \in Request : tx'[r] = IF r = q THEN At("done") ELSE tx[r]
  BY <1>1 DEF CapInv, Tables, Changes
<1>3. \A r, a : DetachedBeside(r, a) => DetachedBeside(r, a)'
  <2>1. PICK s : s = At("done")
    OBVIOUS
  <2>2. Changes(q, s) /\ s.at # "idle"
    BY <1>1, <2>1, AtFields
  <2>. QED
    BY <1>2, <2>2, BesideStays
<1>4. tx'[q].tags = {} /\ tx'[q].at = "done"
  BY <1>2, AtFields
<1>5. ASSUME NEW r \in Request \ {q} PROVE Sound(r, tx[r])'
  <2>1. PICK v : v = tx[r] /\ v = tx'[r]
    BY <1>2
  <2>2. /\ v.at \in Labels(r) /\ Held(r, v) /\ Alone(r, v) /\ Orderly(r, v)
        /\ Sweeping(r, v) /\ Covers(r, v)
    BY <2>1, Self
  <2>3. /\ \A t \in v.tags : t \in DOMAIN tagTable' <=> t \in DOMAIN tagTable
        /\ \A l \in links' : l[2] \in v.tags => l \in links
        /\ \A l \in links : l[2] \in v.tags /\ l \notin links' =>
             q.op = "detach" /\ l[2] = q.tag /\ l[1] \in q.artists
    BY <2>1, CommitApart
  <2>4. Held(r, v)'
    <3>1. v.made \intersect DOMAIN tagTable' = {} /\ v.tags \ v.made \subseteq DOMAIN tagTable'
      BY <2>2, <2>3 DEF Held
    <3>. QED
      BY <2>2, <3>1 DEF Held
  <2>5. Alone(r, v)'
    BY <1>2, <1>4, <2>2 DEF Alone
  <2>6. Orderly(r, v)' /\ Sweeping(r, v)'
    BY <2>2 DEF Orderly, Sweeping
  <2>7. /\ v.at \in {"duplicates", "repoint"} => r.op = "merge"
        /\ r.op = "merge" /\ v.at \in AtLinks \union {"commit"} => {r.tag, r.into} \subseteq v.tags
        /\ r.op = "delete" /\ v.at \in {"sweep", "commit"} => r.tag \in v.tags
    BY <2>2, LabelOfRequest DEF Held
  <2>8. ASSUME r.into \in v.tags, NEW a PROVE
          /\ <<a, r.into>> \in links' => <<a, r.into>> \in links
          /\ <<a, r.into>> \in links => <<a, r.into>> \in links' \/ DetachedBeside(r, a)'
    <3>1. <<a, r.into>>[2] = r.into /\ <<a, r.into>>[1] = a
      OBVIOUS
    <3>2. q.op = "detach" /\ r.into = q.tag /\ a \in q.artists => DetachedBeside(r, a)'
      BY <1>4 DEF DetachedBeside
    <3>. QED
      BY <2>3, <2>8, <3>1, <3>2
  <2>9. Covers(r, v)'
    <3>1. (r.op = "delete" /\ v.at = "sweep") \/ v.at = "repoint" =>
            \A l \in links' : l[2] = r.tag => l \in v.del \union Range(v.todo)
      BY <2>2, <2>3, <2>7 DEF Covers, AtLinks
    <3>2. (r.op = "delete" /\ v.at = "commit") \/ (r.op = "merge" /\ v.at \in {"sweep", "commit"}) =>
            \A l \in links' : l[2] = r.tag => l \in v.del
      BY <2>2, <2>3, <2>7 DEF Covers, AtLinks
    <3>3. ASSUME v.at = "duplicates"
          PROVE  /\ v.ins = {}
                 /\ \A l \in links' : l[2] = r.tag /\ <<l[1], r.into>> \in links' =>
                      l \in v.del \union Range(v.todo)
                 /\ \A l \in Range(v.todo) : <<l[1], r.into>> \in links' \/ DetachedBeside(r, l[1])'
      <4>1. {r.tag, r.into} \subseteq v.tags
        BY <2>7, <3>3 DEF AtLinks
      <4>2. v.ins = {}
        BY <2>2, <3>3 DEF Covers
      <4>3. \A l \in links : l[2] = r.tag /\ <<l[1], r.into>> \in links => l \in v.del \union Range(v.todo)
        BY <2>2, <3>3 DEF Covers
      <4>4. \A l \in Range(v.todo) : <<l[1], r.into>> \in links \/ DetachedBeside(r, l[1])
        BY <2>2, <3>3 DEF Covers
      <4>5. \A l \in links' : l[2] = r.tag /\ <<l[1], r.into>> \in links' => l \in v.del \union Range(v.todo)
        BY <2>3, <2>8, <4>1, <4>3
      <4>6. \A l \in Range(v.todo) : <<l[1], r.into>> \in links' \/ DetachedBeside(r, l[1])'
        BY <1>3, <2>8, <4>1, <4>4
      <4>. QED
        BY <4>2, <4>5, <4>6
    <3>4. v.at = "repoint" => \A l \in Range(v.todo) : <<l[1], r.into>> \notin links' \union v.ins
      BY <2>2, <2>7, <2>8 DEF Covers, AtLinks
    <3>5. /\ v.at = "sweep" /\ r.op = "merge" => v.todo = <<>>
          /\ v.at # "duplicate key"
          /\ v.at = "lock tags" => v.ins = {} /\ v.del = {}
      BY <2>2 DEF Covers
    <3>6. r.op = "merge" /\ v.at \in AtLinks \union {"commit"} =>
            \A l \in v.del : <<l[1], r.into>> \in links' \union v.ins \/ DetachedBeside(r, l[1])'
      BY <1>3, <2>2, <2>7, <2>8 DEF Covers
    <3>. QED
      BY <3>1, <3>2, <3>3, <3>4, <3>5, <3>6 DEF Covers
  <2>10. Held(r, tx[r])' /\ Alone(r, tx[r])'
    BY <2>1, <2>4, <2>5 DEF Held, Alone
  <2>11. Orderly(r, tx[r])' /\ Sweeping(r, tx[r])'
    BY <2>1, <2>6 DEF Orderly, Sweeping
  <2>12. Covers(r, tx[r])'
    BY <2>1, <2>9 DEF Covers
  <2>. QED
    BY <2>10, <2>11, <2>12 DEF Sound
<1>6. Sound(q, tx[q])'
  <2>1. PICK s : s = tx'[q]
    OBVIOUS
  <2>2. /\ s.made = {} /\ s.artists = {} /\ s.tags = {} /\ s.shared = {} /\ s.ins = {}
        /\ s.del = {} /\ s.at = "done"
    BY <1>2, <2>1, AtFields
  <2>3. s.at \notin Visiting \union AtLinks
        /\ s.at \notin {"tag", "rename", "rows", "lock tags", "check", "artist", "recheck", "insert",
                        "index", "commit", "duplicates", "repoint", "sweep", "duplicate key"}
    BY <2>2 DEF Visiting, AtLinks
  <2>4. Held(q, s)' /\ Alone(q, s)'
    BY <2>2, <2>3 DEF Held, Alone
  <2>5. Orderly(q, s)' /\ Sweeping(q, s)' /\ Covers(q, s)'
    BY <2>3 DEF Orderly, Sweeping, Covers
  <2>6. Held(q, tx[q])' /\ Alone(q, tx[q])'
    BY <2>1, <2>4 DEF Held, Alone
  <2>7. Orderly(q, tx[q])' /\ Sweeping(q, tx[q])'
    BY <2>1, <2>5 DEF Orderly, Sweeping
  <2>8. Covers(q, tx[q])'
    BY <2>1, <2>5 DEF Covers
  <2>. QED
    BY <2>6, <2>7, <2>8 DEF Sound
<1>7. Linked'
  <2>1. /\ \A l \in links : l[2] \in DOMAIN tagTable
        /\ DOMAIN tagTable \subseteq usedTags /\ \A r \in Request : tx[r].tags \subseteq usedTags
    BY DEF WholeInv, Linked
  <2>2. ASSUME NEW l \in links, l \notin tx[q].del PROVE l[2] \in DOMAIN tagTable'
    <3>1. (q.op = "delete" \/ q.op = "merge") => l[2] # q.tag
      BY <1>1, <2>2, Self DEF Covers
    <3>. QED
      BY <1>1, <2>1, <3>1 DEF TagsDropped
  <2>3. ASSUME NEW l \in tx[q].ins PROVE l[2] \in DOMAIN tagTable'
    <3>1. l[2] \in tx[q].tags /\ tx[q].tags \ tx[q].made \subseteq DOMAIN tagTable
      BY <2>3, Self DEF Held
    <3>2. CASE Attacher(q)
      BY <1>1, <3>1, <3>2 DEF Attacher, TagsDropped, TagsNamed
    <3>3. CASE ~Attacher(q)
      <4>1. q.op = "merge" /\ l[2] = q.into
        BY <2>3, <3>3, Self DEF Local
      <4>2. q.tag # q.into
        BY <4>1, LinksAssumption
      <4>3. l[2] \in DOMAIN tagTable
        BY <1>1, <3>1, <3>3, CommitNames
      <4>. QED
        BY <1>1, <4>1, <4>2, <4>3 DEF TagsDropped
    <3>. QED
      BY <3>2, <3>3
  <2>4. \A r \in Request : tx'[r].tags \subseteq usedTags'
    BY <1>1, <1>2, <1>4, <2>1
  <2>5. DOMAIN tagTable' \subseteq usedTags'
    BY <1>1, <2>1, CommitNames
  <2>. QED
    BY <1>1, <2>2, <2>3, <2>4, <2>5 DEF Linked
<1>. QED
  BY <1>5, <1>6, <1>7 DEF WholeInv

LEMMA RollbackHolds ==
  ASSUME CapInv, WholeInv, NEW q \in Request, Rollback(q)
  PROVE  WholeInv'
  BY AtFields, EndHolds DEF Rollback

LEMMA InitIsWhole == LinksInit => WholeInv
<1>. SUFFICES ASSUME LinksInit PROVE WholeInv
  OBVIOUS
<1>1. \A q \in Request : /\ tx[q].at = "idle" /\ tx[q].made = {} /\ tx[q].artists = {} /\ tx[q].tags = {}
                         /\ tx[q].shared = {} /\ tx[q].ins = {} /\ tx[q].del = {}
  BY AtFields DEF LinksInit
<1>2. \A q \in Request : Sound(q, tx[q])
  BY <1>1, NothingSound
<1>3. /\ tagTable = TagsFirst /\ links = LinksFirst /\ usedTags = DOMAIN TagsFirst
      /\ LinksFirst \subseteq ArtistRow \X DOMAIN TagsFirst
  BY LinksAssumption DEF LinksInit
<1>4. Linked
  BY <1>1, <1>3 DEF Linked
<1>. QED
  BY <1>2, <1>4 DEF WholeInv

LEMMA StepIsWhole == CapInv /\ WholeInv /\ [LinksNext]_linksVars => WholeInv'
<1>. SUFFICES ASSUME CapInv, WholeInv, [LinksNext]_linksVars PROVE WholeInv'
  OBVIOUS
<1>1. CASE UNCHANGED linksVars
  <2>1. tx' = tx /\ links' = links /\ tagTable' = tagTable /\ usedTags' = usedTags
    BY <1>1 DEF linksVars
  <2>2. \A r, a : DetachedBeside(r, a)' <=> DetachedBeside(r, a)
    BY <2>1 DEF DetachedBeside
  <2>3. ASSUME NEW q \in Request PROVE Sound(q, tx[q])'
    <3>1. Sound(q, tx[q])
      BY DEF WholeInv
    <3>2. Held(q, tx[q])' /\ Alone(q, tx[q])'
      BY <2>1, <3>1 DEF Sound, Held, Alone
    <3>3. Orderly(q, tx[q])' /\ Sweeping(q, tx[q])'
      BY <2>1, <3>1 DEF Sound, Orderly, Sweeping
    <3>4. Covers(q, tx[q])'
      BY <2>1, <2>2, <3>1 DEF Sound, Covers
    <3>. QED
      BY <3>2, <3>3, <3>4 DEF Sound
  <2>4. Linked'
    BY <2>1 DEF WholeInv, Linked
  <2>. QED
    BY <2>3, <2>4 DEF WholeInv
<1>2. CapInv'
  BY StepFits
<1>3. ASSUME NEW q \in Request, Attaches(q) PROVE WholeInv'
  BY <1>2, <1>3, GetTagHolds, CreateTagHolds, LockRowHolds, GuardedInsertHolds, CheckHolds,
     LockArtistHolds, RecheckHolds, InsertLinkHolds DEF Attaches
<1>4. ASSUME NEW q \in Request, Rewrites(q) PROVE WholeInv'
  BY <1>4, LockTagHolds, NextStatementHolds, DeleteLinkHolds, RepointLinkHolds DEF Rewrites
<1>. QED
  BY <1>1, <1>3, <1>4, BeginHolds, RenamesHold, CommitHolds, RollbackHolds DEF LinksNext

LEMMA WholeAlways == LinksSpec => [](CapInv /\ WholeInv)
<1>1. LinksInit => CapInv /\ WholeInv
  BY InitFits, InitIsWhole
<1>2. (CapInv /\ WholeInv) /\ [LinksNext]_linksVars => (CapInv /\ WholeInv)'
  BY StepFits, StepIsWhole
<1>. QED
  BY <1>1, <1>2, PTL DEF LinksSpec

\* Only commits write the tables.
LEMMA OnlyCommitsWrite ==
  ASSUME [LinksNext]_linksVars
  PROVE  UNCHANGED <<tagTable, links>> \/ \E q \in Request : Commit(q)
  BY DEF LinksNext, linksVars, Begin, Attaches, Rewrites, Renames, GetTag, CreateTag, LockRow,
         GuardedInsert, Check, LockArtist, Recheck, InsertLink, LockTag, NextStatement, DeleteLink,
         RepointLink, RenameRow, IndexName, GetCollider, Rollback, Moves

LEMMA MergesKeep ==
  ASSUME CapInv, WholeInv, [LinksNext]_linksVars
  PROVE  MergeKeepsCarriers
<1>. SUFFICES ASSUME NEW q \in Request, q.op = "merge", tx[q].at = "commit",
                     q.tag \notin DOMAIN tagTable', NEW a \in ArtistRow,
                     Carried(a) \intersect {q.tag, q.into} # {}
              PROVE  <<a, q.into>> \in links' \/ DetachedBeside(q, a)
  BY DEF MergeKeepsCarriers
<1>1. q.tag \in tx[q].tags /\ q.tag \in DOMAIN tagTable
  <2>1. ~Attacher(q) /\ TagsDropped(q) = {q.tag}
    BY DEF Attacher, TagsDropped
  <2>. QED
    BY <2>1, CommitNames
<1>2. PICK c \in Request : Commit(c)
  BY <1>1, OnlyCommitsWrite
<1>3. c = q
  BY <1>1, <1>2, CommitApart
<1>4. links' = (links \ tx[q].del) \union tx[q].ins
  BY <1>2, <1>3 DEF Commit
<1>5. <<a, q.tag>> \in links \/ <<a, q.into>> \in links
  BY DEF Carried
<1>6. /\ \A l \in links : l[2] = q.tag => l \in tx[q].del
      /\ \A l \in tx[q].del : <<l[1], q.into>> \in links \union tx[q].ins \/ DetachedBeside(q, l[1])
  <2>1. tx[q].at \in {"sweep", "commit"} /\ tx[q].at \in AtLinks \union {"commit"}
    OBVIOUS
  <2>. QED
    BY <2>1, Self DEF Covers
<1>7. <<a, q.into>> \in links \union tx[q].ins \/ DetachedBeside(q, a)
  <2>1. <<a, q.tag>>[1] = a /\ <<a, q.tag>>[2] = q.tag
    OBVIOUS
  <2>. QED
    BY <1>5, <1>6, <2>1
<1>8. <<a, q.into>> \notin tx[q].del
  <2>1. q.tag # q.into /\ <<a, q.into>>[2] = q.into
    BY LinksAssumption
  <2>. QED
    BY <2>1, Self DEF Held
<1>. QED
  BY <1>4, <1>7, <1>8

LEMMA NewTagsCarried ==
  ASSUME CapInv, WholeInv, [LinksNext]_linksVars
  PROVE  NewTagIsCarried
<1>. SUFFICES ASSUME NEW t \in DOMAIN tagTable' \ DOMAIN tagTable
              PROVE  \E a \in ArtistRow : <<a, t>> \in links'
  BY DEF NewTagIsCarried
<1>1. PICK q \in Request : Commit(q)
  BY OnlyCommitsWrite
<1>2. tx[q].at = "commit" /\ links' = (links \ tx[q].del) \union tx[q].ins /\ t \in TagsNamed(q)
  BY <1>1 DEF Commit
<1>3. t \in tx[q].made /\ Attacher(q)
  BY <1>2, CommitNames
<1>4. tx[q].ins # {} /\ t = tx[q].tag
  BY <1>2, <1>3, Self DEF Held
<1>5. PICK l \in tx[q].ins : TRUE
  BY <1>4
<1>6. l[2] = t /\ l \in Link
  BY <1>3, <1>4, <1>5, Self DEF Local, States
<1>7. l = <<l[1], t>> /\ l[1] \in ArtistRow
  BY <1>6 DEF Link
<1>. QED
  BY <1>2, <1>5, <1>7

(* What a commit leaves is whole (ADR 0004; service.go and bulk.go): a merge *)
(* loses no carrier of either tag but to a detach that ran beside it, and a  *)
(* tag made on the fly is carried, whatever runs at once and rolls back.     *)
THEOREM CommitsLeaveItWhole == LinksSpec => CommitsAreWhole
<1>1. (CapInv /\ WholeInv) /\ [LinksNext]_linksVars =>
        [MergeKeepsCarriers /\ NewTagIsCarried]_linksVars
  BY MergesKeep, NewTagsCarried
<1>. QED
  BY <1>1, WholeAlways, PTL DEF LinksSpec, CommitsAreWhole

-----------------------------------------------------------------------------
(* Who waits for whom.                                                     *)

\* Nothing rises for ever in a finite set of numbers.
LEMMA Topmost ==
  ASSUME NEW K, K # {}, IsFiniteSet(K), \A k \in K : k \in Int
  PROVE  \E k \in K : \A m \in K : ~(k < m)
<1>1. PICK U : U = {{m \in K : k < m} : k \in K}
  OBVIOUS
<1>2. U \subseteq FiniteSubsetsOf(K) /\ U # {}
  <2>1. FiniteSubsetsOf(K) = SUBSET K
    BY FS_FiniteSubsetsOfFinite
  <2>2. \A u \in U : u \in SUBSET K
    BY <1>1
  <2>3. U # {}
    BY <1>1
  <2>. QED
    BY <2>1, <2>2, <2>3
<1>3. IsWellFoundedOn(StrictSubsetOrdering(K), FiniteSubsetsOf(K))
  BY FS_StrictSubsetOrderingWellFounded
<1>4. PICK u \in U : \A w \in U : ~(<<w, u>> \in StrictSubsetOrdering(K))
  BY <1>2, <1>3, WFMin
<1>5. PICK k \in K : u = {m \in K : k < m}
  BY <1>1
<1>6. ASSUME NEW m \in K, k < m PROVE FALSE
  <2>1. PICK w : w = {n \in K : m < n}
    OBVIOUS
  <2>2. w \in U
    BY <1>1, <2>1
  <2>3. \A n \in K : m < n => k < n
    BY <1>6
  <2>4. w \subseteq u /\ u \subseteq K /\ m \in u /\ m \notin w
    BY <1>5, <1>6, <2>1, <2>3
  <2>5. <<w, u>> \in StrictSubsetOrdering(K)
    BY <2>4 DEF StrictSubsetOrdering
  <2>. QED
    BY <1>4, <2>2, <2>5
<1>. QED
  BY <1>6

LEMMA AtMostOne ==
  ASSUME NEW S, IsFiniteSet(S), Cardinality(S) <= 1, NEW x \in S, NEW y \in S
  PROVE  x = y
<1>1. IsFiniteSet(S \ {x}) /\ Cardinality(S \ {x}) = Cardinality(S) - 1
  BY FS_RemoveElement
<1>2. Cardinality(S) \in Nat /\ Cardinality(S \ {x}) \in Nat
  BY <1>1, FS_CardinalityType
<1>3. Cardinality(S \ {x}) = 0
  BY <1>1, <1>2
<1>4. S \ {x} = {}
  BY <1>1, <1>3, FS_EmptySet
<1>. QED
  BY <1>4

\* Where a request waits.
Waiting == {"tag", "rows", "lock tags", "rename", "index"} \union Visiting \union AtLinks

LEMMA WhereItWaits ==
  ASSUME NEW q \in Request, WaitsFor(q) # {}
  PROVE  tx[q].at \in Waiting /\ (tx[q].at \in {"rows", "lock tags", "rename"} \union AtLinks => tx[q].todo # <<>>)
<1>1. tx[q].at \in Waiting
  BY DEF WaitsFor, Visits, Waiting, Visiting, AtLinks
<1>2. ASSUME tx[q].at \in {"rows", "lock tags", "rename"} \union AtLinks PROVE tx[q].todo # <<>>
  BY <1>2 DEF WaitsFor, Visits, AtLinks
<1>. QED
  BY <1>1, <1>2

\* A detach from one artist that still waits has deleted nothing.
LEMMA SmallDetach ==
  ASSUME CapInv, WholeInv, NEW q \in Request, q.op = "detach", ~AnyOrder(q), WaitsFor(q) # {}
  PROVE  /\ tx[q].at = "sweep" /\ tx[q].todo # <<>>
         /\ tx[q].del = {} /\ tx[q].ins = {} /\ tx[q].shared = {}
         /\ tx[q].tags = {} /\ tx[q].artists = {}
<1>1. ~Attacher(q) /\ tx[q].at \in {"idle", "done", "commit", "sweep"}
  <2>1. tx[q].at \in Labels(q)
    BY Self
  <2>. QED
    BY <2>1 DEF Labels, Attacher
<1>2. tx[q].at = "sweep" /\ tx[q].at \in AtLinks /\ tx[q].todo # <<>>
  BY <1>1, WhereItWaits DEF Waiting, Visiting, AtLinks
<1>3. tx[q].ins = {} /\ tx[q].shared = {} /\ tx[q].tags = {} /\ tx[q].artists = {}
  BY <1>1, Self DEF Local, Held
<1>4. PICK h : h = Head(tx[q].todo)
  OBVIOUS
<1>5. h \in Link /\ h[2] = q.tag /\ h[1] \in q.artists /\ h \notin tx[q].del
  BY <1>2, <1>4, RowOfLinks
<1>6. IsFiniteSet(q.artists) /\ Cardinality(q.artists) <= 1
  <2>1. q.artists \in SUBSET ArtistRow
    BY LinksAssumption DEF Requests
  <2>2. IsFiniteSet(q.artists)
    BY <2>1, FiniteRows
  <2>3. Cardinality(q.artists) \in Nat
    BY <2>2, FS_CardinalityType
  <2>. QED
    BY <2>2, <2>3 DEF AnyOrder
<1>7. ASSUME NEW d \in tx[q].del PROVE FALSE
  <2>1. d[2] = q.tag /\ d[1] \in q.artists
    BY <1>7, Self DEF Held
  <2>2. d[1] = h[1]
    BY <1>5, <1>6, <2>1, AtMostOne
  <2>3. d \in Link
    BY <1>7, Self DEF States
  <2>4. d = h
    BY <1>5, <2>1, <2>2, <2>3 DEF Link
  <2>. QED
    BY <1>5, <1>7, <2>4
<1>. QED
  BY <1>2, <1>3, <1>7

\* Nobody who waits holds a link of a tag that another has locked.
LEMMA LinksOfLockedTags ==
  ASSUME CapInv, WholeInv, NEW q \in Request, NEW r \in Request \ {q}, ~AnyOrder(r), WaitsFor(r) # {},
         NEW l, l[2] \in tx[q].tags
  PROVE  l \notin tx[r].ins \union tx[r].del \union tx[r].shared
<1>1. tx[q].tags \intersect tx[r].tags = {}
  BY Self DEF Alone
<1>2. l \notin tx[r].ins \union tx[r].shared
  BY <1>1, Self DEF Held
<1>3. l \notin tx[r].del
  <2>1. CASE r.op = "detach"
    BY <2>1, SmallDetach
  <2>2. CASE r.op # "detach"
    BY <1>1, <2>2, Self DEF Held
  <2>. QED
    BY <2>1, <2>2
<1>. QED
  BY <1>2, <1>3

\* So one that is no detach waits for a tag or for artists, never for a link.
LEMMA NoWaitForLinks ==
  ASSUME CapInv, WholeInv, NEW q \in Request, q.op # "detach", ~AnyOrder(q),
         NEW r \in WaitsFor(q), ~AnyOrder(r), WaitsFor(r) # {}
  PROVE  \/ /\ tx[q].at = "tag" /\ Attacher(q) /\ tx[r].tags # {}
         \/ /\ tx[q].at \in {"rows", "artist"} /\ Attacher(q) /\ tx[q].todo # <<>>
            /\ Head(tx[q].todo) \in tx[r].artists
         \/ /\ tx[q].at = "lock tags" /\ tx[q].todo # <<>>
            /\ Head(tx[q].todo) \in tx[r].tags
<1>1. r \in Request \ {q} /\ q.op # "rename"
  BY DEF WaitsFor, AnyOrder
<1>2. /\ tx[q].at \in Labels(q) /\ tx[q] \in States
      /\ tx[q].at \in {"tag", "rows"} \union Visiting => Attacher(q)
      /\ tx[q].at \notin {"rename", "index"}
  BY <1>1, Self, LabelOfRequest DEF Attacher
<1>3. ASSUME NEW l, l[2] \in tx[q].tags
      PROVE  ~Written(r, l) /\ ~InDoubt(r, l) /\ l \notin tx[r].shared
  BY <1>1, <1>3, LinksOfLockedTags DEF Written, InDoubt
<1>4. tx[q].at \notin {"check", "recheck", "insert"}
  <2>1. SUFFICES ASSUME tx[q].at \in {"check", "recheck", "insert"} PROVE FALSE
    OBVIOUS
  <2>2. tx[q].at \in Visiting \union {"rows"}
    BY <2>1 DEF Visiting
  <2>3. NewLink(q)[2] \in tx[q].tags
    <3>1. tx[q].tag \in tx[q].tags
      BY <2>2, Self DEF Held
    <3>. QED
      BY <3>1 DEF NewLink
  <2>4. ~Written(r, NewLink(q)) /\ ~InDoubt(r, NewLink(q))
    BY <1>3, <2>3
  <2>. QED
    BY <2>1, <2>4 DEF WaitsFor, Visits
<1>5. tx[q].at \notin {"duplicates", "repoint", "sweep"}
  <2>1. SUFFICES ASSUME tx[q].at \in {"duplicates", "repoint", "sweep"} PROVE FALSE
    OBVIOUS
  <2>2. tx[q].at \in AtLinks /\ tx[q].todo # <<>>
    <3>1. tx[q].at \in AtLinks
      BY <2>1 DEF AtLinks
    <3>. QED
      BY <3>1, WhereItWaits
  <2>3. PICK h : h = Head(tx[q].todo)
    OBVIOUS
  <2>4. h[2] = q.tag /\ q.op \in {"merge", "delete"} /\ q.tag \in tx[q].tags
        /\ (tx[q].at = "repoint" => q.into \in tx[q].tags)
    BY <2>1, <2>2, <2>3, RowOfLinks
  <2>5. ~Written(r, h) /\ h \notin tx[r].shared
    BY <1>3, <2>4
  <2>6. tx[q].at = "repoint" => ~Written(r, Repointed(q))
    <3>1. Repointed(q)[2] = q.into
      BY DEF Repointed
    <3>. QED
      BY <1>3, <2>4, <3>1
  <2>. QED
    BY <2>1, <2>3, <2>5, <2>6 DEF WaitsFor, Visits
<1>6. tx[q].at \in {"tag", "rows", "artist", "lock tags"}
  BY <1>2, <1>4, <1>5, WhereItWaits DEF Waiting, Visiting, AtLinks
<1>7. CASE tx[q].at = "tag"
  BY <1>2, <1>7 DEF WaitsFor, Visits
<1>8. CASE tx[q].at \in {"rows", "artist"}
  BY <1>2, <1>8 DEF WaitsFor, Visits, Visiting
<1>9. CASE tx[q].at = "lock tags"
  BY <1>9 DEF WaitsFor, Visits
<1>. QED
  BY <1>6, <1>7, <1>8, <1>9

\* A small detach waits for one that is no detach.
LEMMA DetachWaitsForOthers ==
  ASSUME CapInv, WholeInv, NEW q \in Request, q.op = "detach", ~AnyOrder(q),
         NEW r \in WaitsFor(q), ~AnyOrder(r), WaitsFor(r) # {}
  PROVE  r.op # "detach"
<1>1. SUFFICES ASSUME r.op = "detach" PROVE FALSE
  OBVIOUS
<1>2. r \in Request
  BY DEF WaitsFor
<1>3. tx[r].del = {} /\ tx[r].ins = {} /\ tx[r].shared = {}
  BY <1>1, <1>2, SmallDetach
<1>4. tx[q].at = "sweep"
  BY SmallDetach
<1>. QED
  BY <1>3, <1>4 DEF WaitsFor, Visits, Written

\* Whoever waits for an artist's row, waits for one above all it holds.
LEMMA ArtistsRise ==
  ASSUME CapInv, WholeInv, NEW q \in Request, ~AnyOrder(q), q.op # "detach",
         NEW r \in Request \ {q}, ~AnyOrder(r), r.op # "detach",
         tx[q].at \in {"rows", "artist"}, tx[q].todo # <<>>, Attacher(q),
         Head(tx[q].todo) \in tx[r].artists,
         \/ tx[r].at = "tag"
         \/ tx[r].at \in {"rows", "artist"} /\ Attacher(r) /\ tx[r].todo # <<>>
         \/ tx[r].at = "lock tags"
  PROVE  /\ tx[r].at \in {"rows", "artist"} /\ Head(tx[q].todo) \in ArtistRow
         /\ Head(tx[q].todo) < Head(tx[r].todo) \/ Head(tx[r].todo) \in tx[r].artists
<1>1. tx[r].artists # {} /\ tx[r].artists \subseteq ArtistRow
  BY Self DEF States
<1>2. tx[r].at # "tag"
  BY <1>1, Self DEF Held
<1>3. tx[r].at # "lock tags"
  <2>1. ASSUME tx[r].at = "lock tags" PROVE ~Attacher(r)
    BY <2>1, Self, LabelOfRequest DEF Attacher
  <2>. QED
    BY <1>1, <2>1, Self DEF Held
<1>4. tx[r].at \in {"rows", "artist"} /\ Attacher(r) /\ tx[r].todo # <<>>
  BY <1>2, <1>3
<1>5. PICK t, h : t = tx[r].todo /\ h = Head(t)
  OBVIOUS
<1>6. t \in Seq(ArtistRow) /\ t # <<>>
  BY <1>4, <1>5, Self DEF Local
<1>7. h \in Range(t)
  BY <1>5, <1>6, RowsVisited
<1>8. CASE r.op = "attach" \/ tx[r].at = "rows"
  <2>1. \A x \in tx[r].artists, y \in Range(tx[r].todo) : x < y
    BY <1>4, <1>8, Self DEF Orderly
  <2>. QED
    BY <1>1, <1>4, <1>5, <1>7, <2>1
<1>9. CASE r.op = "bulk attach" /\ tx[r].at = "artist"
  <2>1. tx[r].at \in Visiting
    BY <1>9 DEF Visiting
  <2>2. Sure(r, tx[r], h)
    BY <1>5, <1>7, <1>9, <2>1 DEF Sure
  <2>3. h \in ArtistRow /\ HasRoom(r, tx[r])
    BY <1>5, <1>6, RowsVisited DEF CapInv, Fits
  <2>4. h \in tx[r].artists
    BY <1>4, <2>2, <2>3 DEF HasRoom
  <2>. QED
    BY <1>1, <1>4, <1>5, <2>4
<1>. QED
  BY <1>4, <1>8, <1>9 DEF Attacher

\* No requests wait in a circle, when none of them locks in any order: those that
\* wait for artists, then those that wait for tags, would rise for ever.
LEMMA NoCircle ==
  ASSUME CapInv, WholeInv, NEW S \in SUBSET Request, Circle(S), \A q \in S : ~AnyOrder(q)
  PROVE  FALSE
<1>1. PICK T, A, L : /\ T = {q \in S : q.op # "detach"}
                     /\ A = {q \in T : tx[q].at \in {"rows", "artist"}}
                     /\ L = {q \in T : tx[q].at = "lock tags"}
  OBVIOUS
<1>2. \A q \in S : WaitsFor(q) # {} /\ \E r \in S : r \in WaitsFor(q)
  BY DEF Circle
<1>3. \A q \in S : WaitsFor(q) \subseteq Request \ {q}
  BY DEF WaitsFor
<1>4. T # {}
  <2>1. PICK q \in S : TRUE
    BY DEF Circle
  <2>2. PICK r \in S : r \in WaitsFor(q)
    BY <1>2
  <2>3. q.op = "detach" => r.op # "detach"
    BY <1>2, <2>2, DetachWaitsForOthers
  <2>. QED
    BY <1>1, <2>3
<1>5. ASSUME NEW q \in T
      PROVE  \E r \in T \ {q} :
               \/ tx[q].at = "tag" /\ Attacher(q) /\ tx[r].tags # {}
               \/ /\ tx[q].at \in {"rows", "artist"} /\ Attacher(q) /\ tx[q].todo # <<>>
                  /\ Head(tx[q].todo) \in tx[r].artists
               \/ /\ tx[q].at = "lock tags" /\ tx[q].todo # <<>>
                  /\ Head(tx[q].todo) \in tx[r].tags
  <2>1. q \in S /\ q.op # "detach" /\ q \in Request
    BY <1>1
  <2>2. PICK r \in S : r \in WaitsFor(q)
    BY <1>2, <2>1
  <2>3. r # q /\ WaitsFor(r) # {} /\ r \in Request
    BY <1>2, <1>3, <2>1, <2>2
  <2>4. \/ tx[q].at = "tag" /\ Attacher(q) /\ tx[r].tags # {}
        \/ /\ tx[q].at \in {"rows", "artist"} /\ Attacher(q) /\ tx[q].todo # <<>>
           /\ Head(tx[q].todo) \in tx[r].artists
        \/ /\ tx[q].at = "lock tags" /\ tx[q].todo # <<>>
           /\ Head(tx[q].todo) \in tx[r].tags
    BY <2>1, <2>2, <2>3, NoWaitForLinks
  <2>5. r.op = "detach" => tx[r].tags = {} /\ tx[r].artists = {}
    BY <2>3, SmallDetach
  <2>6. r \in T \ {q}
    BY <1>1, <2>3, <2>4, <2>5
  <2>. QED
    BY <2>4, <2>6
<1>6. \A q \in T : tx[q].at \in {"tag", "lock tags"} \/ (tx[q].at \in {"rows", "artist"}
                                                        /\ Attacher(q) /\ tx[q].todo # <<>>)
  BY <1>5
<1>7. ASSUME NEW q \in A
      PROVE  \E r \in A : Head(tx[q].todo) \in ArtistRow /\ Head(tx[q].todo) < Head(tx[r].todo)
  <2>1. /\ q \in T /\ q \in Request /\ q.op # "detach" /\ ~AnyOrder(q)
        /\ tx[q].at \in {"rows", "artist"} /\ Attacher(q) /\ tx[q].todo # <<>>
    BY <1>1, <1>6
  <2>2. PICK r \in T \ {q} : Head(tx[q].todo) \in tx[r].artists
    BY <1>5, <2>1
  <2>3. r \in Request \ {q} /\ r.op # "detach" /\ ~AnyOrder(r)
    BY <1>1
  <2>4. /\ tx[r].at \in {"rows", "artist"} /\ Head(tx[q].todo) \in ArtistRow
        /\ Head(tx[q].todo) < Head(tx[r].todo) \/ Head(tx[r].todo) \in tx[r].artists
    BY <1>6, <2>1, <2>2, <2>3, ArtistsRise
  <2>5. PICK w \in T \ {r} : Head(tx[r].todo) \in tx[w].artists
    BY <1>5, <2>4
  <2>6. Head(tx[r].todo) \notin tx[r].artists
    <3>1. Apart(r, tx[r]) /\ w \in Request \ {r}
      BY <1>1, <2>3, <2>5, Self
    <3>. QED
      BY <2>5, <3>1 DEF Apart
  <2>. QED
    BY <1>1, <2>4, <2>6
<1>8. A = {}
  <2>1. SUFFICES ASSUME A # {} PROVE FALSE
    OBVIOUS
  <2>2. PICK K : K = {Head(tx[q].todo) : q \in A}
    OBVIOUS
  <2>3. K \in SUBSET ArtistRow /\ K # {}
    <3>1. \A q \in A : Head(tx[q].todo) \in ArtistRow
      BY <1>7
    <3>. QED
      BY <2>1, <2>2, <3>1
  <2>4. IsFiniteSet(K) /\ \A k \in K : k \in Int
    BY <2>3, FiniteRows, RowNumbers
  <2>5. PICK k \in K : \A m \in K : ~(k < m)
    BY <2>3, <2>4, Topmost
  <2>6. PICK q \in A : k = Head(tx[q].todo)
    BY <2>2
  <2>. QED
    BY <1>7, <2>2, <2>5, <2>6
<1>9. ASSUME NEW q \in T, NEW r \in T \ {q}, tx[r].tags # {} PROVE tx[r].at = "lock tags"
  <2>1. r \notin A /\ r \in Request
    BY <1>1, <1>8
  <2>2. tx[r].at # "tag"
    BY <1>9, <2>1, Self DEF Held
  <2>. QED
    BY <1>1, <1>6, <2>1, <2>2
<1>10. ASSUME NEW q \in L
       PROVE  \E r \in L : Head(tx[q].todo) \in TagRow /\ Head(tx[q].todo) < Head(tx[r].todo)
  <2>1. q \in T /\ tx[q].at = "lock tags"
    BY <1>1
  <2>2. PICK r \in T \ {q} : Head(tx[q].todo) \in tx[r].tags
    BY <1>5, <2>1
  <2>3. tx[r].at = "lock tags" /\ r \in Request /\ r \in L
    <3>1. tx[r].tags # {}
      BY <2>2
    <3>. QED
      BY <1>1, <1>9, <2>1, <3>1
  <2>4. tx[r].todo # <<>> /\ tx[r].todo \in Seq(Rows)
    BY <1>5, <2>3, Self DEF States
  <2>5. PICK t : t = tx[r].todo
    OBVIOUS
  <2>6. Head(t) \in Range(t)
    BY <2>4, <2>5, RowsVisited
  <2>7. tx[r].tags \subseteq TagRow /\ \A x \in tx[r].tags, u \in Range(tx[r].todo) : x < u
    BY <2>3, Self DEF Orderly, States
  <2>. QED
    BY <2>2, <2>3, <2>5, <2>6, <2>7
<1>11. L = {}
  <2>1. SUFFICES ASSUME L # {} PROVE FALSE
    OBVIOUS
  <2>2. PICK K : K = {Head(tx[q].todo) : q \in L}
    OBVIOUS
  <2>3. K \in SUBSET TagRow /\ K # {}
    <3>1. \A q \in L : Head(tx[q].todo) \in TagRow
      BY <1>10
    <3>. QED
      BY <2>1, <2>2, <3>1
  <2>4. IsFiniteSet(K) /\ \A k \in K : k \in Int
    BY <2>3, FiniteRows, RowNumbers
  <2>5. PICK k \in K : \A m \in K : ~(k < m)
    BY <2>3, <2>4, Topmost
  <2>6. PICK q \in L : k = Head(tx[q].todo)
    BY <2>2
  <2>. QED
    BY <1>10, <2>2, <2>5, <2>6
<1>12. PICK q \in T : TRUE
  BY <1>4
<1>13. tx[q].at = "tag"
  BY <1>1, <1>6, <1>8, <1>11
<1>14. PICK r \in T \ {q} : tx[r].tags # {}
  BY <1>5, <1>13
<1>. QED
  BY <1>1, <1>9, <1>11, <1>14

(* A request fails only for a known reason (tags.sql, LockTagsForMerge; ADR  *)
(* 0004): no requests deadlock, save with a detach from several artists or   *)
(* among renames, the trigger refuses only single attaches, and no merge     *)
(* meets a link it did not know.                                             *)
THEOREM AbortsAreExplained == LinksSpec => []AbortsAreExcused
<1>1. ASSUME CapInv, WholeInv PROVE AbortsAreExcused
  <2>1. \A S \in SUBSET {q \in Request : tx[q].at \notin {"idle", "done"}} :
          Circle(S) => \E q \in S : AnyOrder(q)
    BY <1>1, NoCircle
  <2>2. \A q \in Request : tx[q].at = "refused" => q.op = "attach"
    BY <1>1, Self, LabelOfRequest
  <2>3. \A q \in Request : tx[q].at # "duplicate key"
    BY <1>1, Self DEF Covers
  <2>. QED
    BY <2>1, <2>2, <2>3 DEF AbortsAreExcused
<1>. QED
  BY <1>1, WholeAlways, PTL

-----------------------------------------------------------------------------
(* Names.                                                                  *)

\* The tags that a commit of q would name.
Writes(q, s) ==
  CASE Attacher(q) -> s.made
    [] q.op = "rename" /\ s.at = "commit" -> {q.tag}
    [] OTHER -> {}

\* Who will name a tag has the name to itself.
NamesInv ==
  /\ IsInjective(tagTable) /\ Range(tagTable) \subseteq TagName
  /\ \A q \in Request : Writes(q, tx[q]) # {} =>
       /\ Committed(q.name) \subseteq Writes(q, tx[q])
       /\ \A r \in Request \ {q} : Writes(r, tx[r]) # {} => r.name # q.name

LEMMA NamesKept ==
  ASSUME CapInv, NamesInv, NEW q \in Request, NEW s, Changes(q, s), UNCHANGED tagTable,
         Writes(q, s) # {} =>
           /\ Committed(q.name) \subseteq Writes(q, s)
           /\ \A r \in Request \ {q} : Writes(r, tx[r]) # {} => r.name # q.name
  PROVE  NamesInv'
<1>1. \A r \in Request : tx'[r] = IF r = q THEN s ELSE tx[r]
  BY DEF CapInv, Tables, Changes
<1>2. \A n : Committed(n)' = Committed(n)
  BY DEF Committed
<1>3. \A r \in Request : Writes(r, tx[r])' = Writes(r, IF r = q THEN s ELSE tx[r])
  BY <1>1 DEF Writes
<1>4. ASSUME NEW r \in Request, Writes(r, tx[r])' # {}
      PROVE  /\ Committed(r.name) \subseteq Writes(r, tx[r])'
             /\ \A h \in Request \ {r} : Writes(h, tx[h])' # {} => h.name # r.name
  <2>1. CASE r = q
    <3>1. \A h \in Request \ {q} : Writes(h, tx[h])' = Writes(h, tx[h])
      BY <1>3
    <3>2. Writes(q, tx[q])' = Writes(q, s)
      BY <1>3
    <3>. QED
      BY <1>4, <2>1, <3>1, <3>2
  <2>2. CASE r # q
    <3>1. Writes(r, tx[r])' = Writes(r, tx[r]) /\ Writes(r, tx[r]) # {}
      BY <1>3, <1>4, <2>2
    <3>2. ASSUME NEW h \in Request \ {r}, Writes(h, tx[h])' # {} PROVE h.name # r.name
      <4>1. CASE h = q
        BY <1>3, <2>2, <3>1, <3>2, <4>1
      <4>2. CASE h # q
        BY <1>3, <3>1, <3>2, <4>2 DEF NamesInv
      <4>. QED
        BY <4>1, <4>2
    <3>. QED
      BY <3>1, <3>2 DEF NamesInv
  <2>. QED
    BY <2>1, <2>2
<1>. QED
  BY <1>2, <1>4 DEF NamesInv

\* Steps that leave the names it will write as they are, or give them up.
LEMMA SameNames ==
  ASSUME CapInv, NamesInv, NEW q \in Request, NEW s, Moves(q, s),
         Writes(q, s) \in {Writes(q, tx[q]), {}}
  PROVE  NamesInv'
<1>1. Changes(q, s) /\ UNCHANGED tagTable
  BY DEF Moves
<1>2. Writes(q, s) # {} =>
        /\ Committed(q.name) \subseteq Writes(q, s)
        /\ \A r \in Request \ {q} : Writes(r, tx[r]) # {} => r.name # q.name
  BY DEF NamesInv
<1>. QED
  BY <1>1, <1>2, NamesKept

LEMMA NoNames ==
  ASSUME NEW q \in Request, NEW s, s.made = {}, s.at # "commit" \/ q.op # "rename"
  PROVE  Writes(q, s) = {}
  BY DEF Writes

\* Who will name a tag with n has claimed n.
LEMMA WritersClaim ==
  ASSUME CapInv, WholeInv, NEW q \in Request, Writes(q, tx[q]) # {}
  PROVE  Claimed(q, q.name) # {}
<1>1. CASE Attacher(q)
  <2>1. tx[q].made # {} /\ tx[q].made \subseteq tx[q].tags
    BY <1>1, Self DEF Writes, Held, Attacher
  <2>. QED
    BY <1>1, <2>1 DEF Claimed, Attacher
<1>2. CASE ~Attacher(q)
  <2>1. q.op = "rename" /\ tx[q].at = "commit"
    BY <1>2 DEF Writes
  <2>2. q.tag \in tx[q].tags
    BY <2>1, Self DEF Held
  <2>. QED
    BY <2>1, <2>2 DEF Claimed
<1>. QED
  BY <1>1, <1>2

LEMMA BeginNames ==
  ASSUME CapInv, NamesInv, NEW q \in Request, Begin(q)
  PROVE  NamesInv'
<1>1. ASSUME NEW where, where # "commit", NEW t,
             Moves(q, At(where)) \/ Moves(q, [At(where) EXCEPT !.todo = t])
      PROVE  NamesInv'
  <2>1. PICK s : s \in {At(where), [At(where) EXCEPT !.todo = t]} /\ Moves(q, s)
    BY <1>1
  <2>2. s.made = {} /\ s.at = where
    BY <2>1 DEF At
  <2>. QED
    BY <1>1, <2>1, <2>2, NoNames, SameNames
<1>2. CASE Moves(q, At("tag"))
  BY <1>1, <1>2
<1>3. CASE \E s \in Orders({l \in SeenLinks(q, q.tag) : l[1] \in q.artists}) :
             Moves(q, [At("sweep") EXCEPT !.todo = s])
  BY <1>1, <1>3
<1>4. CASE \E s : Moves(q, [At("lock tags") EXCEPT !.todo = s])
  BY <1>1, <1>4
<1>5. CASE Moves(q, [At("rename") EXCEPT !.todo = <<q.tag>>])
  BY <1>1, <1>5
<1>. QED
  BY <1>2, <1>3, <1>4, <1>5 DEF Begin

LEMMA AttachNames ==
  ASSUME CapInv, WholeInv, NamesInv, NEW q \in Request, Attaches(q), ~CreateTag(q)
  PROVE  NamesInv'
<1>1. tx[q] \in States /\ tx[q].at \in {"tag", "rows"} \union Visiting
  BY Self DEF Attaches, GetTag, LockRow, GuardedInsert, Check, LockArtist, Recheck, InsertLink,
              Proceeds, Visiting
<1>2. Attacher(q)
  BY <1>1, Self, LabelOfRequest DEF Attacher
<1>3. \A s : s.made \in {tx[q].made, {}} => Writes(q, s) \in {Writes(q, tx[q]), {}}
  BY <1>2 DEF Writes, Attacher
<1>4. CASE GetTag(q)
  <2>1. PICK t, o, s : s = GotTag(q, t, {}, o) /\ Moves(q, s)
    BY <1>4 DEF GetTag
  <2>2. s.made \in {tx[q].made, {}}
    BY <2>1 DEF GotTag, At
  <2>3. Writes(q, s) \in {Writes(q, tx[q]), {}}
    BY <1>3, <2>2
  <2>4. Moves(q, s)
    BY <2>1
  <2>. QED
    BY <2>3, <2>4, SameNames
<1>5. CASE LockRow(q)
  <2>1. PICK s : s = [tx[q] EXCEPT !.artists = @ \union {Head(tx[q].todo)}, !.todo = Tail(@)]
                 /\ Moves(q, s)
    BY <1>5 DEF LockRow
  <2>2. s.made \in {tx[q].made, {}}
    BY <1>1, <2>1 DEF States
  <2>3. Writes(q, s) \in {Writes(q, tx[q]), {}}
    BY <1>3, <2>2
  <2>4. Moves(q, s)
    BY <2>1
  <2>. QED
    BY <2>3, <2>4, SameNames
<1>6. CASE GuardedInsert(q)
  <2>1. PICK s, where, o : /\ s = At("done") \/ s = [tx[q] EXCEPT !.at = where, !.todo = o]
                           /\ Moves(q, s)
    BY <1>6 DEF GuardedInsert
  <2>2. s.made \in {tx[q].made, {}}
    BY <1>1, <2>1, AtFields DEF States
  <2>3. Writes(q, s) \in {Writes(q, tx[q]), {}}
    BY <1>3, <2>2
  <2>4. Moves(q, s)
    BY <2>1
  <2>. QED
    BY <2>3, <2>4, SameNames
<1>7. CASE Check(q) \/ Recheck(q)
  <2>1. PICK s, where : s = [tx[q] EXCEPT !.shared = SharedIfFound(q), !.at = where] /\ Moves(q, s)
    BY <1>7 DEF Check, Recheck
  <2>2. s.made \in {tx[q].made, {}}
    BY <1>1, <2>1 DEF States
  <2>3. Writes(q, s) \in {Writes(q, tx[q]), {}}
    BY <1>3, <2>2
  <2>4. Moves(q, s)
    BY <2>1
  <2>. QED
    BY <2>3, <2>4, SameNames
<1>8. CASE LockArtist(q)
  <2>1. PICK s : s = [tx[q] EXCEPT !.artists = @ \union {Head(tx[q].todo)}, !.at = "recheck"]
                 /\ Moves(q, s)
    BY <1>8 DEF LockArtist
  <2>2. s.made \in {tx[q].made, {}}
    BY <1>1, <2>1 DEF States
  <2>3. Writes(q, s) \in {Writes(q, tx[q]), {}}
    BY <1>3, <2>2
  <2>4. Moves(q, s)
    BY <2>1
  <2>. QED
    BY <2>3, <2>4, SameNames
<1>9. CASE InsertLink(q)
  <2>1. PICK s, where : /\ s = [tx[q] EXCEPT !.ins = @ \union ({NewLink(q)} \ links), !.todo = Tail(@),
                                             !.at = where]
                        /\ Moves(q, s)
    BY <1>9 DEF InsertLink
  <2>2. s.made \in {tx[q].made, {}}
    BY <1>1, <2>1 DEF States
  <2>3. Writes(q, s) \in {Writes(q, tx[q]), {}}
    BY <1>3, <2>2
  <2>4. Moves(q, s)
    BY <2>1
  <2>. QED
    BY <2>3, <2>4, SameNames
<1>. QED
  BY <1>4, <1>5, <1>6, <1>7, <1>8, <1>9 DEF Attaches

\* A name is given to a new tag only when no one else has it or will have it.
LEMMA CreateTagNames ==
  ASSUME CapInv, WholeInv, NamesInv, NEW q \in Request, CreateTag(q)
  PROVE  NamesInv'
<1>1. Named(q.name) = {} /\ UNCHANGED tagTable
  BY DEF CreateTag
<1>2. PICK s : Changes(q, s)
  BY DEF CreateTag
<1>3. Committed(q.name) = {}
  BY <1>1 DEF Named
<1>4. \A r \in Request : Claimed(r, q.name) = {}
  BY <1>1 DEF Named
<1>5. \A r \in Request \ {q} : Writes(r, tx[r]) # {} => r.name # q.name
  BY <1>4, WritersClaim
<1>. QED
  BY <1>1, <1>2, <1>3, <1>5, NamesKept

LEMMA RewriteNames ==
  ASSUME CapInv, WholeInv, NamesInv, NEW q \in Request, Rewrites(q)
  PROVE  NamesInv'
<1>1. ~Attacher(q) /\ q.op # "rename"
  <2>1. tx[q].at \in {"lock tags", "duplicates", "repoint", "sweep"}
    BY DEF Rewrites, LockTag, NextStatement, DeleteLink, RepointLink, Proceeds
  <2>2. tx[q].at \in Labels(q)
    BY Self
  <2>. QED
    BY <2>1, <2>2 DEF Labels, Visiting, Attacher
<1>2. \A s : Writes(q, s) = {}
  BY <1>1 DEF Writes
<1>3. \E s : Moves(q, s)
  BY DEF Rewrites, LockTag, NextStatement, DeleteLink, RepointLink
<1>. QED
  BY <1>2, <1>3, SameNames

\* A rename passes the index only when no one else has the name or will have it.
LEMMA RenameNames ==
  ASSUME CapInv, WholeInv, NamesInv, NEW q \in Request, Renames(q)
  PROVE  NamesInv'
<1>1. tx[q] \in States /\ tx[q].at \in {"rename", "index", "collided"}
  BY Self DEF Renames, RenameRow, IndexName, GetCollider, Proceeds
<1>2. q.op = "rename" /\ ~Attacher(q)
  BY <1>1, Self, LabelOfRequest DEF Attacher
<1>3. \A s : s.at # "commit" => Writes(q, s) = {}
  BY <1>2 DEF Writes
<1>4. CASE RenameRow(q)
  <2>1. PICK s : /\ s = At("done") \/ s = [tx[q] EXCEPT !.at = "index", !.todo = <<>>, !.tags = {q.tag}]
                 /\ Moves(q, s)
    BY <1>4 DEF RenameRow
  <2>2. s.at \in {"done", "index"}
    BY <1>1, <2>1, AtFields DEF States
  <2>. QED
    BY <1>3, <2>1, <2>2, SameNames
<1>5. CASE IndexName(q)
  <2>1. CASE Moves(q, At("done")) \/ Moves(q, At("collided"))
    <3>1. Writes(q, At("done")) = {} /\ Writes(q, At("collided")) = {}
      BY <1>3, AtFields
    <3>. QED
      BY <2>1, <3>1, SameNames
  <2>2. CASE Committed(q.name) \subseteq {q.tag} /\ Moves(q, [tx[q] EXCEPT !.at = "commit"])
    <3>1. PICK s : s = [tx[q] EXCEPT !.at = "commit"]
      OBVIOUS
    <3>2. Writes(q, s) = {q.tag}
      BY <1>1, <1>2, <3>1 DEF Writes, States
    <3>3. tx[q].at = "index" /\ WaitsFor(q) = {}
      BY <1>5 DEF IndexName, Proceeds
    <3>4. \A r \in Request \ {q} : Claimed(r, q.name) = {}
      BY <3>3 DEF WaitsFor
    <3>5. \A r \in Request \ {q} : Writes(r, tx[r]) # {} => r.name # q.name
      BY <3>4, WritersClaim
    <3>6. Changes(q, s) /\ UNCHANGED tagTable
      BY <2>2, <3>1 DEF Moves
    <3>. QED
      BY <2>2, <3>2, <3>5, <3>6, NamesKept
  <2>. QED
    BY <1>5, <2>1, <2>2 DEF IndexName
<1>6. CASE GetCollider(q)
  <2>1. PICK t, s : /\ \/ s = [At("done") EXCEPT !.target = t]
                       \/ s = [At("rename") EXCEPT !.todo = <<q.tag>>, !.retried = TRUE]
                    /\ Moves(q, s)
    BY <1>6 DEF GetCollider
  <2>2. s.at \in {"done", "rename"}
    BY <2>1 DEF At
  <2>. QED
    BY <1>3, <2>1, <2>2, SameNames
<1>. QED
  BY <1>4, <1>5, <1>6 DEF Renames

LEMMA CommitNamesHold ==
  ASSUME CapInv, WholeInv, NamesInv, NEW q \in Request, Commit(q)
  PROVE  NamesInv'
<1>1. /\ tx[q].at = "commit" /\ Changes(q, At("done"))
      /\ tagTable' = [t \in (DOMAIN tagTable \union TagsNamed(q)) \ TagsDropped(q) |->
                        IF t \in TagsNamed(q) THEN q.name ELSE tagTable[t]]
  BY DEF Commit
<1>2. Held(q, tx[q]) /\ \A r \in Request : tx'[r] = IF r = q THEN At("done") ELSE tx[r]
  BY <1>1, Self DEF CapInv, Tables, Changes
<1>3. PICK W : W = Writes(q, tx[q])
  OBVIOUS
<1>4. TagsNamed(q) = W
  <2>1. CASE Attacher(q)
    BY <1>3, <2>1 DEF Writes, TagsNamed, Attacher
  <2>2. CASE q.op = "rename"
    BY <1>1, <1>3, <2>2 DEF Writes, TagsNamed, Attacher
  <2>3. CASE ~Attacher(q) /\ q.op # "rename"
    BY <1>2, <1>3, <2>3 DEF Writes, TagsNamed, Held
  <2>. QED
    BY <2>1, <2>2, <2>3
<1>5. (\A t, u \in W : t = u) /\ (W # {} => q.name \in TagName)
  <2>1. CASE Attacher(q)
    <3>1. W \subseteq {tx[q].tag}
      BY <1>2, <1>3, <2>1 DEF Writes, Held, Attacher, TagsNamed
    <3>2. q.name \in TagName
      BY <2>1, LinksAssumption DEF Requests, Attacher
    <3>. QED
      BY <3>1, <3>2
  <2>2. CASE ~Attacher(q)
    <3>1. W \in {{}, {q.tag}} /\ (W # {} => q.op = "rename")
      BY <1>3, <2>2 DEF Writes
    <3>2. q.op = "rename" => q.name \in TagName
      BY LinksAssumption DEF Requests
    <3>. QED
      BY <3>1, <3>2
  <2>. QED
    BY <2>1, <2>2
<1>6. W # {} => Committed(q.name) \subseteq W
  BY <1>3 DEF NamesInv
<1>7. IsInjective(tagTable')
  <2>1. SUFFICES ASSUME NEW t \in DOMAIN tagTable', NEW u \in DOMAIN tagTable',
                        tagTable'[t] = tagTable'[u]
                 PROVE  t = u
    BY DEF IsInjective
  <2>2. CASE t \in W /\ u \in W
    BY <1>5, <2>2
  <2>3. CASE t \in W /\ u \notin W
    <3>1. u \in DOMAIN tagTable /\ tagTable[u] = q.name
      BY <1>1, <1>4, <2>1, <2>3
    <3>. QED
      BY <1>6, <2>3, <3>1 DEF Committed
  <2>4. CASE t \notin W /\ u \in W
    <3>1. t \in DOMAIN tagTable /\ tagTable[t] = q.name
      BY <1>1, <1>4, <2>1, <2>4
    <3>. QED
      BY <1>6, <2>4, <3>1 DEF Committed
  <2>5. CASE t \notin W /\ u \notin W
    <3>1. t \in DOMAIN tagTable /\ u \in DOMAIN tagTable /\ tagTable[t] = tagTable[u]
      BY <1>1, <1>4, <2>1, <2>5
    <3>. QED
      BY <3>1 DEF NamesInv, IsInjective
  <2>. QED
    BY <2>2, <2>3, <2>4, <2>5
<1>8. Range(tagTable') \subseteq TagName
  <2>1. SUFFICES ASSUME NEW t \in DOMAIN tagTable' PROVE tagTable'[t] \in TagName
    BY DEF Range
  <2>2. CASE t \in W
    BY <1>1, <1>4, <1>5, <2>2
  <2>3. CASE t \notin W
    <3>1. t \in DOMAIN tagTable /\ tagTable'[t] = tagTable[t]
      BY <1>1, <1>4, <2>3
    <3>. QED
      BY <3>1 DEF NamesInv, Range
  <2>. QED
    BY <2>2, <2>3
<1>9. Writes(q, tx[q])' = {}
  <2>1. tx'[q].made = {} /\ tx'[q].at = "done"
    BY <1>2, AtFields
  <2>. QED
    BY <2>1 DEF Writes
<1>10. ASSUME NEW r \in Request, Writes(r, tx[r])' # {}
       PROVE  /\ Committed(r.name)' \subseteq Writes(r, tx[r])'
              /\ \A h \in Request \ {r} : Writes(h, tx[h])' # {} => h.name # r.name
  <2>1. r # q
    BY <1>9, <1>10
  <2>2. \A h \in Request \ {q} : Writes(h, tx[h])' = Writes(h, tx[h])
    BY <1>2 DEF Writes
  <2>3. Writes(r, tx[r])' = Writes(r, tx[r])
    BY <2>1, <2>2
  <2>4. Committed(r.name)' \subseteq Committed(r.name)
    <3>1. ASSUME NEW t \in DOMAIN tagTable', tagTable'[t] = r.name
          PROVE  t \in DOMAIN tagTable /\ tagTable[t] = r.name
      <4>1. t \notin W
        <5>1. SUFFICES ASSUME t \in W PROVE FALSE
          OBVIOUS
        <5>2. tagTable'[t] = q.name
          BY <1>1, <1>4, <5>1
        <5>3. r.name # q.name
          BY <1>3, <1>10, <2>1, <2>3, <5>1 DEF NamesInv
        <5>. QED
          BY <3>1, <5>2, <5>3
      <4>. QED
        BY <1>1, <1>4, <3>1, <4>1
    <3>. QED
      BY <3>1 DEF Committed
  <2>5. ASSUME NEW h \in Request \ {r}, Writes(h, tx[h])' # {} PROVE h.name # r.name
    <3>1. h # q
      BY <1>9, <2>5
    <3>. QED
      BY <1>10, <2>2, <2>3, <2>5, <3>1 DEF NamesInv
  <2>. QED
    BY <1>10, <2>3, <2>4, <2>5 DEF NamesInv
<1>. QED
  BY <1>7, <1>8, <1>10 DEF NamesInv

LEMMA InitNames == LinksInit => NamesInv
<1>. SUFFICES ASSUME LinksInit PROVE NamesInv
  OBVIOUS
<1>1. tagTable = TagsFirst /\ IsInjective(TagsFirst) /\ Range(TagsFirst) \subseteq TagName
  BY LinksAssumption DEF LinksInit
<1>2. \A q \in Request : tx[q].made = {} /\ tx[q].at = "idle"
  BY AtFields DEF LinksInit
<1>3. \A q \in Request : Writes(q, tx[q]) = {}
  BY <1>2, NoNames
<1>. QED
  BY <1>1, <1>3 DEF NamesInv

LEMMA StepNames == CapInv /\ WholeInv /\ NamesInv /\ [LinksNext]_linksVars => NamesInv'
<1>. SUFFICES ASSUME CapInv, WholeInv, NamesInv, [LinksNext]_linksVars PROVE NamesInv'
  OBVIOUS
<1>1. CASE UNCHANGED linksVars
  <2>1. tx' = tx /\ tagTable' = tagTable
    BY <1>1 DEF linksVars
  <2>2. \A n : Committed(n)' = Committed(n)
    BY <2>1 DEF Committed
  <2>3. \A q : Writes(q, tx[q])' = Writes(q, tx[q])
    BY <2>1 DEF Writes
  <2>. QED
    BY <2>1, <2>2, <2>3 DEF NamesInv
<1>2. ASSUME NEW q \in Request, Rollback(q) PROVE NamesInv'
  <2>1. Writes(q, At("done")) = {}
    BY AtFields, NoNames
  <2>. QED
    BY <1>2, <2>1, SameNames DEF Rollback
<1>. QED
  BY <1>1, <1>2, BeginNames, AttachNames, CreateTagNames, RewriteNames, RenameNames,
     CommitNamesHold
     DEF LinksNext

LEMMA TypesFollow == CapInv /\ WholeInv /\ NamesInv => LinksTypeOK
<1>. SUFFICES ASSUME CapInv, WholeInv, NamesInv PROVE LinksTypeOK
  OBVIOUS
<1>1. /\ DOMAIN tagTable \subseteq usedTags /\ usedTags \subseteq TagRow
      /\ IsInjective(tagTable) /\ Range(tagTable) \subseteq TagName
      /\ tx \in [Request -> States]
  BY DEF CapInv, Tables, WholeInv, Linked, NamesInv
<1>2. links \subseteq ArtistRow \X DOMAIN tagTable
  BY DEF CapInv, Tables, WholeInv, Linked, Link
<1>3. \A q \in Request :
        /\ tx[q].tag \in TagRow \union {0}
        /\ tx[q].made \subseteq tx[q].tags /\ tx[q].tags \subseteq TagRow
        /\ tx[q].artists \subseteq ArtistRow
        /\ UNION {tx[q].shared, tx[q].ins, tx[q].del} \subseteq Link
        /\ tx[q].target \in TagRow \union {0}
  BY Self DEF Held, States
<1>. QED
  BY <1>1, <1>2, <1>3 DEF LinksTypeOK

(* Every variable keeps its type, and no two tags ever have the same name    *)
(* (tags_name_lower_idx), however attaches and renames to one name overlap:  *)
(* the index makes the later one wait for the end of the earlier one.        *)
THEOREM NamesStayUnique == LinksSpec => []LinksTypeOK
<1>1. LinksInit => CapInv /\ WholeInv /\ NamesInv
  BY InitFits, InitIsWhole, InitNames
<1>2. (CapInv /\ WholeInv /\ NamesInv) /\ [LinksNext]_linksVars => (CapInv /\ WholeInv /\ NamesInv)'
  BY StepFits, StepIsWhole, StepNames
<1>. QED
  BY <1>1, <1>2, TypesFollow, PTL DEF LinksSpec
=============================================================================
