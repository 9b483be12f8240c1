------------------------------ MODULE TagLinks ------------------------------
(* Which tags an artist carries: the transactions of tags/service.go and    *)
(* tags/bulk.go, statement by statement, with the cap trigger on            *)
(* artist_tags (migrations 000010 to 000012), as Postgres runs them under   *)
(* READ COMMITTED: a statement sees what was committed when it began, and   *)
(* waits for the holder of a row it locks.                                  *)
(*                                                                          *)
(* A request is one transaction, run once; only a rename has several, one a *)
(* statement.  All row locks taken here exclude each other, save KEY SHARE  *)
(* on a link (ADR 0004); the KEY SHARE of foreign keys meets none of them.  *)
(* Entries of the watchlist stand for their artists, and the carriers that  *)
(* answers count are left out.                                              *)
EXTENDS Naturals, Sequences, FiniteSets, Functions

CONSTANTS
  ArtistRow,   \* ids of artists
  TagRow,      \* ids of tags, in the order the sequence gives them
  TagName,     \* normalized names
  TagsFirst,   \* the tags table at first: id -> name
  LinksFirst,  \* the artist_tags table at first
  MaxTags,     \* MaxTagsPerArtist, the literal 10 of the trigger
  Request,     \* the requests that may come
  MaxStarted   \* bound: how many do

Link == ArtistRow \X TagRow

Requests ==
  [op : {"attach", "bulk attach"}, artists : SUBSET ArtistRow, name : TagName]
    \union [op : {"detach"}, artists : SUBSET ArtistRow, tag : TagRow]
    \union [op : {"merge"}, tag : TagRow, into : TagRow]
    \union [op : {"delete"}, tag : TagRow]
    \union [op : {"rename"}, tag : TagRow, name : TagName, by : Nat]  \* by whom: two may ask the same

ASSUME LinksAssumption ==
  /\ ArtistRow \subseteq Nat /\ IsFiniteSet(ArtistRow)
  /\ TagRow \subseteq Nat /\ IsFiniteSet(TagRow)
  /\ DOMAIN TagsFirst \subseteq TagRow /\ IsInjective(TagsFirst)
  /\ Range(TagsFirst) \subseteq TagName
  /\ LinksFirst \subseteq ArtistRow \X DOMAIN TagsFirst
  /\ Request \subseteq Requests
  /\ \A q \in Request :
       /\ q.op = "attach" => Cardinality(q.artists) = 1
       /\ q.op = "merge" => q.tag # q.into
  /\ MaxTags \in Nat /\ MaxStarted \in Nat
  /\ \A a \in ArtistRow :
       Cardinality({t \in TagRow : <<a, t>> \in LinksFirst}) <= MaxTags

VARIABLES
  tagTable,   \* tags, committed: id -> name
  links,      \* artist_tags, committed
  usedTags,   \* ids the sequence has given out: it never takes one back
  tx          \* per request: where its transaction is and what it holds

linksVars == <<tagTable, links, usedTags, tx>>

(* at:      the statement that comes next                                   *)
(* todo:    the rows the statement under way has still to visit             *)
(* tag:     the tag that is attached                                        *)
(* made:    tags it created                                                 *)
(* tags, artists: rows it has locked                                        *)
(* shared:  links it holds FOR KEY SHARE                                    *)
(* ins, del: links it has written                                           *)
(* retried: a rename that found the name free again                         *)
(* target:  the tag a rename reports as a collision                         *)
At(where) ==
  [at |-> where, todo |-> <<>>, tag |-> 0, made |-> {}, tags |-> {}, artists |-> {},
   shared |-> {}, ins |-> {}, del |-> {}, retried |-> FALSE, target |-> 0]

LinksInit ==
  /\ tagTable = TagsFirst
  /\ links = LinksFirst
  /\ usedTags = DOMAIN TagsFirst
  /\ tx = [q \in Request |-> At("idle")]

-----------------------------------------------------------------------------
(* What a statement reads.                                                   *)

Orders(S) == {s \in [1..Cardinality(S) -> S] : IsInjective(s)}

\* ORDER BY id.
Ascending(S) == {s \in Orders(S) : \A i, j \in DOMAIN s : i < j => s[i] < s[j]}

Carried(a) == {t \in TagRow : <<a, t>> \in links}

\* The tag of a name.
Committed(n) == {t \in DOMAIN tagTable : tagTable[t] = n}

\* The tags that an open transaction has written with a name or taken it from:
\* the no-op update of an attach, a rename past the index, a tag deleted.
Claimed(r, n) ==
  {t \in tx[r].tags :
     \/ r.op \in {"attach", "bulk attach"} /\ r.name = n
     \/ r.op = "rename" /\ r.name = n /\ tx[r].at = "commit"
     \/ r.op \in {"rename", "delete"} /\ t \in Committed(n)
     \/ r.op = "merge" /\ t = r.tag /\ t \in Committed(n) /\ tx[r].at \in {"sweep", "commit"}}

\* A tag of a name, also one whose name is not committed yet.
Named(n) == Committed(n) \union UNION {Claimed(r, n) : r \in Request}

\* The links of a tag that a transaction sees.
SeenLinks(q, t) ==
  {l \in (links \union tx[q].ins) \ tx[q].del : l[2] = t}

\* The link of the attach under way, and where a merge moves one.
NewLink(q) == <<Head(tx[q].todo), tx[q].tag>>
Repointed(q) == <<Head(tx[q].todo)[1], q.into>>

-----------------------------------------------------------------------------
(* Whom a statement waits for.                                               *)

\* Migrations 000010 and 000011: a link is there until its delete commits.
TakenAsSeen(r, l) == FALSE

\* PERFORM 1 ... FOR KEY SHARE: waits for a delete or a change of key.
InDoubt(r, l) == l \in tx[r].del

Written(r, l) == l \in tx[r].ins \union tx[r].del

Visits(q, where) == tx[q].at \in where /\ tx[q].todo # <<>>

WaitsFor(q) ==
  {r \in Request \ {q} :
     \/ tx[q].at = "tag" /\ tx[r].tags \intersect Named(q.name) # {}
     \/ Visits(q, {"rows", "artist"}) /\ Head(tx[q].todo) \in tx[r].artists
     \/ Visits(q, {"lock tags", "rename"}) /\ Head(tx[q].todo) \in tx[r].tags
     \/ tx[q].at = "index" /\ Claimed(r, q.name) # {}
     \/ Visits(q, {"check", "recheck"}) /\ InDoubt(r, NewLink(q))
     \/ Visits(q, {"insert"}) /\ Written(r, NewLink(q))
     \/ /\ Visits(q, {"duplicates", "repoint", "sweep"})
        /\ Head(tx[q].todo) \in tx[r].shared \/ Written(r, Head(tx[q].todo))
     \/ Visits(q, {"repoint"}) /\ Written(r, Repointed(q))}

Changes(q, state) == tx' = [tx EXCEPT ![q] = state]

\* A statement that reads and locks, but writes no table.
Moves(q, state) == Changes(q, state) /\ UNCHANGED <<tagTable, links, usedTags>>

Proceeds(q, where) == tx[q].at \in where /\ WaitsFor(q) = {}

-----------------------------------------------------------------------------
(* The requests.                                                             *)

Begin(q) ==
  /\ tx[q].at = "idle"
  /\ Cardinality({r \in Request : tx[r].at # "idle"}) < MaxStarted
  /\ \/ /\ q.op \in {"attach", "bulk attach"}
        /\ Moves(q, At("tag"))
     \/ /\ q.op = "detach"
        /\ \E s \in Orders({l \in SeenLinks(q, q.tag) : l[1] \in q.artists}) :
             Moves(q, [At("sweep") EXCEPT !.todo = s])
     \/ /\ q.op = "merge"
        /\ \E s \in Ascending(DOMAIN tagTable \intersect {q.tag, q.into}) :
             Moves(q, [At("lock tags") EXCEPT !.todo = s])
     \/ /\ q.op = "delete"
        /\ \E s \in Ascending(DOMAIN tagTable \intersect {q.tag}) :
             Moves(q, [At("lock tags") EXCEPT !.todo = s])
     \/ /\ q.op = "rename"
        /\ Moves(q, [At("rename") EXCEPT !.todo = <<q.tag>>])

\* Without LockWatchlistArtistsForBulkTag.
NoPreLock(q) == "check"

\* What comes after GetOrCreateTag: the trigger, or first the artists' rows.
AfterTag(q) == IF q.op = "attach" THEN "check" ELSE "rows"

GotTag(q, t, made, s) ==
  [At(AfterTag(q)) EXCEPT !.tag = t, !.tags = {t}, !.made = made, !.todo = s]

GetTag(q) ==
  /\ Proceeds(q, {"tag"})
  /\ \E t \in Named(q.name), s \in Ascending(q.artists) : Moves(q, GotTag(q, t, {}, s))

CreateTag(q) ==
  /\ Proceeds(q, {"tag"}) /\ Named(q.name) = {}
  /\ \E t \in TagRow \ usedTags, s \in Ascending(q.artists) :
       /\ \A u \in TagRow \ usedTags : t <= u
       /\ usedTags' = usedTags \union {t}
       /\ Changes(q, GotTag(q, t, {t}, s))
  /\ UNCHANGED <<tagTable, links>>

\* LockWatchlistArtistsForBulkTag, one row at a time.
LockRow(q) ==
  /\ Proceeds(q, {"rows"}) /\ tx[q].todo # <<>>
  /\ Moves(q, [tx[q] EXCEPT !.artists = @ \union {Head(tx[q].todo)}, !.todo = Tail(@)])

\* BulkAttachTag's snapshot: the artists that lack the tag and have room.
GuardedInsert(q) ==
  /\ Proceeds(q, {"rows"}) /\ tx[q].todo = <<>>
  /\ LET had  == {a \in q.artists : <<a, tx[q].tag>> \in links}
         room == {a \in q.artists \ had : Cardinality(Carried(a)) < MaxTags}
     IN  \/ had \union room = {} /\ Moves(q, At("done"))
         \/ /\ had \union room # {}
            /\ \E s \in Ascending(room) :
                 Moves(q, [tx[q] EXCEPT !.at = IF room = {} THEN "commit" ELSE "check",
                                        !.todo = s])

-----------------------------------------------------------------------------
(* One row of an insert: check_artist_tags_max_per_artist, then the index.   *)

SharedIfFound(q) == tx[q].shared \union (links \intersect {NewLink(q)})

Check(q) ==
  /\ Proceeds(q, {"check"})
  /\ Moves(q, [tx[q] EXCEPT !.shared = SharedIfFound(q),
                            !.at = IF NewLink(q) \in links THEN "insert" ELSE "artist"])

LockArtist(q) ==
  /\ Proceeds(q, {"artist"})
  /\ Moves(q, [tx[q] EXCEPT !.artists = @ \union {Head(tx[q].todo)}, !.at = "recheck"])

Recheck(q) ==
  /\ Proceeds(q, {"recheck"})
  /\ LET full == Cardinality(Carried(Head(tx[q].todo))) >= MaxTags
     IN  Moves(q, [tx[q] EXCEPT !.shared = SharedIfFound(q),
           !.at = IF NewLink(q) \notin links /\ full THEN "refused" ELSE "insert"])

\* ON CONFLICT DO NOTHING.
InsertLink(q) ==
  /\ Proceeds(q, {"insert"})
  /\ Moves(q, [tx[q] EXCEPT !.ins = @ \union ({NewLink(q)} \ links), !.todo = Tail(@),
                            !.at = IF Tail(tx[q].todo) = <<>> THEN "commit" ELSE "check"])

-----------------------------------------------------------------------------
(* Merge and delete.                                                         *)

\* LockTagsForMerge in id order, or the row that a delete deletes: a row that
\* went away meanwhile is skipped.
LockTag(q) ==
  /\ Proceeds(q, {"lock tags"}) /\ tx[q].todo # <<>>
  /\ Moves(q, [tx[q] EXCEPT !.todo = Tail(@),
       !.tags = @ \union (DOMAIN tagTable \intersect {Head(tx[q].todo)})])

\* DeleteDuplicateSourceLinks without its EXISTS.
AllSourceLinks(q) == SeenLinks(q, q.tag)

Duplicates(q) ==
  {l \in SeenLinks(q, q.tag) : <<l[1], q.into>> \in SeenLinks(q, q.into)}

\* The statement that follows, with the links its snapshot has for it.
NextStatement(q) ==
  /\ tx[q].todo = <<>>
  /\ \/ /\ tx[q].at = "lock tags"
        /\ \/ q.op = "merge" /\ {q.tag, q.into} \subseteq tx[q].tags
              /\ \E s \in Orders(Duplicates(q)) :
                   Moves(q, [tx[q] EXCEPT !.at = "duplicates", !.todo = s])
           \/ q.op = "delete" /\ q.tag \in tx[q].tags
              /\ \E s \in Orders(SeenLinks(q, q.tag)) :
                   Moves(q, [tx[q] EXCEPT !.at = "sweep", !.todo = s])
           \/ q.op = "merge" /\ ~({q.tag, q.into} \subseteq tx[q].tags) /\ Moves(q, At("done"))
           \/ q.op = "delete" /\ q.tag \notin tx[q].tags /\ Moves(q, At("done"))
     \/ /\ tx[q].at = "duplicates"
        /\ \E s \in Orders(SeenLinks(q, q.tag)) :
             Moves(q, [tx[q] EXCEPT !.at = "repoint", !.todo = s])
     \/ /\ tx[q].at = "repoint"
        /\ \E s \in Orders(SeenLinks(q, q.tag)) :
             Moves(q, [tx[q] EXCEPT !.at = "sweep", !.todo = s])
     \/ /\ tx[q].at = "sweep"
        /\ Moves(q, [tx[q] EXCEPT !.at = "commit"])

\* One row of a DELETE: gone, or moved, since the snapshot means skipped.
DeleteLink(q) ==
  /\ Proceeds(q, {"duplicates", "sweep"}) /\ tx[q].todo # <<>>
  /\ Moves(q, [tx[q] EXCEPT !.todo = Tail(@),
       !.del = @ \union (links \intersect {Head(tx[q].todo)})])

\* One row of RepointSourceLinks; the primary key refuses a second link.
RepointLink(q) ==
  /\ Proceeds(q, {"repoint"}) /\ tx[q].todo # <<>>
  /\ LET moved == links \intersect {Head(tx[q].todo)}
     IN  Moves(q, IF moved # {} /\ Repointed(q) \in SeenLinks(q, q.into)
           THEN [tx[q] EXCEPT !.at = "duplicate key"]
           ELSE [tx[q] EXCEPT !.todo = Tail(@), !.del = @ \union moved,
                              !.ins = @ \union {Repointed(q) : l \in moved}])

-----------------------------------------------------------------------------
(* Rename.                                                                   *)

\* RenameTag's row.
RenameRow(q) ==
  /\ Proceeds(q, {"rename"})
  /\ \/ q.tag \notin DOMAIN tagTable /\ Moves(q, At("done"))
     \/ /\ q.tag \in DOMAIN tagTable
        /\ Moves(q, [tx[q] EXCEPT !.at = "index", !.todo = <<>>, !.tags = {q.tag}])

\* tags_name_lower_idx: a second collision is an error like any other.
IndexName(q) ==
  /\ Proceeds(q, {"index"})
  /\ \/ Committed(q.name) \subseteq {q.tag} /\ Moves(q, [tx[q] EXCEPT !.at = "commit"])
     \/ /\ ~(Committed(q.name) \subseteq {q.tag})
        /\ Moves(q, IF tx[q].retried THEN At("done") ELSE At("collided"))

\* GetTagByName, a statement later: the tag of the name, or none any more.
GetCollider(q) ==
  /\ tx[q].at = "collided"
  /\ \/ \E t \in Committed(q.name) : Moves(q, [At("done") EXCEPT !.target = t])
     \/ /\ Committed(q.name) = {}
        /\ Moves(q, [At("rename") EXCEPT !.todo = <<q.tag>>, !.retried = TRUE])

-----------------------------------------------------------------------------
(* The ends of a transaction.                                                *)

TagsDropped(q) == IF q.op \in {"merge", "delete"} THEN {q.tag} ELSE {}

TagsNamed(q) == IF q.op = "rename" THEN {q.tag} ELSE tx[q].made

Commit(q) ==
  /\ tx[q].at = "commit"
  /\ links' = (links \ tx[q].del) \union tx[q].ins
  /\ tagTable' = [t \in (DOMAIN tagTable \union TagsNamed(q)) \ TagsDropped(q) |->
                    IF t \in TagsNamed(q) THEN q.name ELSE tagTable[t]]
  /\ Changes(q, At("done"))
  /\ UNCHANGED usedTags

\* An error, a cancelled request or the victim of a deadlock.
Rollback(q) ==
  /\ tx[q].at \notin {"idle", "done"}
  /\ Moves(q, At("done"))

Attaches(q) ==
  \/ GetTag(q) \/ CreateTag(q) \/ LockRow(q) \/ GuardedInsert(q)
  \/ Check(q) \/ LockArtist(q) \/ Recheck(q) \/ InsertLink(q)

Renames(q) == RenameRow(q) \/ IndexName(q) \/ GetCollider(q)

Rewrites(q) == LockTag(q) \/ NextStatement(q) \/ DeleteLink(q) \/ RepointLink(q)

LinksNext ==
  \E q \in Request :
    \/ Begin(q) \/ Attaches(q) \/ Rewrites(q) \/ Renames(q) \/ Commit(q) \/ Rollback(q)

LinksSpec == LinksInit /\ [][LinksNext]_linksVars

-----------------------------------------------------------------------------
(* The kinds of value each variable holds.                                   *)
LinksTypeOK ==
  /\ DOMAIN tagTable \subseteq usedTags /\ usedTags \subseteq TagRow
  /\ IsInjective(tagTable) /\ Range(tagTable) \subseteq TagName
  /\ links \subseteq ArtistRow \X DOMAIN tagTable
  /\ DOMAIN tx = Request
  /\ \A q \in Request :
       /\ tx[q].tag \in TagRow \union {0}
       /\ tx[q].made \subseteq tx[q].tags /\ tx[q].tags \subseteq TagRow
       /\ tx[q].artists \subseteq ArtistRow
       /\ UNION {tx[q].shared, tx[q].ins, tx[q].del} \subseteq Link
       /\ tx[q].target \in TagRow \union {0}

(* No artist ever carries more than the cap, whatever attaches, detaches,    *)
(* merges and deletes run at once and roll back (ADR 0004: "the database     *)
(* guarantee covers every way a link can reach an artist").                  *)
CapHolds == \A a \in ArtistRow : Cardinality(Carried(a)) <= MaxTags

(* A request fails only for a known reason.  No requests wait in a circle    *)
(* for each other's locks (tags.sql, LockTagsForMerge: "so concurrent merges *)
(* cannot deadlock"; ADR 0004: "two overlapping bulk attaches cannot         *)
(* deadlock"), save with a detach from several artists, which deletes its    *)
(* links in any order, or among renames that swap names.  The trigger        *)
(* refuses no bulk attach half way, which counted under the artists' locks.  *)
(* A merge meets no link it did not know.                                    *)
Circle(S) == S # {} /\ \A q \in S : WaitsFor(q) \intersect S # {}

AnyOrder(q) ==
  q.op = "rename" \/ (q.op = "detach" /\ Cardinality(q.artists) > 1)

AbortsAreExcused ==
  /\ \A S \in SUBSET {q \in Request : tx[q].at \notin {"idle", "done"}} :
       Circle(S) => \E q \in S : AnyOrder(q)
  /\ \A q \in Request : tx[q].at = "refused" => q.op = "attach"
  /\ \A q \in Request : tx[q].at # "duplicate key"

(* What a commit leaves is whole.  A merge loses no carrier: an artist that  *)
(* carried either tag carries the target, unless a detach of one of them ran *)
(* beside it.  A tag made on the fly is carried, since an attach that came   *)
(* to nothing takes it back (service.go:95, bulk.go:100).                    *)
DetachedBeside(q, a) ==
  \E r \in Request : /\ r.op = "detach" /\ r.tag \in {q.tag, q.into}
                     /\ a \in r.artists /\ tx[r].at # "idle"

MergeKeepsCarriers ==
  \A q \in Request :
    q.op = "merge" /\ tx[q].at = "commit" /\ q.tag \notin DOMAIN tagTable' =>
      \A a \in ArtistRow : Carried(a) \intersect {q.tag, q.into} # {} =>
        <<a, q.into>> \in links' \/ DetachedBeside(q, a)

NewTagIsCarried ==
  \A t \in DOMAIN tagTable' \ DOMAIN tagTable : \E a \in ArtistRow : <<a, t>> \in links'

CommitsAreWhole == [][MergeKeepsCarriers /\ NewTagIsCarried]_linksVars

(* CollisionError, service.go:61: "returned by Rename when the new name      *)
(* matches a different tag (D-22)".                                          *)
CollisionIsWithAnother ==
  \A q \in Request : q.op = "rename" => tx[q].target # q.tag
=============================================================================
