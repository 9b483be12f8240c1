---------------------------- MODULE DigestChunks ----------------------------
(* How a digest is cut into messages (notifier/digest_chunk.go).  A row is  *)
(* a line of some width, in runes; what the line says is left out, and so   *)
(* is the collation: rows of a group are in the order of their ids.         *)
EXTENDS Naturals, SequencesExt

CONSTANTS
  Headings,        \* digestHeadings: the event types, in their order
  Row,             \* ids of events
  Width,           \* widths that a line may have
  Budget,          \* chunkContentBudget
  Reserve,         \* chunkOverheadReserve
  HeadingWidth, ContinuedWidth,        \* of the two headings of a group
  NoteWidth,                           \* of continuationNote
  WindowWidth, IndicatorWidth, MarkerWidth,  \* of the three parts of a header
  MaxDigestChunks

\* Each type has one heading, which leaves room for text, and a line has text;
\* the reserve "sums the widest reasonable case of each budget line" (D-20).
ASSUME ChunksAssumption ==
  /\ Headings \in Seq(Range(Headings)) /\ IsInjective(Headings)
  /\ Row \subseteq Nat /\ Width \subseteq Nat \ {0}
  /\ {Budget, Reserve, NoteWidth, WindowWidth, IndicatorWidth, MarkerWidth} \subseteq Nat
  /\ {HeadingWidth, ContinuedWidth, MaxDigestChunks} \subseteq Nat \ {0}
  /\ HeadingWidth < Budget /\ ContinuedWidth < Budget
  /\ WindowWidth + IndicatorWidth + MarkerWidth + 1 + NoteWidth <= Reserve

\* The events that are pending: id -> type and width of its line.
VARIABLE pending

LineWidth(id) == pending[id].width

-----------------------------------------------------------------------------
(* buildDigestGroups: the ids of each type, empty groups left out.           *)

\* The numbers of a finite set, from the least on.
InOrder(S) ==
  [n \in 1..Cardinality(S) |-> CHOOSE e \in S : Cardinality({d \in S : d < e}) = n - 1]

IdsOf(type) == InOrder({id \in DOMAIN pending : pending[id].type = type})

Groups ==
  LET filled == InOrder({h \in DOMAIN Headings : IdsOf(Headings[h]) # <<>>})
  IN  [n \in DOMAIN filled |-> IdsOf(Headings[filled[n]])]

-----------------------------------------------------------------------------
(* The chunk under way: its rows and width, how it opened, and what heading  *)
(* the next line gets.                                                       *)

Fresh(done) ==
  [done |-> done, ids |-> <<>>, width |-> 0, opens |-> "heading", next |-> "heading"]

\* Without curIDs = nil.
FlushKeepingIds(cur, closes) ==
  IF cur.width = 0 THEN cur
  ELSE [Fresh(Append(cur.done, [ids |-> cur.ids, opens |-> cur.opens, closes |-> closes,
                                width |-> cur.width])) EXCEPT !.ids = cur.ids]

Flush(cur, closes) ==
  IF cur.width = 0 THEN cur
  ELSE Fresh(Append(cur.done,
         [ids |-> cur.ids, opens |-> cur.opens, closes |-> closes,
          width |-> cur.width + IF closes = "note" THEN NoteWidth ELSE 0]))

HeadingOf(next) ==
  CASE next = "heading"   -> HeadingWidth
    [] next = "continued" -> ContinuedWidth
    [] OTHER              -> 0

\* splitOversizedGroup, a line at a time.  A line that no chunk can hold is
\* truncated to the budget, and is a chunk of its own.
PutLine(cur, id) ==
  LET full == cur.width > 0 /\ cur.width + HeadingOf(cur.next) + LineWidth(id) > Budget
      at   == IF full THEN [Flush(cur, "note") EXCEPT !.next = "continued"] ELSE cur
      unit == HeadingOf(at.next) + LineWidth(id)
      opens == IF at.width = 0 THEN at.next ELSE at.opens
  IN  IF at.width = 0 /\ unit > Budget
        THEN [Fresh(Append(at.done, [ids |-> <<id>>, opens |-> opens,
                                     closes |-> "truncated", width |-> Budget]))
                EXCEPT !.next = "continued"]
        ELSE [at EXCEPT !.ids = Append(@, id), !.width = @ + unit, !.opens = opens,
                        !.next = "none"]

\* The chunk under way after each of the lines of a group.
LinesPut(g) ==
  LET cur[n \in 0..Len(g)] ==
        IF n = 0 THEN Fresh(<<>>) ELSE PutLine(cur[n - 1], g[n])
  IN  cur

SplitOversizedGroup(g) == Flush(LinesPut(g)[Len(g)], "whole").done

\* renderGroup's width.
Rendered(g) ==
  LET width[n \in 0..Len(g)] ==
        IF n = 0 THEN HeadingWidth ELSE width[n - 1] + LineWidth(g[n])
  IN  width[Len(g)]

\* chunkDigest, a group at a time.
PutGroup(cur, g) ==
  LET at == IF cur.width > 0 /\ cur.width + 1 + Rendered(g) > Budget
              THEN Flush(cur, "whole") ELSE cur
  IN  IF Rendered(g) > Budget
        THEN Fresh(Flush(cur, "whole").done \o SplitOversizedGroup(g))
        ELSE [at EXCEPT !.ids = @ \o g,
                        !.width = @ + Rendered(g) + IF @ > 0 THEN 1 ELSE 0]

\* The chunk under way after each of the groups.
GroupsPut(groups) ==
  LET cur[n \in 0..Len(groups)] ==
        IF n = 0 THEN Fresh(<<>>) ELSE PutGroup(cur[n - 1], groups[n])
  IN  cur

ChunkDigest == Flush(GroupsPut(Groups)[Len(Groups)], "whole").done

-----------------------------------------------------------------------------
(* buildDigestChunks: the cap, then a header on each chunk that is kept.     *)

RowsIn(chunks) == FlattenSeq([i \in DOMAIN chunks |-> chunks[i].ids])

Kept(chunks) == SubSeq(chunks, 1, IF Len(chunks) > MaxDigestChunks THEN MaxDigestChunks
                                  ELSE Len(chunks))

DeferredCount(chunks) ==
  Len(RowsIn(SubSeq(chunks, MaxDigestChunks + 1, Len(chunks))))

HeaderWidth(chunks, i) ==
  LET total == Len(Kept(chunks))
  IN  WindowWidth + 1
        + (IF total > 1 THEN IndicatorWidth ELSE 0)
        + (IF i = total /\ DeferredCount(chunks) > 0 THEN MarkerWidth ELSE 0)

-----------------------------------------------------------------------------
ChunksInit == pending = <<>>

\* Detection queues an event.
ChunksNext ==
  \E id \in Row \ DOMAIN pending, type \in Range(Headings), width \in Width :
    pending' = [r \in DOMAIN pending \union {id} |->
                  IF r = id THEN [type |-> type, width |-> width] ELSE pending[r]]

(* Of every list of pending events each row is in one message and in no      *)
(* other, in the order of the groups, with the rows past the cap counted as  *)
(* deferred; no message is empty or longer than Discord allows (D-20); a     *)
(* group that fits a message is never cut (D-06), and where one is cut both  *)
(* messages say so (D-09, D-10), save after a truncated line.                *)
DigestIsWhole ==
  LET chunks == ChunkDigest
      kept   == Kept(chunks)
      Starts == {Head(g) : g \in Range(Groups)}
      Ends   == {Last(g) : g \in Range(Groups)}
  IN  /\ RowsIn(chunks) = FlattenSeq(Groups)
      /\ Len(RowsIn(kept)) + DeferredCount(chunks) = Cardinality(DOMAIN pending)
      /\ \A i \in DOMAIN kept :
           /\ kept[i].ids # <<>>
           /\ HeaderWidth(chunks, i) + kept[i].width <= Budget + Reserve
      /\ \A g \in Range(Groups) : Rendered(g) <= Budget =>
           \E i \in DOMAIN chunks : Range(g) \subseteq Range(chunks[i].ids)
      /\ \A i \in DOMAIN chunks :
           /\ chunks[i].opens = IF Head(chunks[i].ids) \in Starts THEN "heading" ELSE "continued"
           /\ chunks[i].closes # "truncated" =>
                chunks[i].closes = IF Last(chunks[i].ids) \in Ends THEN "whole" ELSE "note"
=============================================================================
