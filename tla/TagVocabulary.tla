--------------------------- MODULE TagVocabulary ---------------------------
(* The web client's tag vocabulary (useTagVocabulary.tsx), its callers the  *)
(* Manage tags dialog (ManageTagsDialog.tsx, ConfirmDialog.tsx) and the tag *)
(* chips (TagChips.tsx), and the tags table behind the API.                 *)
(*                                                                          *)
(* Every request is three steps: sent, served, answered.  Requests overlap, *)
(* are served in any order, and may fail before or after the server did     *)
(* what they ask.  Ordering, carrier counts and focus are left out.         *)
EXTENDS WebClient

CONSTANTS
  Tag,         \* tag ids
  Name,        \* normalized names (normalizeTagKey)
  InitialTags, \* the rows of the tags table when the page is opened
  MaxWrites,   \* bound: tag writes the user makes
  MaxGen       \* bound: generations after which the user only waits

ASSUME VocabAssumption ==
  /\ InitialTags \in PartialFcns(Tag, Name)
  /\ IsInjective(InitialTags)
  /\ Null \notin Tag \union Name \union PartialFcns(Tag, Name)
  /\ MaxWrites \in Nat
  /\ MaxGen \in Nat

VARIABLES
  tags,     \* the server's tags table: id -> name, names unique
  used,     \* ids the table's sequence has given out
  hook,     \* the provider: vocabulary, status, gen, inFlight
  gets,     \* GET /tags requests: the generation that sent each, and its answer
  writes,   \* PATCH, merge, DELETE and attach requests in flight
  nWrites,  \* how many were sent
  dialog,   \* the dialog's state: open, rename editor, confirmations
  unheard   \* tags whose change the provider was never told of, or told too
            \* late, and that no applied GET has shown it since (history)

vocabVars == <<tags, used, hook, gets, writes, nWrites, dialog, unheard>>

Vocabulary == PartialFcns(Tag, Name)
TagOrNull  == Tag \union {Null}
NameOrNull == Name \union {Null}

\* A write: target is the merge's target, the tag a rename collided with, or
\* the tag an attach resolved to.
Write == [n : Nat, op : {"rename", "merge", "delete", "attach"},
          id : TagOrNull, name : NameOrNull, target : TagOrNull,
          reply : {"none", "done", "collision", "refused"}]

-----------------------------------------------------------------------------
(* useTagVocabulary.tsx: the pure parts.                                     *)

ApplyRenamed(v, id, name) ==
  IF id \in DOMAIN v THEN [v EXCEPT ![id] = name] ELSE v

ApplyDeleted(v, id) == Without(v, id)

ApplyMerged(v, id, into, name) == ApplyRenamed(ApplyDeleted(v, id), into, name)

\* A provider h and the requests it sends are handled together: each of the
\* operators below returns the pair after the call.
Fetch(h, g) ==
  << [h EXCEPT !.gen = @ + 1, !.inFlight = TRUE, !.status = "loading"],
     g \union {[gen |-> h.gen + 1, answer |-> Null]} >>

SupersedeNoRefetch(h, g) == << [h EXCEPT !.gen = @ + 1], g >>

Supersede(h, g) ==
  LET bumped == [h EXCEPT !.gen = @ + 1]
  IN  IF h.inFlight THEN Fetch(bumped, g) ELSE <<bumped, g>>

EnsureLoaded(h, g) ==
  IF h.status \in {"idle", "error"} THEN Fetch(h, g) ELSE <<h, g>>

Remember(h, g, id, name) ==
  CASE h.vocabulary = Null /\ h.inFlight  -> Supersede(h, g)
    [] h.vocabulary = Null /\ ~h.inFlight -> <<h, g>>
    [] OTHER ->
       IF id \in DOMAIN h.vocabulary THEN <<h, g>>
       ELSE Supersede([h EXCEPT !.vocabulary = With(@, id, name)], g)

\* changed is the vocabulary with the change, where one is loaded.
ApplyLocal(h, g, changed) ==
  Supersede(IF h.vocabulary = Null THEN h ELSE [h EXCEPT !.vocabulary = changed], g)

\* The pair becomes the provider's next state.
Becomes(pair) == hook' = pair[1] /\ gets' = pair[2]

-----------------------------------------------------------------------------
VocabInit ==
  /\ tags = InitialTags
  /\ used = DOMAIN InitialTags
  /\ hook = [vocabulary |-> Null, status |-> "idle", gen |-> 0, inFlight |-> FALSE]
  /\ gets = {}
  /\ writes = {}
  /\ nWrites = 0
  /\ dialog = [open |-> FALSE, renaming |-> Null, renamePending |-> FALSE,
               collision |-> Null, merging |-> FALSE,
               deleting |-> Null, deletePending |-> FALSE]
  /\ unheard = {}

-----------------------------------------------------------------------------
(* GET /tags                                                                 *)

Agree(v, t) ==
  IF t \in DOMAIN tags THEN t \in DOMAIN v /\ v[t] = tags[t] ELSE t \notin DOMAIN v

StillUnheard(v) == {t \in unheard : ~Agree(v, t)}

ServeGet(r) ==
  /\ r.answer = Null
  /\ gets' = (gets \ {r}) \union {[r EXCEPT !.answer = tags]}
  /\ UNCHANGED <<tags, used, hook, writes, nWrites, dialog, unheard>>

\* Without the generation check every answer would be applied.
GetAnsweredUnguarded(r) ==
  /\ r.answer # Null
  /\ gets' = gets \ {r}
  /\ hook' = [hook EXCEPT !.inFlight = FALSE, !.vocabulary = r.answer,
                          !.status = "loaded"]
  /\ unheard' = StillUnheard(r.answer)
  /\ UNCHANGED <<tags, used, writes, nWrites, dialog>>

GetAnswered(r) ==
  /\ r.answer # Null
  /\ gets' = gets \ {r}
  /\ IF r.gen = hook.gen
       THEN /\ hook' = [hook EXCEPT !.inFlight = FALSE, !.vocabulary = r.answer,
                                    !.status = "loaded"]
            /\ unheard' = StillUnheard(r.answer)
       ELSE UNCHANGED <<hook, unheard>>
  /\ UNCHANGED <<tags, used, writes, nWrites, dialog>>

GetFailed(r) ==
  /\ gets' = gets \ {r}
  /\ hook' = IF r.gen = hook.gen
               THEN [hook EXCEPT !.inFlight = FALSE, !.status = "error"] ELSE hook
  /\ UNCHANGED <<tags, used, writes, nWrites, dialog, unheard>>

-----------------------------------------------------------------------------
(* The dialog.  Its list and editor are on screen only while it is open and  *)
(* the vocabulary is loaded; a confirmation is modal.                        *)

Acting     == hook.gen < MaxGen
NoConfirm  == dialog.collision = Null /\ dialog.deleting = Null
ListShown  == dialog.open /\ hook.status = "loaded" /\ NoConfirm
CanWrite   == nWrites < MaxWrites

Send(op, id, name, target) ==
  /\ writes' = writes \union {[n |-> nWrites + 1, op |-> op, id |-> id,
                               name |-> name, target |-> target,
                               reply |-> "none"]}
  /\ nWrites' = nWrites + 1

OpenDialog ==
  /\ Acting /\ ~dialog.open
  /\ dialog' = [dialog EXCEPT !.open = TRUE]
  /\ Becomes(Fetch(hook, gets))
  /\ UNCHANGED <<tags, used, writes, nWrites, unheard>>

CloseDialog ==
  /\ dialog.open /\ NoConfirm
  /\ dialog' = [dialog EXCEPT !.open = FALSE]
  /\ UNCHANGED <<tags, used, hook, gets, writes, nWrites, unheard>>

RetryLoad ==
  /\ Acting /\ dialog.open /\ NoConfirm /\ hook.status = "error"
  /\ Becomes(Fetch(hook, gets))
  /\ UNCHANGED <<tags, used, writes, nWrites, dialog, unheard>>

StartRename(t) ==
  /\ ListShown /\ t \in DOMAIN hook.vocabulary /\ dialog.renaming # t
  /\ dialog' = [dialog EXCEPT !.renaming = t]
  /\ UNCHANGED <<tags, used, hook, gets, writes, nWrites, unheard>>

\* Cancel stays enabled while the rename is pending.
CancelRename ==
  /\ ListShown /\ dialog.renaming \in DOMAIN hook.vocabulary
  /\ dialog' = [dialog EXCEPT !.renaming = Null]
  /\ UNCHANGED <<tags, used, hook, gets, writes, nWrites, unheard>>

SaveRename(n) ==
  /\ Acting /\ CanWrite /\ ListShown /\ ~dialog.renamePending
  /\ dialog.renaming \in DOMAIN hook.vocabulary
  /\ n # hook.vocabulary[dialog.renaming]
  /\ Send("rename", dialog.renaming, n, Null)
  /\ dialog' = [dialog EXCEPT !.renamePending = TRUE]
  /\ UNCHANGED <<tags, used, hook, gets, unheard>>

ConfirmMerge ==
  /\ dialog.collision # Null /\ ~dialog.merging
  /\ Send("merge", dialog.collision.source, Null, dialog.collision.target)
  /\ dialog' = [dialog EXCEPT !.merging = TRUE]
  /\ UNCHANGED <<tags, used, hook, gets, unheard>>

AskDelete(t) ==
  /\ Acting /\ CanWrite /\ ListShown /\ t \in DOMAIN hook.vocabulary
  /\ dialog' = [dialog EXCEPT !.deleting = t]
  /\ UNCHANGED <<tags, used, hook, gets, writes, nWrites, unheard>>

ConfirmDelete ==
  /\ dialog.deleting # Null /\ ~dialog.deletePending
  /\ Send("delete", dialog.deleting, Null, Null)
  /\ dialog' = [dialog EXCEPT !.deletePending = TRUE]
  /\ UNCHANGED <<tags, used, hook, gets, unheard>>

\* Cancel, Esc or an outside press closes a confirmation that is not pending.
CancelConfirm ==
  /\ \/ /\ dialog.collision # Null /\ ~dialog.merging
        /\ dialog' = [dialog EXCEPT !.collision = Null]
     \/ /\ dialog.deleting # Null /\ ~dialog.deletePending
        /\ dialog' = [dialog EXCEPT !.deleting = Null]
  /\ UNCHANGED <<tags, used, hook, gets, writes, nWrites, unheard>>

-----------------------------------------------------------------------------
(* The chips of a row, on the page behind the closed dialog.                 *)

OpenChipEditor ==
  /\ Acting /\ ~dialog.open
  /\ Becomes(EnsureLoaded(hook, gets))
  /\ UNCHANGED <<tags, used, writes, nWrites, dialog, unheard>>

CommitChip(n) ==
  /\ Acting /\ CanWrite /\ ~dialog.open
  /\ Send("attach", Null, n, Null)
  /\ UNCHANGED <<tags, used, hook, gets, dialog, unheard>>

-----------------------------------------------------------------------------
(* The server, one request a step (each is one transaction): its reply and   *)
(* the table it leaves.                                                      *)

Served(w, reply, table) ==
  /\ writes' = (writes \ {w}) \union {reply}
  /\ tags' = table
  /\ UNCHANGED <<hook, gets, nWrites, dialog, unheard>>

Refused(w)       == [w EXCEPT !.reply = "refused"]

\* Without the unique index no name would be found taken.
WithoutIndex(n) == {}

NamedOnServer(n) == {t \in DOMAIN tags : tags[t] = n}

\* The collision comes from the unique index, and names the tag in the way.
ServeRename(w) ==
  /\ w.op = "rename" /\ w.reply = "none"
  /\ \/ /\ w.id \notin DOMAIN tags
        /\ Served(w, Refused(w), tags)
     \/ /\ w.id \in DOMAIN tags
        /\ \E t \in NamedOnServer(w.name) \ {w.id} :
             Served(w, [w EXCEPT !.reply = "collision", !.target = t], tags)
     \/ /\ w.id \in DOMAIN tags
        /\ NamedOnServer(w.name) \subseteq {w.id}
        /\ Served(w, [w EXCEPT !.reply = "done"], [tags EXCEPT ![w.id] = w.name])
  /\ UNCHANGED used

ServeMerge(w) ==
  /\ w.op = "merge" /\ w.reply = "none"
  /\ IF {w.id, w.target} \subseteq DOMAIN tags
       THEN Served(w, [w EXCEPT !.reply = "done", !.name = tags[w.target]],
                   ApplyDeleted(tags, w.id))
       ELSE Served(w, Refused(w), tags)
  /\ UNCHANGED used

ServeDelete(w) ==
  /\ w.op = "delete" /\ w.reply = "none"
  /\ IF w.id \in DOMAIN tags
       THEN Served(w, [w EXCEPT !.reply = "done"], ApplyDeleted(tags, w.id))
       ELSE Served(w, Refused(w), tags)
  /\ UNCHANGED used

\* Get or create; the sequence never gives an id twice.
ServeAttach(w) ==
  /\ w.op = "attach" /\ w.reply = "none"
  /\ \/ \E t \in NamedOnServer(w.name) :
          /\ Served(w, [w EXCEPT !.reply = "done", !.target = t], tags)
          /\ UNCHANGED used
     \/ /\ NamedOnServer(w.name) = {}
        /\ \E t \in Tag \ used :
             /\ Served(w, [w EXCEPT !.reply = "done", !.target = t],
                       With(tags, t, w.name))
             /\ used' = used \union {t}

-----------------------------------------------------------------------------
(* The answers.  A request may also fail, served or not.                     *)

Answered(w, pair) ==
  /\ writes' = writes \ {w}
  /\ Becomes(pair)
  /\ UNCHANGED <<tags, used, nWrites>>

RenameAnswered(w) ==
  /\ w.op = "rename"
  /\ \/ /\ w.reply = "done"
        /\ Answered(w, ApplyLocal(hook, gets, ApplyRenamed(hook.vocabulary, w.id, w.name)))
        /\ dialog' = [dialog EXCEPT !.renaming = Null, !.renamePending = FALSE]
     \/ /\ w.reply = "collision"
        /\ Answered(w, <<hook, gets>>)
        /\ dialog' = [dialog EXCEPT !.renamePending = FALSE,
                        !.collision = [source |-> w.id, target |-> w.target]]
  /\ UNCHANGED unheard

\* Unlike a failed merge or delete, a failed rename does not read the tags again.
RenameFailed(w) ==
  /\ w.op = "rename"
  /\ Answered(w, <<hook, gets>>)
  /\ dialog' = [dialog EXCEPT !.renamePending = FALSE]
  /\ unheard' = IF w.reply = "done" THEN unheard \union {w.id} ELSE unheard

MergeAnswered(w) ==
  /\ w.op = "merge" /\ w.reply = "done"
  /\ Answered(w, ApplyLocal(hook, gets,
                             ApplyMerged(hook.vocabulary, w.id, w.target, w.name)))
  /\ dialog' = [dialog EXCEPT !.renaming = Null, !.merging = FALSE,
                              !.collision = Null]
  /\ UNCHANGED unheard

MergeFailed(w) ==
  /\ w.op = "merge"
  /\ Answered(w, Fetch(hook, gets))
  /\ dialog' = [dialog EXCEPT !.merging = FALSE, !.collision = Null]
  /\ UNCHANGED unheard

DeleteAnswered(w) ==
  /\ w.op = "delete" /\ w.reply = "done"
  /\ Answered(w, ApplyLocal(hook, gets, ApplyDeleted(hook.vocabulary, w.id)))
  /\ dialog' = [dialog EXCEPT !.deletePending = FALSE, !.deleting = Null]
  /\ UNCHANGED unheard

DeleteFailed(w) ==
  /\ w.op = "delete"
  /\ Answered(w, Fetch(hook, gets))
  /\ dialog' = [dialog EXCEPT !.deletePending = FALSE, !.deleting = Null]
  /\ UNCHANGED unheard

\* An attach may be answered after the tag it resolved to was renamed or
\* deleted: the provider then remembers what is no longer so.
AttachAnswered(w) ==
  /\ w.op = "attach" /\ w.reply = "done"
  /\ Answered(w, Remember(hook, gets, w.target, w.name))
  /\ unheard' = IF w.target \in DOMAIN tags /\ tags[w.target] = w.name
                THEN unheard ELSE unheard \union {w.target}
  /\ UNCHANGED dialog

AttachFailed(w) ==
  /\ w.op = "attach"
  /\ Answered(w, <<hook, gets>>)
  /\ unheard' = IF w.reply = "done" THEN unheard \union {w.target} ELSE unheard
  /\ UNCHANGED dialog

-----------------------------------------------------------------------------
GetStep(r) == ServeGet(r) \/ GetAnswered(r) \/ GetFailed(r)

WriteStep(w) ==
  \/ ServeRename(w) \/ ServeMerge(w) \/ ServeDelete(w) \/ ServeAttach(w)
  \/ RenameAnswered(w) \/ RenameFailed(w) \/ MergeAnswered(w) \/ MergeFailed(w)
  \/ DeleteAnswered(w) \/ DeleteFailed(w) \/ AttachAnswered(w) \/ AttachFailed(w)

UserStep ==
  \/ OpenDialog \/ CloseDialog \/ RetryLoad \/ CancelRename
  \/ ConfirmMerge \/ ConfirmDelete \/ CancelConfirm \/ OpenChipEditor
  \/ \E t \in Tag : StartRename(t) \/ AskDelete(t)
  \/ \E n \in Name : SaveRename(n) \/ CommitChip(n)

VocabNext ==
  \/ UserStep
  \/ \E r \in gets : GetStep(r)
  \/ \E w \in writes : WriteStep(w)

\* A request is served and answered, or fails; the user owes nothing.
GetProceeds == \E r \in gets : ServeGet(r) \/ GetAnswered(r)

VocabFairness == WF_vocabVars(GetProceeds)

VocabSpec == VocabInit /\ [][VocabNext]_vocabVars /\ VocabFairness

-----------------------------------------------------------------------------
(* The kinds of value each variable holds (useTagVocabulary.tsx, the table). *)
VocabTypeOK ==
  /\ tags \in Vocabulary /\ IsInjective(tags)
  /\ used \in SUBSET Tag /\ DOMAIN tags \subseteq used
  /\ hook \in [vocabulary : Vocabulary \union {Null},
               status : {"idle", "loading", "loaded", "error"},
               gen : Nat, inFlight : BOOLEAN]
  /\ gets \in SUBSET [gen : Nat, answer : Vocabulary \union {Null}]
  /\ writes \in SUBSET Write
  /\ nWrites \in Nat
  /\ dialog \in [open : BOOLEAN, renaming : TagOrNull, renamePending : BOOLEAN,
                 collision : [source : Tag, target : Tag] \union {Null},
                 merging : BOOLEAN, deleting : TagOrNull,
                 deletePending : BOOLEAN]
  /\ unheard \in SUBSET Tag

(* The surface never strands on loading (useTagVocabulary.tsx, supersede):   *)
(* while the provider says loading, a GET of the current generation is on    *)
(* its way, so that its answer will not be dropped; and at no other time.    *)
LoadingIsAwaited ==
  /\ hook.status = "loading" <=> hook.inFlight
  /\ hook.inFlight <=> \E r \in gets : r.gen = hook.gen

(* What is loaded agrees with the tags table, tag by tag, save for the tags  *)
(* a request in flight is about and those whose change the provider was told *)
(* of late or never: no dropped, late or reordered answer of another request *)
(* leaves a name that is gone or hides one that exists.                      *)
InQuestion == unheard \union {w.id : w \in writes} \union {w.target : w \in writes}

VocabularyIsCurrent ==
  hook.status = "loaded" =>
    \A t \in Tag \ InQuestion : Agree(hook.vocabulary, t)

(* A load ends: an answer or an error is shown, however many tag changes     *)
(* superseded the request that was in flight.                                *)
LoadingEnds == hook.status = "loading" ~> hook.status # "loading"
=============================================================================
