------------------------------- MODULE MCLive -------------------------------
(* What must end, side by side as in MCWeb: a cycle of the poller, what it   *)
(* has to record, what the notifier has to send, and the loading states of   *)
(* the web client.                                                           *)
EXTENDS MCPollCycle, TagVocabulary, HistoryFeed, SystemPage

CONSTANTS t1, t2, stale, f1, nobody, g1, g2, s1, s2, std, digester

VARIABLES
  part,
  published, tracks, row, baseline, run, unannounced, faults,
  pending, mode, now, stopped, notifying, pc, batch, out, dig,
  copies, excuse, leaked, mishaps

OneTag == [id \in {t1} |-> a]

Dates == <<7, Null, 9>>

KindsOfEvents == <<a, b, b>>

\* One artist with two albums, one of a filtered type, and with more songs than
\* lookups.
Artist == INSTANCE Detection WITH
  Feeds <- {f1}, Nobody <- nobody, Groups <- {g1, g2}, Songs <- {s1, s2},
  Editions <- {std}, Discography <- [f \in {f1} |-> {g1, g2}],
  Appearances <- [f \in {f1} |-> {s1, s2}], Filtered <- {g2}, Old <- {}, Ancient <- {},
  Preferences <- [f \in {f1} |-> {{"new_release", "guest_feature", "deluxe_change"}}],
  LookupCap <- 1, MaxTracks <- 1, MaxFaults <- 1

\* One poll cycle and the digest, two rows, one message per digest run, so that
\* a digest of both rows needs two checks.  The clock counts days and ends on a
\* slot.
Sender == INSTANCE Notifier WITH
  Pollers <- {a}, Digester <- digester, Events <- {1, 2}, Stale <- {},
  MaxChunks <- 1, MaxFaults <- 1, DailySlots <- {0, 1}, WeeklySlots <- {0},
  GraceDaily <- 0, GraceWeekly <- 1, Horizon <- 1,
  row <- pending, cfg <- mode, cancelled <- stopped, faults <- mishaps

senderVars ==
  <<pending, mode, now, stopped, notifying, pc, batch, out, dig,
    copies, excuse, leaked, mishaps>>

artistVars == <<published, tracks, row, baseline, run, unannounced, faults>>

liveVars == <<part, vars, vocabVars, feedVars, systemVars, artistVars,
              senderVars>>

LiveInit ==
  /\ part \in {"cycle", "artist", "notifier", "vocabulary", "feed", "system"}
  /\ Init /\ Artist!Init /\ Sender!Init /\ VocabInit /\ FeedInit /\ SystemInit

\* Every part but p stays as it is.
Only(p) ==
  /\ part = p /\ UNCHANGED part
  /\ p # "cycle"      => UNCHANGED vars
  /\ p # "artist"     => UNCHANGED artistVars
  /\ p # "notifier"   => UNCHANGED senderVars
  /\ p # "vocabulary" => UNCHANGED vocabVars
  /\ p # "feed"       => UNCHANGED feedVars
  /\ p # "system"     => UNCHANGED systemVars

LiveNext ==
  \/ Only("cycle") /\ Next
  \/ Only("artist") /\ Artist!Next
  \/ Only("notifier") /\ Sender!Next
  \/ Only("vocabulary") /\ VocabNext
  \/ Only("feed") /\ FeedNext
  \/ Only("system") /\ SystemNext

\* Fairness for the part that moves: that of Artist!FairSpec, Sender!Fairness,
\* VocabFairness, FeedFairness or SystemFairness.
LiveSpec ==
  /\ LiveInit /\ [][LiveNext]_liveVars
  /\ WF_vars(part = "cycle" /\ CycleStep)
  /\ \A e \in Entries : WF_vars(part = "cycle" /\ WorkerStep(e))
  /\ WF_artistVars(part = "artist" /\ Artist!RunStep(f1))
  /\ \A p \in Sender!Procs : SF_senderVars(part = "notifier" /\ Sender!Acquire(p))
  /\ WF_senderVars(part = "notifier" /\ Sender!PollerGoesOn(a))
  /\ WF_senderVars(part = "notifier" /\ Sender!DigesterGoesOn)
  /\ SF_senderVars(part = "notifier" /\ Sender!Restart)
  /\ WF_vocabVars(part = "vocabulary" /\ GetProceeds)
  /\ WF_feedVars(part = "feed" /\ PageOneProceeds)
  /\ WF_feedVars(part = "feed" /\ MoreProceeds)
  /\ WF_systemVars(part = "system" /\ FetchProceeds)
  /\ WF_systemVars(part = "system" /\ SaveProceeds)
  /\ WF_systemVars(part = "system" /\ Render)

-----------------------------------------------------------------------------
(* A feed with more guest appearances than lookups per cycle records each of *)
(* them and its albums in the end, whatever call fails (musicbrainz.go).     *)
EverythingIsRecorded == Artist!EverythingIsRecorded

(* With digest mode off for good, every pending event is settled: skipped    *)
(* passes, lost answers, restarts and a digest check only delay it           *)
(* (notifier.go).                                                            *)
RealTimeDrains == part = "notifier" => Sender!RealTimeDrains

(* With digest mode on for good, a due digest completes, over as many checks *)
(* as its cap makes it take, unless its grace window closes or the operator  *)
(* re-anchors the slot record (digest.go).                                   *)
DueDigestCompletes == part = "notifier" => Sender!DueDigestCompletes

(* Loading ends, of the part that moves: the tag vocabulary's however many   *)
(* tag changes supersede its requests (useTagVocabulary.tsx); page one and   *)
(* Load more of the release feed whatever filters are tried meanwhile        *)
(* (history.tsx); the operator's page with its Refresh and its digest switch *)
(* (system.tsx, DigestSettings.tsx).                                         *)
WebSettles ==
  /\ part = "vocabulary" => LoadingEnds
  /\ part = "feed" => FeedSettles
  /\ part = "system" => PageSettles
=============================================================================
