----------------------------- MODULE MCReanchor -----------------------------
(***************************************************************************)
(* Notifier with one more observation: the slot the operator's last        *)
(* re-anchoring PUT put on record.  A digest run lasts minutes (three for  *)
(* its messages, digestSendBudget), so on this clock of half days it takes *)
(* no time: what is shown needs no run that outlasts its slot.             *)
(***************************************************************************)
EXTENDS MCNotifier

VARIABLE anchor

FourDaily     == {0, 2, 4, 6}
HalfDayWeekly == {0, 4}
OneEvent  == {1}

AnchorInit == Init /\ anchor = NoTime

AnchorNext ==
  /\ Next
  /\ pc[Digester] # "idle" => now' = now
  /\ anchor' = IF cfg'.enabled /\ (~cfg.enabled \/ cfg.cadence # cfg'.cadence)
               THEN MostRecentSlot(now, cfg'.cadence) ELSE anchor

AnchorSpec == AnchorInit /\ [][AnchorNext]_<<vars, anchor>>

\* CONTEXT.md, "Slot record": a digest is due only when a newer slot has passed,
\* and neither turning digest mode on nor changing its cadence triggers an
\* immediate digest.  So no run starts for a slot the last re-anchoring PUT
\* already put on record.
NoImmediateDigest ==
  [][pc[Digester] = "settings" /\ pc'[Digester] = "list"
       => dig'.slot > anchor]_<<vars, anchor>>
=============================================================================
