----------------------------- MODULE MCNotifier -----------------------------
(***************************************************************************)
(* Finite instances of Notifier.  In the delivery and liveness runs the    *)
(* clock counts days, so there are two daily slots and one weekly slot; a  *)
(* day of weekly grace lets a weekly catch-up start past the next daily    *)
(* slot, as 48 hours allow, and no daily grace closes a daily slot when    *)
(* the next one comes.                                                     *)
(***************************************************************************)
EXTENDS Notifier

CONSTANTS Poller1, Poller2

TwoPollers == {Poller1, Poller2}
OnePoller  == {Poller1}

TwoDaily      == {0, 1}
FirstOnly     == {0}

TwoEvents   == {1, 2}
FourEvents  == {1, 2, 3, 4}
LastIsStale == {4}
NoneStale   == {}
=============================================================================
