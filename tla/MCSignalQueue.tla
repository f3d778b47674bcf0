---------------------------- MODULE MCSignalQueue ----------------------------
(* Instances of SignalQueue for TLC.                                        *)
EXTENDS SignalQueue, TLC

K(form, trend, conf) == [form |-> form, trend |-> trend, conf |-> conf]

\* Reports for both sides, against which the other one speaks (the short one
\* loud enough to close at once), and one that is turned away.
TradingKinds == {K("trade", "long", 1), K("trade", "short", 2), K("discard", "long", 1)}

\* A report that enters, one that closes at once, and one whose history row is
\* missing.
SettlingKinds == {K("trade", "long", 1), K("trade", "short", 2), K("missing", "long", 1)}

WorkerSymmetry == Permutations(Workers)
=============================================================================
