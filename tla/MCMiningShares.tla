--------------------------- MODULE MCMiningShares ---------------------------
(* Five computors, so that the fields reach into a second group of five      *)
(* bytes; counts at the limit and beyond it; ticks on both sides of a cycle. *)
(* Shares and statistics share no state: each is explored by itself.         *)
EXTENDS MiningShares, MiningStats

VARIABLE focus

Counts(a, b, c, d, e) ==
  [i \in Computors |-> CASE i = 0 -> a [] i = 1 -> b [] i = 2 -> c [] i = 3 -> d [] OTHER -> e]
MCReports ==
  {Counts(1023, 1, 512, 1023, 682), Counts(3, 1020, 255, 256, 1023), Counts(7, 0, 1024, 1, 3000)}

MCInit == SharesInit /\ StatsInit /\ focus \in {"shares", "stats"}
MCNext ==
  /\ UNCHANGED focus
  /\ \/ focus = "shares" /\ SharesNext /\ UNCHANGED statsVars
     \/ focus = "stats" /\ StatsNext /\ UNCHANGED sharesVars
MCSpec == MCInit /\ [][MCNext]_<<sharesVars, statsVars, focus>>
=============================================================================
