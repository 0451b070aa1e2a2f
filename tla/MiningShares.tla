---------------------------- MODULE MiningShares ----------------------------
(***************************************************************************)
(* How the nodes add up one another's counts of mining shares.  A computor *)
(* packs its count for every other computor into ten bits each and sends   *)
(* them in a transaction of the tick it leads; every node unpacks and adds *)
(* up what it accepts, and saves and loads its totals over a restart.      *)
(* The counts themselves, and when a transaction is made, come from code   *)
(* outside this repository.                                                *)
(***************************************************************************)
EXTENDS Numerals

CONSTANTS
  NumComputors,            \* NUMBER_OF_COMPUTORS (676)
  PacketBytes,             \* CUSTOM_MINING_SHARES_COUNT_SIZE_IN_BYTES (848)
  Cycle,                   \* DOGE_BROADCAST_CYCLE
  Offset,                  \* TICK_VOTE_COUNTER_PUBLICATION_OFFSET (2)
  Reports,                 \* the arrays of counts considered
  FirstTick, LastTick      \* bound: the ticks considered

Computors == 0..(NumComputors - 1)
MaxVal == 1023             \* CUSTOM_MINING_SOLUTION_SHARES_COUNT_MAX_VAL

ASSUME SharesAssumption ==
  /\ NumComputors \in Nat \ {0}
  /\ PacketBytes \in Nat /\ PacketBytes * 8 >= NumComputors * 10
  /\ Reports \subseteq [Computors -> Nat]
  /\ FirstTick \in Nat /\ LastTick \in Nat /\ FirstTick <= LastTick

VARIABLES
  systemTick,     \* system.tick
  shareCount,     \* _shareCount of the computor that leads the tick
  accumulated,    \* _accumulatedSharesCount of the node
  heard,          \* history: by tick the reports the node had to take, [from, counts]
  saved           \* the node's saved totals, with their history

sharesVars == <<systemTick, shareCount, accumulated, heard, saved>>

Zero == [i \in Computors |-> 0]
Nothing == [t \in {} |-> Zero]

SharesInit ==
  /\ systemTick = FirstTick /\ shareCount = Zero
  /\ accumulated = Zero /\ heard = Nothing
  /\ saved = [accumulated |-> Zero, heard |-> Nothing]

-----------------------------------------------------------------------------
(* Ten bits for each computor: four of them in five bytes, from the top    *)
(* bits down, so that a field lies in two bytes.                           *)

Pow2(k) == Weight(2, k)

FirstByte(idx) == idx + (idx \div 4)
LastBit0(idx) == 8 - (idx % 4) * 2      \* bits of the field in its first byte
FirstBit1(idx) == 10 - LastBit0(idx)    \* and in its second

extract10Bit(data, idx) ==
  (data[FirstByte(idx)] % Pow2(LastBit0(idx))) * Pow2(FirstBit1(idx))
    + (data[FirstByte(idx) + 1] \div Pow2(8 - FirstBit1(idx)))

\* Mutant: the first byte loses the bits of the field before.
update10BitClearing(data, idx, value) ==
  [data EXCEPT
     ![FirstByte(idx)] = (value \div Pow2(FirstBit1(idx))) % 256,
     ![FirstByte(idx) + 1] =
       ByteOr(@ % Pow2(8 - FirstBit1(idx)),
              (value % Pow2(FirstBit1(idx))) * Pow2(8 - FirstBit1(idx)))]

\* Both bytes are masked and or-ed with their part of the value; the part for the first
\* is cut to a byte only, so a value beyond ten bits runs into the field before.
update10Bit(data, idx, value) ==
  [data EXCEPT
     ![FirstByte(idx)] =
       ByteOr(@ - (@ % Pow2(LastBit0(idx))), (value \div Pow2(FirstBit1(idx))) % 256),
     ![FirstByte(idx) + 1] =
       ByteOr(@ % Pow2(8 - FirstBit1(idx)),
              (value % Pow2(FirstBit1(idx))) * Pow2(8 - FirstBit1(idx)))]

\* What a computor reports: its own count is not.
Reported(counts, own) == [counts EXCEPT ![own] = 0]

Packet(buffer) ==
  LET packed[n \in 0..NumComputors] ==
        IF n = 0 THEN [b \in 0..(PacketBytes - 1) |-> 0]
        ELSE update10Bit(packed[n - 1], n - 1, buffer[n - 1])
  IN  packed[NumComputors]

compressNewSharesPacket(own) == Packet(Reported(shareCount, own))

-----------------------------------------------------------------------------
Leader(t) == t % NumComputors

\* The counts of the leader's node are taken over as they stand.
registerNewShareCount ==
  /\ shareCount = Zero
  /\ \E report \in Reports : shareCount' = report
  /\ UNCHANGED <<systemTick, accumulated, heard, saved>>

validateNewSharesPacket(packet, from) == extract10Bit(packet, from) = 0

addShares(packet, from) ==
  accumulated' = IF validateNewSharesPacket(packet, from)
                 THEN [i \in Computors |-> accumulated[i] + extract10Bit(packet, i)]
                 ELSE accumulated

InWindow == systemTick % Cycle <= NumComputors + Offset

\* processTransactionData: the tick's transaction from the computor "from", with or
\* without an amount and the node's own data lock.
processTransactionData(from, amount, lock) ==
  /\ systemTick < LastTick /\ shareCount # Zero
  /\ IF from = Leader(systemTick) /\ InWindow /\ amount = 0 /\ lock
       THEN /\ addShares(compressNewSharesPacket(from), from)
            /\ heard' = [t \in DOMAIN heard \cup {systemTick} |->
                          IF t = systemTick THEN [from |-> from, counts |-> shareCount]
                          ELSE heard[t]]
       ELSE UNCHANGED <<accumulated, heard>>
  /\ systemTick' = systemTick + 1 /\ shareCount' = Zero
  /\ UNCHANGED saved

NoTransaction ==
  /\ systemTick < LastTick /\ systemTick' = systemTick + 1 /\ shareCount' = Zero
  /\ UNCHANGED <<accumulated, heard, saved>>

\* The node's own counts are saved and loaded along with its totals; they feed only its own
\* next report, which the counts registered for it replace, and stay out of the model:
\* shareCount belongs to the sender.
saveAllDataToArray ==
  /\ saved' = [accumulated |-> accumulated, heard |-> heard]
  /\ UNCHANGED <<systemTick, shareCount, accumulated, heard>>

\* A restart: the totals are those of the last save.
loadAllDataFromArray ==
  /\ accumulated' = saved.accumulated /\ heard' = saved.heard
  /\ UNCHANGED <<systemTick, shareCount, saved>>

SharesNext ==
  \/ registerNewShareCount
  \/ \E from \in Computors, amount \in {0, 1}, lock \in BOOLEAN :
       processTransactionData(from, amount, lock)
  \/ NoTransaction \/ saveAllDataToArray \/ loadAllDataFromArray

SharesSpec == SharesInit /\ [][SharesNext]_sharesVars

-----------------------------------------------------------------------------
\* Neither count i nor the one behind it in the same five bytes is beyond ten bits.
Fits(counts, i) ==
  /\ counts[i] <= MaxVal
  /\ i % 4 # 3 /\ i + 1 \in Computors => counts[i + 1] <= MaxVal

\* So the field of computor i in a report is as reported.
Intact(report, i) == Fits(Reported(report.counts, report.from), i)

\* What the reports say of computor i, those of the ticks up to the last together.
SaidOf(reports, i) ==
  Total([t \in 0..LastTick |->
         IF t \in DOMAIN reports THEN Reported(reports[t].counts, reports[t].from)[i] ELSE 0],
      LastTick)

\* A computor's total is the sum of what the others reported of it, never what it said of
\* itself, through packing, unpacking and restarts, as long as no count ran into it, nor
\* into the sender's own field, which must be zero for a report to be taken.
TotalsAreWhatOthersReported ==
  \A i \in Computors :
    (\A t \in DOMAIN heard : Intact(heard[t], i) /\ Intact(heard[t], heard[t].from)) =>
      accumulated[i] = SaidOf(heard, i)
=============================================================================
