----------------------------- MODULE BiteDetector -----------------------------
(***************************************************************************)
(* DLibBiteDetector: one frame at a time, the opening angle of the mouth   *)
(* becomes a record (opened or closed), and a bite is counted when the     *)
(* latest four records read OPENED, OPENED, CLOSED, CLOSED, which the code *)
(* recognises by a weighted sum.                                           *)
(*                                                                         *)
(* Of the angle only two things matter: its side of the 18 degree          *)
(* threshold and the sign of its change.  Any run of such pairs that       *)
(* ConsistentWith allows is produced by some run of smoothed angles.       *)
(***************************************************************************)
EXTENDS Integers, Sequences

CONSTANTS
  MaxRecords,    \* MAX_RECORDS
  MaxFrames      \* bound: frames that may add a record or a bite

ASSUME BiteAssumption == MaxRecords \in Nat /\ MaxRecords >= 4 /\ MaxFrames \in Nat

MOUTH_CLOSED == -1
MOUTH_OPENED == 1
MouthStates  == {MOUTH_CLOSED, MOUTH_OPENED}
Levels       == {-1, 0, 1}   \* below, exactly at, above 18 degrees
Rates        == {-1, 0, 1}   \* sign of mouthOpeningVelocity

CHECK_LATEST_N_RECORDS == 4
Record == [mouth : MouthStates, level : Levels, rate : Rates]

VARIABLES
  records,    \* mRecords, oldest first
  biteCount,  \* mBiteCount
  streaming,  \* does the stream that feeds the detector still run?
  recorded,   \* history: records ever added
  recounts    \* history: bites counted by a frame that added no record

biteVars == <<records, biteCount, streaming, recorded, recounts>>

BiteInit ==
  /\ records = <<>>
  /\ biteCount = 0
  /\ streaming = TRUE
  /\ recorded = 0
  /\ recounts = 0

-----------------------------------------------------------------------------
\* A smoothed angle on this level after `last`, having changed with this sign.
ConsistentWith(last, level, rate) ==
  \/ level > last.level /\ rate = 1
  \/ level < last.level /\ rate = -1
  \/ level = last.level /\ (level = 0 => rate = 0)

\* The state of a new record is decided with the velocity of the one before.
MouthState(last, level) ==
  IF level >= 0 /\ last.rate > 0 THEN MOUTH_OPENED
  ELSE IF level <= 0 /\ last.rate < 0 THEN MOUTH_CLOSED
  ELSE last.mouth

\* record(): what it appends for an angle, and the list it leaves.
NewRecord(level, rate) ==
  IF records = <<>>
    THEN [mouth |-> MOUTH_CLOSED, level |-> level, rate |-> 0]
    ELSE [mouth |-> MouthState(records[Len(records)], level), level |-> level, rate |-> rate]

\* Mutant of Recorded: the oldest record is never dropped.
RecordedUnbounded(level, rate) == Append(records, NewRecord(level, rate))

Recorded(level, rate) ==
  LET all == Append(records, NewRecord(level, rate))
  IN IF Len(all) > MaxRecords THEN Tail(all) ELSE all

\* The i-th latest mouth state, 1 being the latest.
Latest(rs, i) == rs[Len(rs) + 1 - i].mouth

\* The position-weighted sum over the latest four records.
WeightedSum(rs) ==
  Latest(rs, 1) + 2 * Latest(rs, 2) + 3 * Latest(rs, 3) + 4 * Latest(rs, 4)

\* Mutant of IsABite: the sum alone, which OPENED, OPENED, CLOSED, OPENED has too.
IsABiteBySum(rs) == Len(rs) >= CHECK_LATEST_N_RECORDS /\ WeightedSum(rs) = 4

\* Mutant of IsABite: the oldest of the four records is not looked at.
IsABiteOfThree(rs) ==
  /\ Len(rs) >= CHECK_LATEST_N_RECORDS
  /\ Latest(rs, 1) = MOUTH_CLOSED /\ Latest(rs, 2) = MOUTH_CLOSED
  /\ Latest(rs, 3) = MOUTH_OPENED

\* detectBiteFromRecords()
IsABite(rs) ==
  /\ Len(rs) >= CHECK_LATEST_N_RECORDS
  /\ Latest(rs, 1) = MOUTH_CLOSED
  /\ WeightedSum(rs) = 4

\* detect() for a frame with a new timestamp.
DetectNewFrame(level, rate) ==
  /\ streaming /\ recorded < MaxFrames
  /\ records # <<>> => ConsistentWith(records[Len(records)], level, rate)
  /\ records' = Recorded(level, rate)
  /\ biteCount' = biteCount + (IF IsABite(records') THEN 1 ELSE 0)
  /\ recorded' = recorded + 1
  /\ UNCHANGED <<streaming, recounts>>

\* detect() for a frame within the same millisecond of thread time as the last
\* record: record() returns early, detectBiteFromRecords() runs all the same.
DetectSameTime ==
  /\ streaming /\ records # <<>> /\ recounts < MaxFrames
  /\ IsABite(records)
  /\ biteCount' = biteCount + 1
  /\ recounts' = recounts + 1
  /\ UNCHANGED <<records, streaming, recorded>>

\* A face without inner lips: detect() throws, the transformer's map turns it
\* into onError and no further frame is looked at.
InvalidFace ==
  /\ streaming
  /\ streaming' = FALSE
  /\ UNCHANGED <<records, biteCount, recorded, recounts>>

BiteNext ==
  \/ \E level \in Levels, rate \in Rates : DetectNewFrame(level, rate)
  \/ DetectSameTime
  \/ InvalidFace

BiteSpec == BiteInit /\ [][BiteNext]_biteVars

-----------------------------------------------------------------------------
\* Every variable holds a value the code can give it.
BiteTypeOK ==
  /\ records \in Seq(Record) /\ Len(records) <= MaxRecords
  /\ biteCount \in Nat
  /\ streaming \in BOOLEAN
  /\ recorded \in Nat /\ recorded >= Len(records)
  /\ recounts \in Nat

\* "an order sensitive sequence of [OPENED, OPENED, CLOSED, CLOSED]".
BITE == <<MOUTH_OPENED, MOUTH_OPENED, MOUTH_CLOSED, MOUTH_CLOSED>>

\* The latest k records are the first k states of the sequence.
Matched(rs, k) ==
  /\ Len(rs) >= k
  /\ \A i \in 1..k : rs[Len(rs) - k + i].mouth = BITE[i]

\* The weighted sum recognises that sequence and nothing else: a bite is counted
\* when a new record completes it, and only over records that read so.
CountsExactlyThePattern ==
  [][/\ recorded' > recorded => (biteCount' > biteCount <=> Matched(records', 4))
     /\ biteCount' > biteCount => Matched(records', 4)]_biteVars

\* Two bites never share a record: apart from recounts, each took four records
\* of its own, and discarding old records never makes one count again.
BitesAreDisjoint == 4 * (biteCount - recounts) <= recorded

\* The strengthening that is inductive: a half-seen bite has its own records too.
PartialBites ==
  /\ biteCount >= recounts
  /\ \A k \in 0..3 : Matched(records, k) => 4 * (biteCount - recounts) + k <= recorded

=============================================================================
