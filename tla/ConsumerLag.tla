----------------------------- MODULE ConsumerLag -----------------------------
(***************************************************************************)
(* kafka.CollectConsumerLag (src/kafka/lag.go) beside the cache whose      *)
(* consumer group it watches: the topic grows, the cache polls and         *)
(* commits, and between the two requests of CollectConsumerLag, for the    *)
(* committed offset and for the end of the log, all of them go on.         *)
(* One topic of one partition.                                             *)
(***************************************************************************)
EXTENDS Cache, Integers

CONSTANT MaxReports  \* bound: calls of CollectConsumerLag

ASSUME LagAssumption == MaxReports \in Nat

VARIABLES end,      \* LogEndOffset: records in the topic
          reports,  \* calls so far
          asking,   \* where CollectConsumerLag is: "idle", "asked", "done"
          offset,   \* the committed offset it has been told
          lag,      \* the Lag it returns, {} when it returns none for the partition
          listed,   \* the end of the log could be listed
          worst     \* the largest lag there was during the call

lagVars == <<end, reports, asking, offset, lag, listed, worst>>

LagInit ==
  /\ Init
  /\ end = 0
  /\ reports = 0
  /\ asking = "idle"
  /\ offset = 0
  /\ lag = {}
  /\ listed = FALSE
  /\ worst = 0

Larger(m, n) == IF m < n THEN n ELSE m

\* Records that are in the topic and not committed.
ActualLag == end - committed

-----------------------------------------------------------------------------
\* Mutant of FetchOffsets: what the consumer has polled, not what it has committed.
FetchPosition ==
  /\ asking = "idle" /\ reports < MaxReports
  /\ asking' = "asked"
  /\ offset' = Cardinality(polled)
  /\ worst' = ActualLag
  /\ UNCHANGED <<vars, end, reports, lag, listed>>

\* admin.FetchOffsets.
FetchOffsets ==
  /\ asking = "idle" /\ reports < MaxReports
  /\ asking' = "asked"
  /\ offset' = committed
  /\ worst' = ActualLag
  /\ UNCHANGED <<vars, end, reports, lag, listed>>

\* A group that has never committed has no offset, and gets no lag.  An error for
\* the partition alone is not looked at: its offset is -1, the difference negative.
ListEndOffsets ==
  /\ asking = "asked"
  /\ asking' = "done"
  /\ reports' = reports + 1
  /\ listed' \in BOOLEAN
  /\ LET endOffset == IF listed' THEN end ELSE -1
     IN  lag' = IF offset = 0 THEN {} ELSE {Larger(0, endOffset - offset)}
  /\ UNCHANGED <<vars, end, offset, worst>>

\* The result is used, or one of the requests has failed.
Forget ==
  /\ asking \in {"asked", "done"}
  /\ asking' = "idle"
  /\ lag' = {} /\ offset' = 0 /\ listed' = FALSE /\ worst' = 0
  /\ reports' = IF asking = "asked" THEN reports + 1 ELSE reports
  /\ UNCHANGED <<vars, end>>

-----------------------------------------------------------------------------
\* The worst lag is the largest of the moments until the answer.
Watch == worst' = IF asking = "asked" THEN Larger(worst, end' - committed') ELSE worst

\* A producer appends a record.
Produce ==
  /\ end < MaxRecords
  /\ end' = end + 1
  /\ UNCHANGED <<vars, reports, asking, offset, lag, listed>>
  /\ Watch

\* The cache moves; its client gets what is in the topic.
CacheMoves ==
  /\ Next
  /\ Cardinality(polled') <= end
  /\ UNCHANGED <<end, reports, asking, offset, lag, listed>>
  /\ Watch

LagNext == FetchOffsets \/ ListEndOffsets \/ Forget \/ Produce \/ CacheMoves

LagSpec == LagInit /\ [][LagNext]_<<vars, lagVars>> /\ Fairness

-----------------------------------------------------------------------------
(* Properties                                                              *)

\* A lag that is reported is never too small: at each moment of the call the
\* group lagged by at most as much, though the topic grows and the group commits
\* between the two requests.  A partition whose end was not listed is exempt.
LagNeverTooSmall ==
  asking = "done" /\ listed => \A n \in lag : n >= worst
=============================================================================
