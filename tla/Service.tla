------------------------------- MODULE Service -------------------------------
(***************************************************************************)
(* The parts of the repository that every service uses beside its store:   *)
(* the shared log file, the metrics server, which logs through one of the  *)
(* loggers, and the secrets.  A message of the metrics server is one step  *)
(* of both: of its goroutine and of the logger it was given.               *)
(*                                                                         *)
(* The secrets share no state with the other two, so that no property can  *)
(* tell one interleaving of them from another; "part" says which of the    *)
(* two a behaviour is about.                                               *)
(***************************************************************************)
EXTENDS Logger

CONSTANTS MaxStarts, Foreign,  \* of MetricsServer
          Callers, MaxCalls,   \* of Secrets
          MetricsLogger        \* the logger given to the metrics server

ASSUME ServiceAssumption ==
  /\ MaxStarts \in Nat /\ Foreign \in BOOLEAN /\ MaxCalls \in Nat
  /\ MetricsLogger \in Loggers

VARIABLES part,
          enabled, srv, isRunning, shut, jammed, routine, own, port,
          exists, versions, place, calls, requests, answers, seen

Metrics == INSTANCE MetricsServer
Secret == INSTANCE Secrets

metricsVars == <<enabled, srv, isRunning, shut, jammed, routine, own, port>>
secretVars == <<exists, versions, place, calls, requests, answers, seen>>
serviceVars == <<part, vars, metricsVars, secretVars>>

ServiceInit ==
  /\ part \in {"observability", "secrets"}
  /\ Init /\ Metrics!Init /\ Secret!Init

-----------------------------------------------------------------------------
\* NewServer copies the logger, which therefore exists before the first Start.
HasLogger == pc[MetricsLogger] \in {"ready", "nop"}

\* s.log.Info and s.log.Error: nothing when the file could not be opened.
LogsThrough(l) ==
  \/ Log(l) \/ LogToRing(l)
  \/ pc[l] = "nop" /\ UNCHANGED vars

MetricsCall == HasLogger /\ Metrics!Calls /\ UNCHANGED vars

\* A message of the metrics server's goroutine i.
MetricsLogs(i) == Metrics!Logs(i) /\ LogsThrough(MetricsLogger)

MetricsQuiet(i) == Metrics!Quiet(i) /\ UNCHANGED vars

PortMoves == (Metrics!ForeignTakes \/ Metrics!ForeignLeaves) /\ UNCHANGED vars

MetricsRuns(i) == (MetricsLogs(i) \/ MetricsQuiet(i)) /\ UNCHANGED <<part, secretVars>>

\* The loggers otherwise: creation, other messages, the diodes and Close.
LoggerStep ==
  /\ \/ Close
     \/ \E l \in Loggers : \/ NewReuses(l) \/ NewOpens(l) \/ OpenFile(l) \/ OpenFails(l)
                           \/ Build(l) \/ Poll(l)
     \/ \E l \in Loggers \ {MetricsLogger} : Log(l) \/ LogToRing(l)
  /\ UNCHANGED metricsVars

Observability ==
  /\ part = "observability"
  /\ \/ MetricsCall \/ PortMoves
     \/ \E i \in Metrics!Goroutines : MetricsLogs(i) \/ MetricsQuiet(i)
     \/ LoggerStep
  /\ UNCHANGED <<part, secretVars>>

SecretsStep ==
  /\ part = "secrets"
  /\ Secret!Next
  /\ UNCHANGED <<part, vars, metricsVars>>

ServiceNext == Observability \/ SecretsStep

\* The goroutines of the metrics server keep running.
ServiceSpec ==
  /\ ServiceInit /\ [][ServiceNext]_serviceVars
  /\ \A i \in 1 .. MaxStarts : WF_serviceVars(part = "observability" /\ MetricsRuns(i))

-----------------------------------------------------------------------------
(* The properties of the parts, in the service that contains them.         *)

\* See MetricsServer!OnlyNewestServes, for which the goroutines may run late.
OnlyNewestServes == Metrics!OnlyNewestServes
StopFreesPort == Metrics!StopFreesPort
StartComesUp == Metrics!StartComesUp
OnePayloadForEver == Secret!OnePayloadForEver
ServiceTypeOK == TypeOK /\ Metrics!TypeOK /\ Secret!TypeOK
=============================================================================
