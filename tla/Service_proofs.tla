--------------------------- MODULE Service_proofs ---------------------------
(***************************************************************************)
(* Proofs about Service: about the metrics server, the secrets and the     *)
(* loggers in it, for any number of starts, callers, loggers and messages  *)
(* and any size of the ring buffers.                                       *)
(***************************************************************************)
EXTENDS Service, FiniteSetTheorems, TLAPS

-----------------------------------------------------------------------------
(* A step of the service is a step of each part, or leaves it alone.       *)

LEMMA PartsStep ==
  ASSUME [ServiceNext]_serviceVars
  PROVE  [Next]_vars /\ [Metrics!Next]_metricsVars /\ [Secret!Next]_secretVars
<1>1. CASE UNCHANGED serviceVars
  BY <1>1 DEF serviceVars
<1>2. CASE SecretsStep
  BY <1>2 DEF SecretsStep
<1>3. CASE Observability
  <2>1. UNCHANGED secretVars
    BY <1>3 DEF Observability
  <2>2. CASE MetricsCall \/ PortMoves
    BY <2>1, <2>2 DEF MetricsCall, PortMoves, Metrics!Next
  <2>3. ASSUME NEW i \in Metrics!Goroutines, MetricsLogs(i)
        PROVE  [Next]_vars /\ [Metrics!Next]_metricsVars
    <3>1. [Next]_vars
      BY <2>3, ServiceAssumption DEF MetricsLogs, LogsThrough, Next
    <3> QED
      BY <2>3, <3>1 DEF MetricsLogs, Metrics!Next
  <2>4. ASSUME NEW i \in Metrics!Goroutines, MetricsQuiet(i)
        PROVE  [Next]_vars /\ [Metrics!Next]_metricsVars
    BY <2>4 DEF MetricsQuiet, Metrics!Next
  <2>5. CASE LoggerStep
    <3>1. [Next]_vars
      BY <2>5 DEF LoggerStep, Next
    <3> QED
      BY <2>1, <2>5, <3>1 DEF LoggerStep
  <2> QED
    BY <1>3, <2>1, <2>2, <2>3, <2>4, <2>5 DEF Observability
<1> QED
  BY <1>1, <1>2, <1>3 DEF ServiceNext

-----------------------------------------------------------------------------
(* The metrics server                                                      *)

\* All http.Servers but the one that runs are closed, and a goroutine that holds
\* a listener has the port.
MetricsInv ==
  /\ Metrics!TypeOK
  /\ \A n \in 1 .. srv : n \in shut \/ (n = srv /\ isRunning)
  /\ \A i \in Metrics!Goroutines :
       /\ routine[i] = "bound" \/ Metrics!Serves(i) => port = i
       /\ routine[i] \in {"bound", "serving"} => own[i] >= 1

LEMMA MetricsInit == Metrics!Init => MetricsInv
<1> SUFFICES ASSUME Metrics!Init PROVE MetricsInv
  OBVIOUS
<1>1. srv = 0 /\ shut = {} /\ jammed = {} /\ port = 0 /\ MaxStarts \in Nat
  BY ServiceAssumption DEF Metrics!Init, Metrics!Free
<1>2. \A i \in Metrics!Goroutines : routine[i] = "none"
  BY DEF Metrics!Init
<1>3. Metrics!TypeOK
  <2>1. own \in [Metrics!Goroutines -> 0 .. srv]
    BY <1>1 DEF Metrics!Init
  <2>2. routine \in [Metrics!Goroutines -> {"none", "announce", "listen", "refused", "bound",
                                             "serving", "report", "gone"}]
    BY DEF Metrics!Init
  <2>3. enabled \in BOOLEAN /\ isRunning \in BOOLEAN
    BY DEF Metrics!Init
  <2>4. srv \in 0 .. MaxStarts /\ port \in 0 .. MaxStarts + 1
    BY <1>1
  <2>5. jammed \subseteq shut /\ shut \subseteq 1 .. srv
    BY <1>1
  <2> QED
    BY <2>1, <2>2, <2>3, <2>4, <2>5 DEF Metrics!TypeOK
<1>4. \A n \in 1 .. srv : FALSE
  BY <1>1
<1> QED
  BY <1>2, <1>3, <1>4 DEF MetricsInv, Metrics!Serves

LEMMA MetricsStart ==
  ASSUME MetricsInv, Metrics!Start
  PROVE  MetricsInv'
<1>1. /\ srv \in Nat /\ srv + 1 \in Metrics!Goroutines /\ srv' = srv + 1 /\ isRunning' = TRUE
      /\ routine' = [routine EXCEPT ![srv + 1] = "announce"]
      /\ srv = 0 \/ ~isRunning
      /\ UNCHANGED <<enabled, shut, jammed, own, port>>
  BY ServiceAssumption DEF MetricsInv, Metrics!TypeOK, Metrics!Start, Metrics!Goto, Metrics!Goroutines
<1>2. Metrics!TypeOK'
  BY <1>1, ServiceAssumption DEF MetricsInv, Metrics!TypeOK, Metrics!Goroutines
<1>3. \A n \in 1 .. srv' : n \in shut' \/ (n = srv' /\ isRunning')
  BY <1>1 DEF MetricsInv
<1>4. \A i \in Metrics!Goroutines : routine'[i] = routine[i] \/ routine'[i] = "announce"
  BY <1>1 DEF MetricsInv, Metrics!TypeOK
<1> QED
  BY <1>1, <1>2, <1>3, <1>4 DEF MetricsInv, Metrics!Serves

\* Close frees the port if the server that is closed holds it.
LEMMA MetricsClose ==
  ASSUME MetricsInv, Metrics!CloseServer, srv # 0, isRunning' \in BOOLEAN,
         UNCHANGED <<enabled, srv, routine, own>>, jammed' \subseteq shut'
  PROVE  MetricsInv'
<1>1. shut' = shut \cup {srv}
  BY DEF Metrics!CloseServer
<1>2. \/ port' = port
      \/ \E i \in Metrics!Goroutines : port = i /\ Metrics!Serves(i) /\ own[i] = srv
  BY DEF Metrics!CloseServer
<1>3. port' \in {port, 0}
  BY DEF Metrics!CloseServer, Metrics!Free
<1>4. Metrics!TypeOK'
  BY <1>1, <1>3, ServiceAssumption DEF MetricsInv, Metrics!TypeOK
<1>5. \A n \in 1 .. srv' : n \in shut' \/ (n = srv' /\ isRunning')
  BY <1>1 DEF MetricsInv
<1>6. ASSUME NEW i \in Metrics!Goroutines, routine'[i] = "bound" \/ Metrics!Serves(i)'
      PROVE  port' = i
  <2>1. port = i
    BY <1>1, <1>6 DEF MetricsInv, Metrics!Serves
  <2>2. ~(Metrics!Serves(i) /\ own[i] = srv)
    BY <1>1, <1>6 DEF Metrics!Serves
  <2> QED
    BY <1>2, <2>1, <2>2
<1> QED
  BY <1>4, <1>5, <1>6 DEF MetricsInv

LEMMA MetricsStops == MetricsInv /\ (Metrics!Stop \/ Metrics!StopFails) => MetricsInv'
<1>1. MetricsInv /\ Metrics!Stop => MetricsInv'
  <2> SUFFICES ASSUME MetricsInv, Metrics!Stop PROVE MetricsInv'
    OBVIOUS
  <2>1. /\ Metrics!CloseServer /\ srv # 0 /\ isRunning' = FALSE
        /\ UNCHANGED <<enabled, srv, jammed, routine, own>>
    BY DEF Metrics!Stop
  <2>2. jammed' \subseteq shut'
    BY <2>1 DEF MetricsInv, Metrics!TypeOK, Metrics!CloseServer
  <2> QED
    BY <2>1, <2>2, MetricsClose
<1>2. MetricsInv /\ Metrics!StopFails => MetricsInv'
  <2> SUFFICES ASSUME MetricsInv, Metrics!StopFails PROVE MetricsInv'
    OBVIOUS
  <2>1. /\ Metrics!CloseServer /\ srv # 0 /\ jammed' = jammed \cup {srv}
        /\ UNCHANGED <<enabled, srv, isRunning, routine, own>>
    BY DEF Metrics!StopFails
  <2>2. jammed' \subseteq shut' /\ isRunning' \in BOOLEAN
    BY <2>1 DEF MetricsInv, Metrics!TypeOK, Metrics!CloseServer
  <2> QED
    BY <2>1, <2>2, MetricsClose
<1> QED
  BY <1>1, <1>2

\* A step of goroutine i that the others do not see, unless it takes or gives the
\* port.
LEMMA MetricsRoutine ==
  ASSUME MetricsInv, NEW i \in Metrics!Goroutines, Metrics!Quiet(i) \/ Metrics!Logs(i)
  PROVE  MetricsInv'
<1>1. /\ UNCHANGED <<enabled, srv, isRunning, shut, jammed>>
      /\ \A j \in Metrics!Goroutines \ {i} : routine'[j] = routine[j] /\ own'[j] = own[j]
  BY DEF MetricsInv, Metrics!TypeOK, Metrics!Quiet, Metrics!Logs, Metrics!Announce, Metrics!Listen,
         Metrics!Serve, Metrics!Return, Metrics!Report, Metrics!fields, Metrics!Goto
<1>2. /\ i \in Nat /\ i # 0 /\ i <= MaxStarts /\ MaxStarts \in Nat /\ srv \in Nat
      /\ \A j \in Metrics!Goroutines : j \in Nat /\ j # 0
  BY ServiceAssumption DEF Metrics!Goroutines, MetricsInv, Metrics!TypeOK
<1>3. /\ routine' \in [Metrics!Goroutines -> {"none", "announce", "listen", "refused", "bound",
                                              "serving", "report", "gone"}]
      /\ own' \in [Metrics!Goroutines -> 0 .. srv]
      /\ port' \in {port, i, 0}
      /\ routine'[i] = "bound" \/ Metrics!Serves(i)' => port' = i
      /\ routine'[i] \in {"bound", "serving"} => own'[i] >= 1
      /\ port' # port => port = 0 \/ port = i
  <2>1. CASE Metrics!Announce(i)
    BY <1>1, <2>1 DEF MetricsInv, Metrics!TypeOK, Metrics!Announce, Metrics!Goto, Metrics!Serves
  <2>2. CASE Metrics!Report(i)
    BY <1>1, <2>2 DEF MetricsInv, Metrics!TypeOK, Metrics!Report, Metrics!Goto, Metrics!Serves
  <2>3. CASE Metrics!Return(i)
    BY <1>1, <2>3 DEF MetricsInv, Metrics!TypeOK, Metrics!Return, Metrics!Goto, Metrics!Serves
  <2>4. CASE Metrics!Serve(i)
    <3>1. port = i /\ own'[i] = own[i] /\ own[i] >= 1 /\ own' = own
      BY <2>4 DEF MetricsInv, Metrics!Serve
    <3>2. CASE own[i] \in shut
      BY <1>1, <2>4, <3>1, <3>2 DEF MetricsInv, Metrics!TypeOK, Metrics!Serve, Metrics!Goto,
         Metrics!Serves, Metrics!Free
    <3>3. CASE own[i] \notin shut
      BY <1>1, <2>4, <3>1, <3>3 DEF MetricsInv, Metrics!TypeOK, Metrics!Serve, Metrics!Goto,
         Metrics!Serves
    <3> QED
      BY <3>2, <3>3
  <2>5. CASE Metrics!Listen(i)
    <3>1. PICK o \in i .. srv :
            /\ own' = [own EXCEPT ![i] = o]
            /\ \/ Metrics!Goto(i, "report") /\ port' = port
               \/ port = 0 /\ port' = i /\ Metrics!Goto(i, "bound")
               \/ Metrics!Goto(i, "refused") /\ port' = port
      BY <2>5 DEF Metrics!Listen, Metrics!Free
    <3>2. o \in 0 .. srv /\ o >= 1
      BY <1>2
    <3>3. own' \in [Metrics!Goroutines -> 0 .. srv] /\ own'[i] = o
      BY <3>1, <3>2 DEF MetricsInv, Metrics!TypeOK
    <3>4. /\ routine' \in [Metrics!Goroutines -> {"none", "announce", "listen", "refused", "bound",
                                                  "serving", "report", "gone"}]
          /\ \/ routine'[i] \in {"report", "refused"} /\ port' = port
             \/ routine'[i] = "bound" /\ port = 0 /\ port' = i
      BY <3>1 DEF MetricsInv, Metrics!TypeOK, Metrics!Goto
    <3> QED
      BY <3>2, <3>3, <3>4 DEF Metrics!Serves
  <2> QED
    BY <2>1, <2>2, <2>3, <2>4, <2>5 DEF Metrics!Quiet, Metrics!Logs
<1>4. Metrics!TypeOK'
  BY <1>1, <1>2, <1>3 DEF MetricsInv, Metrics!TypeOK
<1>5. ASSUME NEW j \in Metrics!Goroutines, j # i
      PROVE  /\ routine'[j] = "bound" \/ Metrics!Serves(j)' => port' = j
             /\ routine'[j] \in {"bound", "serving"} => own'[j] >= 1
  <2>1. routine'[j] = routine[j] /\ own'[j] = own[j] /\ shut' = shut /\ j # 0
    BY <1>1, <1>2, <1>5
  <2> QED
    BY <1>3, <1>5, <2>1 DEF MetricsInv, Metrics!Serves
<1> QED
  BY <1>1, <1>3, <1>4, <1>5 DEF MetricsInv

LEMMA MetricsNext == MetricsInv /\ [Metrics!Next]_metricsVars => MetricsInv'
<1> SUFFICES ASSUME MetricsInv, [Metrics!Next]_metricsVars PROVE MetricsInv'
  OBVIOUS
<1>1. CASE UNCHANGED metricsVars
  BY <1>1 DEF metricsVars, MetricsInv, Metrics!TypeOK, Metrics!Serves
<1>2. CASE Metrics!ForeignTakes \/ Metrics!ForeignLeaves
  <2>1. /\ UNCHANGED <<enabled, srv, isRunning, shut, jammed, routine, own>>
        /\ port \notin Metrics!Goroutines /\ port' \in 0 .. MaxStarts + 1
    BY <1>2, ServiceAssumption DEF Metrics!ForeignTakes, Metrics!ForeignLeaves, Metrics!fields,
       Metrics!Goroutines, Metrics!Free, Metrics!Other
  <2> QED
    BY <2>1 DEF MetricsInv, Metrics!TypeOK, Metrics!Serves
<1>3. CASE Metrics!Calls
  BY <1>3, MetricsStart, MetricsStops DEF Metrics!Calls
<1>4. ASSUME NEW i \in Metrics!Goroutines, Metrics!Quiet(i) \/ Metrics!Logs(i) PROVE MetricsInv'
  BY <1>4, MetricsRoutine
<1> QED
  BY <1>1, <1>2, <1>3, <1>4 DEF Metrics!Next

\* What is not closed is the newest server, and only one goroutine has the port.
LEMMA MetricsImplies == MetricsInv => Metrics!TypeOK /\ Metrics!OnlyNewestServes
<1> SUFFICES ASSUME MetricsInv, NEW i \in Metrics!Goroutines, Metrics!Serves(i)
             PROVE  /\ isRunning /\ own[i] = srv
                    /\ \A j \in Metrics!Goroutines : Metrics!Serves(j) => j = i
  BY DEF MetricsInv, Metrics!OnlyNewestServes
<1>1. own[i] \in 1 .. srv /\ own[i] \notin shut
  BY DEF MetricsInv, Metrics!TypeOK, Metrics!Serves
<1> QED
  BY <1>1 DEF MetricsInv

-----------------------------------------------------------------------------
(* The secrets                                                             *)

\* Only one create succeeds, so that all answers are to one call, and the request
\* for a version, of which that call makes one, leads to the only version.
SecretsInv ==
  /\ Secret!TypeOK
  /\ \A kind \in {"create", "add"}, c \in Callers, n \in 1 .. MaxCalls :
       <<kind, c, n>> \in requests \cup answers => n <= calls[c]
  /\ ~exists => answers = {}
  /\ \A r, s \in answers : r[2] = s[2] /\ r[3] = s[3]
  /\ \A c \in Callers, n \in 1 .. MaxCalls :
       /\ <<"add", c, n>> \in requests => <<"create", c, n>> \in answers
                                          /\ <<"add", c, n>> \notin answers
       /\ <<"add", c, n>> \in answers => versions = <<c>>
  /\ \A c \in Callers :
       /\ place[c] = "creating" => <<"add", c, calls[c]>> \notin requests \cup answers
       /\ place[c] = "named" => versions = <<c>>
  /\ versions # <<>> => \E c \in Callers, n \in 1 .. MaxCalls : <<"add", c, n>> \in answers
  /\ \A p \in seen : versions = <<p>>

LEMMA SecretsInit == Secret!Init => SecretsInv
<1> SUFFICES ASSUME Secret!Init PROVE SecretsInv
  OBVIOUS
<1>1. /\ requests = {} /\ answers = {} /\ seen = {} /\ versions = <<>> /\ exists = FALSE
      /\ MaxCalls \in Nat /\ versions \in Seq(Callers)
  BY ServiceAssumption DEF Secret!Init
<1>2. Secret!TypeOK
  <2>1. requests \cup answers = {}
    BY <1>1
  <2>2. place \in [Callers -> {"idle", "creating", "adding", "named", "failed"}]
    BY DEF Secret!Init
  <2>3. calls \in [Callers -> 0 .. MaxCalls]
    BY <1>1 DEF Secret!Init
  <2> QED
    BY <1>1, <2>1, <2>2, <2>3 DEF Secret!TypeOK
<1>3. \A c \in Callers : place[c] = "idle"
  BY DEF Secret!Init
<1> QED
  BY <1>1, <1>2, <1>3 DEF SecretsInv

\* The part that is about what callers know.
LEMMA SecretsCall ==
  ASSUME SecretsInv, NEW c \in Callers, Secret!Call(c)
  PROVE  SecretsInv'
<1>1. /\ calls[c] \in Nat /\ calls[c] + 1 \in 1 .. MaxCalls /\ place[c] # "creating"
      /\ calls' = [calls EXCEPT ![c] = calls[c] + 1]
      /\ requests' = requests \cup {<<"create", c, calls[c] + 1>>}
      /\ place' = [place EXCEPT ![c] = "creating"]
      /\ UNCHANGED <<exists, versions, answers, seen>>
  BY ServiceAssumption DEF SecretsInv, Secret!TypeOK, Secret!Call, Secret!Move, Secret!manager
<1>2. /\ calls' \in [Callers -> 0 .. MaxCalls]
      /\ calls'[c] = calls[c] + 1
      /\ \A d \in Callers : d # c => calls'[d] = calls[d] /\ place'[d] = place[d]
      /\ place'[c] = "creating"
  BY <1>1, ServiceAssumption DEF SecretsInv, Secret!TypeOK
<1>3. Secret!TypeOK'
  BY <1>1, <1>2 DEF SecretsInv, Secret!TypeOK
<1>4. \A d \in Callers : calls[d] \in Nat
  BY ServiceAssumption DEF SecretsInv, Secret!TypeOK
<1>5. ASSUME NEW kind \in {"create", "add"}, NEW d \in Callers, NEW n \in 1 .. MaxCalls,
             <<kind, d, n>> \in requests' \cup answers'
      PROVE  n <= calls'[d]
  <2>1. CASE <<kind, d, n>> \in requests \cup answers
    BY <1>1, <1>2, <1>4, <2>1, ServiceAssumption DEF SecretsInv
  <2>2. CASE <<kind, d, n>> = <<"create", c, calls[c] + 1>>
    BY <1>2, <2>2, <1>1
  <2> QED
    BY <1>1, <1>5, <2>1, <2>2
<1>6. \A d \in Callers, n \in 1 .. MaxCalls :
        <<"add", d, n>> \in requests' <=> <<"add", d, n>> \in requests
  BY <1>1
<1>7. <<"add", c, calls[c] + 1>> \notin requests \cup answers
  BY <1>1 DEF SecretsInv
<1>8. ASSUME NEW d \in Callers, place'[d] = "creating"
      PROVE  <<"add", d, calls'[d]>> \notin requests' \cup answers'
  <2>1. CASE d = c
    BY <1>1, <1>2, <1>7, <2>1
  <2>2. CASE d # c
    BY <1>1, <1>2, <1>8, <2>2 DEF SecretsInv
  <2> QED
    BY <2>1, <2>2
<1>9. ASSUME NEW d \in Callers, place'[d] = "named" PROVE versions' = <<d>>
  BY <1>1, <1>2, <1>9 DEF SecretsInv
<1> QED
  BY <1>1, <1>3, <1>5, <1>6, <1>8, <1>9 DEF SecretsInv

LEMMA SecretsMove ==
  ASSUME SecretsInv, NEW c \in Callers,
         Secret!AddVersion(c) \/ Secret!Named(c) \/ Secret!Fail(c)
  PROVE  SecretsInv'
<1>1. CASE Secret!AddVersion(c)
  <2>1. /\ place[c] = "creating" /\ <<"create", c, calls[c]>> \in answers
        /\ requests' = requests \cup {<<"add", c, calls[c]>>}
        /\ place' = [place EXCEPT ![c] = "adding"]
        /\ UNCHANGED <<exists, versions, calls, answers, seen>>
    BY <1>1 DEF Secret!AddVersion, Secret!Request, Secret!Move, Secret!manager
  <2>2. calls[c] \in 1 .. MaxCalls
    BY <2>1, ServiceAssumption DEF SecretsInv, Secret!TypeOK
  <2>3. Secret!TypeOK'
    BY <2>1, <2>2 DEF SecretsInv, Secret!TypeOK
  <2>4. <<"add", c, calls[c]>> \notin answers
    BY <2>1 DEF SecretsInv
  <2>5. \A d \in Callers : place'[d] \in {"creating", "named"} => d # c /\ place'[d] = place[d]
    BY <2>1 DEF SecretsInv, Secret!TypeOK
  <2>6. ASSUME NEW kind \in {"create", "add"}, NEW d \in Callers, NEW n \in 1 .. MaxCalls,
               <<kind, d, n>> \in requests' \cup answers'
        PROVE  n <= calls'[d]
    <3>1. CASE <<kind, d, n>> \in requests \cup answers
      BY <2>1, <3>1 DEF SecretsInv
    <3>2. CASE <<kind, d, n>> = <<"add", c, calls[c]>>
      BY <2>1, <2>2, <3>2
    <3> QED
      BY <2>1, <2>6, <3>1, <3>2
  <2>7. ASSUME NEW d \in Callers, NEW n \in 1 .. MaxCalls, <<"add", d, n>> \in requests'
        PROVE  <<"create", d, n>> \in answers' /\ <<"add", d, n>> \notin answers'
    <3>1. CASE <<"add", d, n>> \in requests
      BY <2>1, <3>1 DEF SecretsInv
    <3>2. CASE d = c /\ n = calls[c]
      BY <2>1, <2>4, <3>2
    <3> QED
      BY <2>1, <2>7, <3>1, <3>2
  <2>8. \A d \in Callers : place'[d] = "creating"
                           => <<"add", d, calls'[d]>> \notin requests' \cup answers'
    BY <2>1, <2>5 DEF SecretsInv
  <2>9. \A d \in Callers : place'[d] = "named" => versions' = <<d>>
    BY <2>1, <2>5 DEF SecretsInv
  <2> QED
    BY <2>1, <2>3, <2>6, <2>7, <2>8, <2>9 DEF SecretsInv
<1>2. CASE Secret!Named(c) \/ Secret!Fail(c)
  <2>1. /\ \/ place' = [place EXCEPT ![c] = "named"] /\ <<"add", c, calls[c]>> \in answers
           \/ place' = [place EXCEPT ![c] = "failed"]
        /\ UNCHANGED <<exists, versions, calls, requests, answers, seen>>
    BY <1>2 DEF Secret!Named, Secret!Fail, Secret!Request, Secret!Move, Secret!manager
  <2>2. Secret!TypeOK'
    BY <2>1 DEF SecretsInv, Secret!TypeOK
  <2>3. \A d \in Callers : place'[d] = "creating" => place[d] = "creating"
    BY <2>1 DEF SecretsInv, Secret!TypeOK
  <2>4. ASSUME <<"add", c, calls[c]>> \in answers PROVE versions = <<c>>
    <3>1. calls[c] \in 1 .. MaxCalls
      BY <2>4 DEF SecretsInv, Secret!TypeOK
    <3> QED
      BY <2>4, <3>1 DEF SecretsInv
  <2>5. \A d \in Callers : place'[d] = "named" => versions' = <<d>>
    BY <2>1, <2>4 DEF SecretsInv, Secret!TypeOK
  <2> QED
    BY <2>1, <2>2, <2>3, <2>5 DEF SecretsInv
<1> QED
  BY <1>1, <1>2

\* The manager's part.
LEMMA SecretsManager ==
  ASSUME SecretsInv, NEW r \in requests, Secret!Apply(r) \/ Secret!Lose(r)
  PROVE  SecretsInv'
<1>1. PICK kind \in {"create", "add"}, c \in Callers, n \in 1 .. MaxCalls : r = <<kind, c, n>>
  BY DEF SecretsInv, Secret!TypeOK
<1>2. /\ requests' = requests \ {r}
      /\ UNCHANGED <<place, calls, seen>>
  BY DEF Secret!Apply, Secret!Lose, Secret!manager
<1>3. CASE UNCHANGED <<exists, versions, answers>>
  <2>1. Secret!TypeOK'
    BY <1>2, <1>3 DEF SecretsInv, Secret!TypeOK
  <2> QED
    BY <1>2, <1>3, <2>1 DEF SecretsInv
<1>4. CASE kind = "create" /\ ~exists /\ exists' = TRUE /\ versions' = versions
           /\ answers' = answers \cup {r}
  <2>1. answers = {} /\ answers' = {<<"create", c, n>>}
    BY <1>1, <1>4 DEF SecretsInv
  <2>2. versions = <<>> /\ seen = {}
    BY <2>1 DEF SecretsInv
  <2>3. Secret!TypeOK'
    BY <1>1, <1>2, <1>4, <2>1 DEF SecretsInv, Secret!TypeOK
  <2>4. \A d \in Callers, m \in 1 .. MaxCalls : <<"add", d, m>> \notin requests' \cup answers'
    BY <1>2, <2>1 DEF SecretsInv
  <2>5. \A k \in {"create", "add"}, d \in Callers, m \in 1 .. MaxCalls :
          <<k, d, m>> \in requests' \cup answers' => <<k, d, m>> \in requests
    BY <1>1, <1>2, <1>4, <2>1
  <2>6. \A d \in Callers : <<"add", d, calls'[d]>> \notin requests' \cup answers'
    BY <1>2, <2>1 DEF SecretsInv, Secret!TypeOK
  <2> QED
    BY <1>2, <1>4, <2>1, <2>2, <2>3, <2>4, <2>5, <2>6 DEF SecretsInv
<1>5. CASE kind = "add" /\ versions' = Append(versions, c) /\ answers' = answers \cup {r}
           /\ exists' = exists
  <2>1. <<"create", c, n>> \in answers /\ <<"add", c, n>> \notin answers
    BY <1>1, <1>5 DEF SecretsInv
  <2>2. \A s \in answers : s[2] = c /\ s[3] = n
    BY <2>1 DEF SecretsInv
  <2>3. \A d \in Callers, m \in 1 .. MaxCalls : <<"add", d, m>> \notin answers
    BY <2>1, <2>2
  <2>4. versions = <<>>
    BY <2>3 DEF SecretsInv
  <2>5. versions' = <<c>> /\ seen = {}
    BY <1>5, <2>4 DEF SecretsInv
  <2>6. Secret!TypeOK'
    <3>1. versions' \in Seq(Callers)
      BY <2>5
    <3> QED
      BY <1>1, <1>2, <1>5, <3>1 DEF SecretsInv, Secret!TypeOK
  <2>7. \A d \in Callers, m \in 1 .. MaxCalls : <<"add", d, m>> \notin requests'
    <3> SUFFICES ASSUME NEW d \in Callers, NEW m \in 1 .. MaxCalls, <<"add", d, m>> \in requests'
                 PROVE  FALSE
      OBVIOUS
    <3>1. <<"create", d, m>> \in answers /\ <<"add", d, m>> # r
      BY <1>2 DEF SecretsInv
    <3>2. d = c /\ m = n
      BY <2>2, <3>1
    <3> QED
      BY <1>1, <1>5, <3>1, <3>2
  <2>8. \A k \in {"create", "add"}, d \in Callers, m \in 1 .. MaxCalls :
          <<k, d, m>> \in requests' \cup answers' => <<k, d, m>> \in requests \cup answers
    BY <1>1, <1>2, <1>5
  <2>9. \A s \in answers' : s[2] = c /\ s[3] = n
    BY <1>1, <1>5, <2>2
  <2>10. \A d \in Callers, m \in 1 .. MaxCalls : <<"add", d, m>> \in answers' => d = c
    BY <1>1, <1>5, <2>3
  <2>11. ASSUME NEW d \in Callers, place'[d] = "creating"
         PROVE  <<"add", d, calls'[d]>> \notin requests' \cup answers'
    BY <1>1, <1>2, <1>5, <2>11 DEF SecretsInv
  <2>12. \A d \in Callers : place'[d] # "named"
    <3>1. \A d \in Callers : versions # <<d>>
      BY <2>4
    <3> QED
      BY <1>2, <3>1 DEF SecretsInv
  <2>13. exists /\ <<"add", c, n>> \in answers'
    BY <1>1, <1>5, <2>1 DEF SecretsInv
  <2> QED
    BY <1>2, <1>5, <2>5, <2>6, <2>7, <2>8, <2>9, <2>10, <2>11, <2>12, <2>13 DEF SecretsInv
<1> QED
  BY <1>1, <1>3, <1>4, <1>5 DEF Secret!Apply, Secret!Lose, Secret!Answer, Secret!manager

LEMMA SecretsNext == SecretsInv /\ [Secret!Next]_secretVars => SecretsInv'
<1> SUFFICES ASSUME SecretsInv, [Secret!Next]_secretVars PROVE SecretsInv'
  OBVIOUS
<1>1. CASE UNCHANGED secretVars
  BY <1>1 DEF secretVars, SecretsInv, Secret!TypeOK
<1>2. CASE Secret!GetSecret
  <2>1. PICK c \in Callers, n \in 1 .. MaxCalls : <<"add", c, n>> \in answers
    BY <1>2 DEF Secret!GetSecret, SecretsInv
  <2>2. versions = <<c>>
    BY <2>1 DEF SecretsInv
  <2>3. seen' = seen \cup {c} /\ UNCHANGED <<exists, versions, place, calls, requests, answers>>
    BY <1>2, <2>2 DEF Secret!GetSecret, Secret!manager
  <2>4. Secret!TypeOK'
    BY <2>3 DEF SecretsInv, Secret!TypeOK
  <2> QED
    BY <2>2, <2>3, <2>4 DEF SecretsInv
<1>3. ASSUME NEW c \in Callers,
             Secret!Call(c) \/ Secret!AddVersion(c) \/ Secret!Named(c) \/ Secret!Fail(c)
      PROVE  SecretsInv'
  BY <1>3, SecretsCall, SecretsMove
<1>4. ASSUME NEW r \in requests, Secret!Apply(r) \/ Secret!Lose(r) PROVE SecretsInv'
  BY <1>4, SecretsManager
<1> QED
  BY <1>1, <1>2, <1>3, <1>4 DEF Secret!Next

LEMMA SecretsImplies == SecretsInv => Secret!TypeOK /\ Secret!OnePayloadForEver
<1> SUFFICES ASSUME SecretsInv PROVE Secret!TypeOK /\ Secret!OnePayloadForEver
  OBVIOUS
<1>1. \A p, q : <<p>> = <<q>> => p = q
  OBVIOUS
<1>2. \A p, q \in seen : p = q
  BY <1>1 DEF SecretsInv
<1>3. ASSUME NEW c \in Callers, place[c] = "named" PROVE versions = <<c>> /\ seen \subseteq {c}
  BY <1>1, <1>3 DEF SecretsInv
<1> QED
  BY <1>2, <1>3 DEF SecretsInv, Secret!OnePayloadForEver

-----------------------------------------------------------------------------
(* The loggers                                                             *)

Known(l) == Cardinality(Written(l)) + failed[l]

\* What a logger has passed on so far: for a thread-safe one, its reader.
Passed(l) == IF l \in ThreadSafe THEN readIndex[l] ELSE logged[l]

\* The file has messages that were passed on and are older than the one in hand;
\* the buffer has messages that were logged.
LoggerInv ==
  /\ TypeOK /\ MessagesAccounted
  /\ \A l \in Loggers :
       /\ \A i \in Written(l) : /\ contents[i][2] < Passed(l)
                                /\ \A m \in hand[l] : contents[i][2] < m
       /\ \A m \in hand[l] : m < readIndex[l] /\ hand[l] = {m}
       /\ \A s \in 0 .. Size - 1 : \A m \in ring[l][s] : m < logged[l]
       /\ l \notin ThreadSafe => hand[l] = {} /\ \A s \in 0 .. Size - 1 : ring[l][s] = {}

LEMMA WrittenFinite ==
  ASSUME TypeOK, NEW l \in Loggers
  PROVE  IsFiniteSet(Written(l)) /\ Known(l) \in Nat /\ Cardinality(Written(l)) \in Nat
<1>1. Len(contents) \in Nat /\ Written(l) \subseteq 1 .. Len(contents)
  <2>1. contents \in Seq(Loggers \X Nat)
    BY DEF TypeOK
  <2>2. Len(contents) \in Nat /\ DOMAIN contents = 1 .. Len(contents)
    BY <2>1
  <2> QED
    BY <2>2 DEF Written
<1>2. IsFiniteSet(1 .. Len(contents))
  BY <1>1, FS_Interval
<1>3. IsFiniteSet(Written(l))
  BY <1>1, <1>2, FS_Subset
<1>4. Cardinality(Written(l)) \in Nat
  BY <1>3, FS_CardinalityType
<1> QED
  BY <1>3, <1>4 DEF TypeOK, Known

\* A write accounts for one message, and adds it at the end of the file if at all.
LEMMA WriteAccounts ==
  ASSUME TypeOK, NEW l \in Loggers, NEW n \in Nat, Write(l, n)
  PROVE  /\ contents' \in Seq(Loggers \X Nat) /\ failed' \in [Loggers -> Nat]
         /\ Known(l)' = Known(l) + 1
         /\ \A k \in Loggers : k # l => Known(k)' = Known(k)
         /\ \/ contents' = contents
            \/ contents' = Append(contents, <<l, n>>)
<1>1. CASE Takes(out[l])
  <2>1. contents' = Append(contents, <<l, n>>) /\ failed' = failed
    BY <1>1 DEF Write
  <2>2. contents \in Seq(Loggers \X Nat) /\ <<l, n>> \in Loggers \X Nat
    BY DEF TypeOK
  <2>3. /\ Len(contents) \in Nat
        /\ DOMAIN contents' = 1 .. Len(contents) + 1
        /\ DOMAIN contents = 1 .. Len(contents)
        /\ contents'[Len(contents) + 1] = <<l, n>>
        /\ \A i \in 1 .. Len(contents) : contents'[i] = contents[i]
    BY <2>1, <2>2
  <2>4. Written(l)' = Written(l) \cup {Len(contents) + 1} /\ Len(contents) + 1 \notin Written(l)
    BY <2>3 DEF Written
  <2>5. \A k \in Loggers : k # l => Written(k)' = Written(k)
    BY <2>3 DEF Written
  <2>6. Cardinality(Written(l)') = Cardinality(Written(l)) + 1
    BY <2>4, WrittenFinite, FS_AddElement
  <2>7. failed[l] \in Nat /\ Cardinality(Written(l)) \in Nat
    BY WrittenFinite DEF TypeOK
  <2>8. Known(l)' = Known(l) + 1
    BY <2>1, <2>6, <2>7 DEF Known
  <2>9. \A k \in Loggers : k # l => Known(k)' = Known(k)
    BY <2>1, <2>5 DEF Known
  <2>10. contents' \in Seq(Loggers \X Nat)
    BY <2>1, <2>2
  <2> QED
    BY <2>1, <2>8, <2>9, <2>10 DEF TypeOK
<1>2. CASE ~Takes(out[l])
  <2>1. contents' = contents /\ failed' = [failed EXCEPT ![l] = failed[l] + 1]
    BY <1>2 DEF Write
  <2>2. failed[l] \in Nat /\ failed'[l] = failed[l] + 1 /\ failed' \in [Loggers -> Nat]
    BY <2>1 DEF TypeOK
  <2>3. \A k \in Loggers : Written(k)' = Written(k)
    BY <2>1 DEF Written
  <2>4. Known(l)' = Known(l) + 1
    BY <2>2, <2>3, WrittenFinite DEF Known
  <2>5. \A k \in Loggers : k # l => Known(k)' = Known(k)
    BY <2>1, <2>3 DEF Known, TypeOK
  <2> QED
    BY <2>1, <2>2, <2>4, <2>5 DEF TypeOK
<1> QED
  BY <1>1, <1>2

\* A message that is newer than all of its logger keeps the file in order.
LEMMA AppendKeepsOrder ==
  ASSUME contents \in Seq(Loggers \X Nat), InOrder, NEW l \in Loggers, NEW n \in Nat,
         \A i \in Written(l) : contents[i][2] < n,
         \/ contents' = contents
         \/ contents' = Append(contents, <<l, n>>)
  PROVE  /\ InOrder'
         /\ \A i \in Written(l)' : contents'[i][2] = n \/ (i \in Written(l) /\ contents'[i] = contents[i])
         /\ \A k \in Loggers \ {l} : \A i \in Written(k)' : i \in Written(k) /\ contents'[i] = contents[i]
<1>1. CASE contents' = contents
  BY <1>1 DEF InOrder, Written
<1>2. CASE contents' = Append(contents, <<l, n>>)
  <2>1. /\ Len(contents) \in Nat
        /\ DOMAIN contents' = 1 .. Len(contents) + 1
        /\ DOMAIN contents = 1 .. Len(contents)
        /\ contents'[Len(contents) + 1] = <<l, n>>
        /\ \A i \in 1 .. Len(contents) : contents'[i] = contents[i]
    BY <1>2
  <2>2. ASSUME NEW i \in DOMAIN contents', NEW j \in DOMAIN contents',
               i < j, contents'[i][1] = contents'[j][1]
        PROVE  contents'[i][2] < contents'[j][2]
    <3>1. i \in 1 .. Len(contents) /\ contents'[i] = contents[i]
      BY <2>1, <2>2
    <3>2. CASE j \in 1 .. Len(contents)
      BY <2>1, <2>2, <3>1, <3>2 DEF InOrder
    <3>3. CASE j = Len(contents) + 1
      <4>1. contents'[j][1] = l /\ contents'[j][2] = n
        BY <2>1, <3>3
      <4>2. i \in Written(l)
        BY <2>1, <2>2, <3>1, <4>1 DEF Written
      <4> QED
        BY <3>1, <4>1, <4>2
    <3> QED
      BY <2>1, <3>2, <3>3
  <2>3. InOrder'
    BY <2>2 DEF InOrder
  <2>4. \A i \in Written(l)' : contents'[i][2] = n \/ (i \in Written(l) /\ contents'[i] = contents[i])
    BY <2>1 DEF Written
  <2>5. \A k \in Loggers \ {l} : \A i \in Written(k)' : i \in Written(k) /\ contents'[i] = contents[i]
    BY <2>1 DEF Written
  <2> QED
    BY <2>3, <2>4, <2>5
<1> QED
  BY <1>1, <1>2

LEMMA LoggerInit == Init => LoggerInv
<1> SUFFICES ASSUME Init PROVE LoggerInv
  OBVIOUS
<1>1. Size \in Nat \ {0} /\ \A l \in Loggers : MaxMessages[l] \in Nat
  BY LoggerAssumption
<1>2. contents = <<>> /\ contents \in Seq(Loggers \X Nat) /\ DOMAIN contents = {}
  BY DEF Init
<1>3. \A l \in Loggers : /\ logged[l] = 0 /\ failed[l] = 0 /\ readIndex[l] = 0 /\ missed[l] = 0
                         /\ hand[l] = {} /\ \A s \in 0 .. Size - 1 : ring[l][s] = {}
  BY DEF Init
<1>4. TypeOK
  <2>1. opened \in Nat /\ logFile \in 0 .. opened /\ closed \subseteq 1 .. opened
    BY DEF Init
  <2>2. pc \in [Loggers -> {"none", "open", "build", "ready", "nop"}]
    BY DEF Init
  <2>3. out \in [Loggers -> 0 .. opened]
    BY DEF Init
  <2>4. /\ logged \in [Loggers -> Nat] /\ failed \in [Loggers -> Nat]
        /\ missed \in [Loggers -> Nat] /\ readIndex \in [Loggers -> Nat]
    BY DEF Init
  <2>5. hand \in [Loggers -> SUBSET Nat] /\ ring \in [Loggers -> [0 .. Size - 1 -> SUBSET Nat]]
    BY DEF Init
  <2>6. \A l \in Loggers : logged[l] <= MaxMessages[l]
    BY <1>1, <1>3
  <2> QED
    BY <1>2, <2>1, <2>2, <2>3, <2>4, <2>5, <2>6 DEF TypeOK
<1>5. \A l \in Loggers : Cardinality(Written(l)) = 0 /\ Cardinality(hand[l]) = 0
  BY <1>2, <1>3, FS_EmptySet DEF Written
<1>6. MessagesAccounted
  BY <1>2, <1>3, <1>5 DEF MessagesAccounted, NothingVanishes, InOrder
<1> QED
  BY <1>2, <1>3, <1>4, <1>6 DEF LoggerInv, Written

\* Creation and Close leave the messages alone.
LEMMA LoggerFiles ==
  ASSUME LoggerInv,
         \/ Close
         \/ \E l \in Loggers : \/ NewReuses(l) \/ NewOpens(l) \/ OpenFile(l) \/ OpenFails(l)
                               \/ Build(l)
  PROVE  LoggerInv'
<1>1. UNCHANGED <<logged, contents, failed, ring, readIndex, hand, missed>>
  BY DEF Close, NewReuses, NewOpens, OpenFile, OpenFails, Build, buffers
<1>2. \/ UNCHANGED opened /\ logFile' \in {0, logFile}
      \/ opened' = opened + 1 /\ logFile' = opened + 1
  BY DEF Close, NewReuses, NewOpens, OpenFile, OpenFails, Build, files
<1>3. closed' \subseteq closed \cup ({logFile} \ {0})
  BY DEF Close, NewReuses, NewOpens, OpenFile, OpenFails, Build, files
<1>4. \/ pc' = pc
      \/ \E l \in Loggers, to \in {"open", "build", "ready", "nop"} : pc' = [pc EXCEPT ![l] = to]
  BY DEF Close, NewReuses, NewOpens, OpenFile, OpenFails, Build, Goto
<1>5. out' = out \/ \E l \in Loggers : out' = [out EXCEPT ![l] = logFile]
  BY DEF Close, NewReuses, NewOpens, OpenFile, OpenFails, Build
<1>6. opened \in Nat /\ logFile \in 0 .. opened /\ opened' \in Nat /\ logFile' \in 0 .. opened'
      /\ 0 .. opened \subseteq 0 .. opened' /\ 1 .. opened \subseteq 1 .. opened'
  BY <1>2 DEF LoggerInv, TypeOK
<1>7. closed' \subseteq 1 .. opened'
  <2>1. {logFile} \ {0} \subseteq 1 .. opened
    BY <1>6
  <2> QED
    BY <1>3, <1>6, <2>1 DEF LoggerInv, TypeOK
<1>8. pc' \in [Loggers -> {"none", "open", "build", "ready", "nop"}]
  BY <1>4 DEF LoggerInv, TypeOK
<1>9. out' \in [Loggers -> 0 .. opened']
  BY <1>5, <1>6 DEF LoggerInv, TypeOK
<1>10. TypeOK'
  BY <1>1, <1>6, <1>7, <1>8, <1>9 DEF LoggerInv, TypeOK
<1>11. \A l \in Loggers : Written(l)' = Written(l) /\ Passed(l)' = Passed(l)
  BY <1>1 DEF Written, Passed
<1>12. MessagesAccounted'
  BY <1>1, <1>11 DEF LoggerInv, MessagesAccounted, NothingVanishes, InOrder
<1> QED
  BY <1>1, <1>10, <1>11, <1>12 DEF LoggerInv

LEMMA LoggerDirect ==
  ASSUME LoggerInv, NEW l \in Loggers, Log(l)
  PROVE  LoggerInv'
<1>1. /\ l \notin ThreadSafe /\ Write(l, logged[l]) /\ logged[l] \in Nat
      /\ logged[l] < MaxMessages[l] /\ logged' = [logged EXCEPT ![l] = logged[l] + 1]
      /\ UNCHANGED <<logFile, opened, closed, pc, out, ring, readIndex, hand, missed>>
  BY DEF LoggerInv, TypeOK, Log, Message, files, buffers
<1>2. /\ logged' \in [Loggers -> Nat] /\ logged'[l] = logged[l] + 1
      /\ \A k \in Loggers : k # l => logged'[k] = logged[k]
  BY <1>1 DEF LoggerInv, TypeOK
<1>3. /\ contents' \in Seq(Loggers \X Nat) /\ failed' \in [Loggers -> Nat]
      /\ Known(l)' = Known(l) + 1
      /\ \A k \in Loggers : k # l => Known(k)' = Known(k)
      /\ \/ contents' = contents
         \/ contents' = Append(contents, <<l, logged[l]>>)
  BY <1>1, WriteAccounts DEF LoggerInv
<1>4. \A k \in Loggers : logged'[k] <= MaxMessages[k]
  <2>1. MaxMessages[l] \in Nat
    BY LoggerAssumption
  <2> QED
    BY <1>1, <1>2, <2>1 DEF LoggerInv, TypeOK
<1>5. TypeOK'
  BY <1>1, <1>2, <1>3, <1>4 DEF LoggerInv, TypeOK
<1>6. /\ contents \in Seq(Loggers \X Nat) /\ InOrder
      /\ \A i \in Written(l) : contents[i][2] < logged[l]
  BY <1>1 DEF LoggerInv, TypeOK, MessagesAccounted, Passed
<1>7. /\ InOrder'
      /\ \A i \in Written(l)' : \/ contents'[i][2] = logged[l]
                                \/ i \in Written(l) /\ contents'[i] = contents[i]
      /\ \A k \in Loggers \ {l} : \A i \in Written(k)' : i \in Written(k) /\ contents'[i] = contents[i]
  BY <1>1, <1>3, <1>6, AppendKeepsOrder
<1>8. NothingVanishes'
  <2>1. Known(l)' = logged'[l]
    BY <1>1, <1>2, <1>3 DEF LoggerInv, MessagesAccounted, NothingVanishes, Known
  <2>2. \A k \in Loggers : k # l =>
          IF k \in ThreadSafe
          THEN /\ Known(k)' + missed'[k] + Cardinality(hand'[k]) = readIndex'[k]
               /\ readIndex'[k] <= logged'[k]
          ELSE Known(k)' = logged'[k]
    BY <1>1, <1>2, <1>3 DEF LoggerInv, MessagesAccounted, NothingVanishes, Known
  <2> QED
    BY <1>1, <2>1, <2>2 DEF NothingVanishes, Known
<1>9. hand'[l] = {} /\ Passed(l)' = logged[l] + 1
      /\ \A k \in Loggers \ {l} : hand'[k] = hand[k] /\ Passed(k)' = Passed(k)
  BY <1>1, <1>2 DEF LoggerInv, Passed
<1>10. ASSUME NEW k \in Loggers, NEW i \in Written(k)'
       PROVE  /\ contents'[i][2] < Passed(k)'
              /\ \A m \in hand'[k] : contents'[i][2] < m
  <2>1. CASE k = l
    <3>1. \/ contents'[i][2] = logged[l]
          \/ contents'[i][2] < logged[l] /\ contents'[i][2] \in Nat
      <4>1. \A j \in Written(l) : contents[j][2] \in Nat
        BY DEF LoggerInv, TypeOK, Written
      <4>2. i \in Written(l)'
        BY <1>10, <2>1 DEF Written
      <4> QED
        BY <1>6, <1>7, <4>1, <4>2
    <3> QED
      BY <1>1, <1>9, <2>1, <3>1
  <2>2. CASE k # l
    BY <1>7, <1>9, <1>10, <2>2 DEF LoggerInv
  <2> QED
    BY <2>1, <2>2
<1>11. \A k \in Loggers : \A s \in 0 .. Size - 1 : \A m \in ring'[k][s] : m < logged'[k]
  <2>1. \A k \in Loggers : ring[k] \in [0 .. Size - 1 -> SUBSET Nat]
    BY DEF LoggerInv, TypeOK
  <2>2. \A k \in Loggers : logged[k] \in Nat /\ (logged'[k] = logged[k] \/ logged'[k] = logged[k] + 1)
    BY <1>1, <1>2 DEF LoggerInv, TypeOK
  <2> QED
    BY <1>1, <2>1, <2>2 DEF LoggerInv
<1> QED
  BY <1>1, <1>5, <1>7, <1>8, <1>10, <1>11 DEF LoggerInv, MessagesAccounted

\* A slot of a ring buffer.
LEMMA SlotInRing == \A n \in Nat : n % Size \in 0 .. Size - 1
BY LoggerAssumption

LEMMA LoggerPuts ==
  ASSUME LoggerInv, NEW l \in Loggers, LogToRing(l)
  PROVE  LoggerInv'
<1> DEFINE slot == logged[l] % Size
<1>1. /\ l \in ThreadSafe /\ logged[l] \in Nat /\ logged[l] < MaxMessages[l]
      /\ logged' = [logged EXCEPT ![l] = logged[l] + 1]
      /\ ring' = [ring EXCEPT ![l][slot] = {logged[l]}]
      /\ UNCHANGED <<logFile, opened, closed, pc, out, contents, failed, readIndex, hand, missed>>
  BY DEF LoggerInv, TypeOK, LogToRing, Message, files
<1>2. slot \in 0 .. Size - 1
  BY <1>1, SlotInRing
<1> HIDE DEF slot
<1>3. /\ logged' \in [Loggers -> Nat] /\ logged'[l] = logged[l] + 1
      /\ \A k \in Loggers : k # l => logged'[k] = logged[k]
  BY <1>1 DEF LoggerInv, TypeOK
<1>4. /\ ring' \in [Loggers -> [0 .. Size - 1 -> SUBSET Nat]]
      /\ \A k \in Loggers : k # l => ring'[k] = ring[k]
      /\ \A s \in 0 .. Size - 1 : ring'[l][s] \in {ring[l][s], {logged[l]}}
  BY <1>1, <1>2 DEF LoggerInv, TypeOK
<1>5. \A k \in Loggers : logged'[k] <= MaxMessages[k]
  <2>1. MaxMessages[l] \in Nat
    BY LoggerAssumption
  <2> QED
    BY <1>1, <1>3, <2>1 DEF LoggerInv, TypeOK
<1>6. TypeOK'
  BY <1>1, <1>3, <1>4, <1>5 DEF LoggerInv, TypeOK
<1>7. \A k \in Loggers : Written(k)' = Written(k) /\ Passed(k)' = Passed(k)
  BY <1>1, <1>3 DEF Written, Passed
<1>8. \A k \in Loggers : logged[k] \in Nat /\ readIndex[k] \in Nat
  BY DEF LoggerInv, TypeOK
<1>9. MessagesAccounted'
  <2>1. InOrder'
    BY <1>1 DEF LoggerInv, MessagesAccounted, InOrder
  <2>2. /\ \A k \in Loggers : readIndex[k] <= logged[k] => readIndex'[k] <= logged'[k]
        /\ \A k \in Loggers \ ThreadSafe : logged'[k] = logged[k]
    BY <1>1, <1>3, <1>8
  <2>3. NothingVanishes'
    <3>1. \A k \in Loggers : Known(k)' = Known(k)
      BY <1>1, <1>7 DEF Known
    <3>2. ASSUME NEW k \in Loggers
          PROVE  IF k \in ThreadSafe
                 THEN /\ Known(k)' + missed'[k] + Cardinality(hand'[k]) = readIndex'[k]
                      /\ readIndex'[k] <= logged'[k]
                 ELSE Known(k)' = logged'[k]
      BY <1>1, <2>2, <3>1 DEF LoggerInv, MessagesAccounted, NothingVanishes, Known
    <3> QED
      BY <3>2 DEF NothingVanishes, Known
  <2> QED
    BY <2>1, <2>3 DEF MessagesAccounted
<1>10. ASSUME NEW k \in Loggers, NEW s \in 0 .. Size - 1, NEW m \in ring'[k][s] PROVE m < logged'[k]
  <2>1. ring[k] \in [0 .. Size - 1 -> SUBSET Nat]
    BY DEF LoggerInv, TypeOK
  <2>2. CASE m \in ring[k][s]
    <3>1. m < logged[k] /\ m \in Nat
      BY <2>1, <2>2 DEF LoggerInv
    <3>2. logged'[k] \in {logged[k], logged[k] + 1}
      BY <1>3
    <3> QED
      BY <1>8, <3>1, <3>2
  <2>3. CASE k = l /\ m = logged[l]
    BY <1>3, <1>8, <2>3
  <2> QED
    BY <1>4, <1>10, <2>2, <2>3
<1> QED
  BY <1>1, <1>4, <1>6, <1>7, <1>9, <1>10 DEF LoggerInv

\* The reader: taken or discarded, the message was in the buffer.
LEMMA LoggerTakes ==
  ASSUME LoggerInv, NEW l \in Loggers, NEW n \in Nat, TakeFromRing(l, n) \/ Discard(l, n)
  PROVE  LoggerInv'
<1> DEFINE slot == readIndex[l] % Size
<1>1. /\ hand[l] = {} /\ readIndex[l] \in Nat /\ n \in ring[l][slot]
      /\ ring' = [ring EXCEPT ![l][slot] = {}]
      /\ UNCHANGED <<logFile, opened, closed, pc, out, logged, contents, failed>>
  BY DEF LoggerInv, TypeOK, TakeFromRing, Alert, Discard, files
<1>2. \/ /\ n >= readIndex[l] /\ readIndex' = [readIndex EXCEPT ![l] = n + 1]
         /\ missed' = [missed EXCEPT ![l] = missed[l] + (n - readIndex[l])]
         /\ hand' = [hand EXCEPT ![l] = {n}]
      \/ UNCHANGED <<readIndex, hand, missed>>
  BY DEF TakeFromRing, Alert, Discard
<1>3. slot \in 0 .. Size - 1
  BY <1>1, SlotInRing
<1> HIDE DEF slot
<1>4. l \in ThreadSafe /\ n < logged[l]
  BY <1>1, <1>3 DEF LoggerInv
<1>5. /\ ring' \in [Loggers -> [0 .. Size - 1 -> SUBSET Nat]]
      /\ \A k \in Loggers : \A s \in 0 .. Size - 1 : ring'[k][s] \in {ring[k][s], {}}
  BY <1>1, <1>3 DEF LoggerInv, TypeOK
<1>6. \A k \in Loggers : Written(k)' = Written(k) /\ Known(k)' = Known(k) /\ Known(k) \in Nat
  BY <1>1, WrittenFinite DEF Written, Known, LoggerInv
<1>7. \A k \in Loggers : \A s \in 0 .. Size - 1 : \A m \in ring'[k][s] : m < logged'[k]
  BY <1>1, <1>5 DEF LoggerInv
<1>8. \A k \in Loggers \ ThreadSafe : \A s \in 0 .. Size - 1 : ring'[k][s] = {}
  BY <1>5 DEF LoggerInv
<1>9. InOrder'
  BY <1>1 DEF LoggerInv, MessagesAccounted, InOrder
<1>10. CASE UNCHANGED <<readIndex, hand, missed>>
  <2>1. TypeOK'
    BY <1>1, <1>5, <1>10 DEF LoggerInv, TypeOK
  <2>2. NothingVanishes' /\ \A k \in Loggers : Passed(k)' = Passed(k)
    BY <1>1, <1>6, <1>10 DEF LoggerInv, MessagesAccounted, NothingVanishes, Passed
  <2> QED
    BY <1>1, <1>6, <1>7, <1>8, <1>9, <1>10, <2>1, <2>2 DEF LoggerInv, MessagesAccounted
<1>11. CASE /\ n >= readIndex[l] /\ readIndex' = [readIndex EXCEPT ![l] = n + 1]
            /\ missed' = [missed EXCEPT ![l] = missed[l] + (n - readIndex[l])]
            /\ hand' = [hand EXCEPT ![l] = {n}]
  <2>1. /\ readIndex' \in [Loggers -> Nat] /\ readIndex'[l] = n + 1
        /\ missed' \in [Loggers -> Nat] /\ missed'[l] = missed[l] + (n - readIndex[l])
        /\ hand' \in [Loggers -> SUBSET Nat] /\ hand'[l] = {n}
        /\ missed[l] \in Nat
    BY <1>1, <1>11 DEF LoggerInv, TypeOK
  <2>2. \A k \in Loggers \ {l} : /\ readIndex'[k] = readIndex[k] /\ missed'[k] = missed[k]
                                 /\ hand'[k] = hand[k] /\ Passed(k)' = Passed(k)
    BY <1>1, <1>11 DEF LoggerInv, TypeOK, Passed
  <2>3. TypeOK'
    BY <1>1, <1>5, <2>1 DEF LoggerInv, TypeOK
  <2>4. Cardinality(hand[l]) = 0 /\ Cardinality(hand'[l]) = 1
    BY <1>1, <2>1, FS_EmptySet, FS_Singleton
  <2>5. /\ Known(l)' + missed'[l] + Cardinality(hand'[l]) = readIndex'[l]
        /\ readIndex'[l] <= logged'[l]
    <3>1. Known(l) + missed[l] + 0 = readIndex[l] /\ logged[l] \in Nat /\ Known(l) \in Nat
      BY <1>4, <1>6, <2>4 DEF LoggerInv, MessagesAccounted, NothingVanishes, Known, TypeOK
    <3> QED
      BY <1>1, <1>4, <1>6, <2>1, <2>4, <3>1
  <2>6. NothingVanishes'
    <3>1. ASSUME NEW k \in Loggers, k # l
          PROVE  IF k \in ThreadSafe
                 THEN /\ Known(k)' + missed'[k] + Cardinality(hand'[k]) = readIndex'[k]
                      /\ readIndex'[k] <= logged'[k]
                 ELSE Known(k)' = logged'[k]
      BY <1>1, <1>6, <2>2, <3>1 DEF LoggerInv, MessagesAccounted, NothingVanishes, Known
    <3> QED
      BY <1>4, <2>5, <3>1 DEF NothingVanishes, Known
  <2>7. \A m \in hand'[l] : m < readIndex'[l] /\ hand'[l] = {m}
    BY <2>1
  <2>8. Passed(l) = readIndex[l] /\ Passed(l)' = n + 1
    BY <1>4, <2>1 DEF Passed
  <2>9. ASSUME NEW i \in Written(l)'
        PROVE  contents'[i][2] < Passed(l)' /\ \A m \in hand'[l] : contents'[i][2] < m
    <3>1. contents'[i][2] < readIndex[l] /\ contents'[i][2] \in Nat
      <4>1. i \in Written(l) /\ contents'[i] = contents[i]
        BY <1>1, <1>6, <2>9
      <4>2. contents[i][2] < Passed(l)
        BY <4>1 DEF LoggerInv
      <4>3. contents[i][2] \in Nat
        BY <4>1 DEF LoggerInv, TypeOK, Written
      <4> QED
        BY <2>8, <4>1, <4>2, <4>3
    <3> QED
      BY <1>1, <1>11, <2>1, <2>8, <3>1
  <2>10. ASSUME NEW k \in Loggers, k # l
         PROVE  /\ \A i \in Written(k)' : /\ contents'[i][2] < Passed(k)'
                                          /\ \A m \in hand'[k] : contents'[i][2] < m
                /\ \A m \in hand'[k] : m < readIndex'[k] /\ hand'[k] = {m}
                /\ k \notin ThreadSafe => hand'[k] = {}
    BY <1>1, <1>6, <2>2, <2>10 DEF LoggerInv
  <2> QED
    BY <1>4, <1>7, <1>8, <1>9, <2>3, <2>6, <2>7, <2>9, <2>10 DEF LoggerInv, MessagesAccounted
<1> QED
  BY <1>2, <1>10, <1>11

\* What was in hand is newer than all that is in the file.
LEMMA LoggerWrites ==
  ASSUME LoggerInv, NEW l \in Loggers, NEW n \in Nat, WriteTaken(l, n)
  PROVE  LoggerInv'
<1>1. /\ n \in hand[l] /\ hand[l] = {n} /\ n < readIndex[l] /\ l \in ThreadSafe
      /\ Write(l, n) /\ hand' = [hand EXCEPT ![l] = {}]
      /\ UNCHANGED <<logFile, opened, closed, pc, out, logged, ring, readIndex, missed>>
  BY DEF LoggerInv, WriteTaken, files
<1>2. /\ hand' \in [Loggers -> SUBSET Nat] /\ hand'[l] = {}
      /\ \A k \in Loggers \ {l} : hand'[k] = hand[k]
  BY <1>1 DEF LoggerInv, TypeOK
<1>3. /\ contents' \in Seq(Loggers \X Nat) /\ failed' \in [Loggers -> Nat]
      /\ Known(l)' = Known(l) + 1
      /\ \A k \in Loggers : k # l => Known(k)' = Known(k)
      /\ \/ contents' = contents
         \/ contents' = Append(contents, <<l, n>>)
  BY <1>1, WriteAccounts DEF LoggerInv
<1>4. TypeOK'
  BY <1>1, <1>2, <1>3 DEF LoggerInv, TypeOK
<1>5. /\ contents \in Seq(Loggers \X Nat) /\ InOrder
      /\ \A i \in Written(l) : contents[i][2] < n
  BY <1>1 DEF LoggerInv, TypeOK, MessagesAccounted
<1>6. /\ InOrder'
      /\ \A i \in Written(l)' : contents'[i][2] = n \/ (i \in Written(l) /\ contents'[i] = contents[i])
      /\ \A k \in Loggers \ {l} : \A i \in Written(k)' : i \in Written(k) /\ contents'[i] = contents[i]
  BY <1>3, <1>5, AppendKeepsOrder
<1>7. NothingVanishes'
  <2>1. Known(l)' + missed'[l] + Cardinality(hand'[l]) = readIndex'[l] /\ readIndex'[l] <= logged'[l]
    <3>1. Cardinality(hand[l]) = 1 /\ Cardinality(hand'[l]) = 0
      BY <1>1, <1>2, FS_EmptySet, FS_Singleton
    <3>2. Known(l) + missed[l] + 1 = readIndex[l] /\ readIndex[l] <= logged[l]
      <4>1. NothingVanishes
        BY DEF LoggerInv, MessagesAccounted
      <4>2. Known(l) + missed[l] + Cardinality(hand[l]) = readIndex[l] /\ readIndex[l] <= logged[l]
        BY <1>1, <4>1 DEF NothingVanishes, Known
      <4> QED
        BY <3>1, <4>2
    <3>3. Known(l) \in Nat /\ missed[l] \in Nat
      BY WrittenFinite DEF LoggerInv, TypeOK
    <3>4. missed'[l] = missed[l] /\ readIndex'[l] = readIndex[l] /\ logged'[l] = logged[l]
      BY <1>1
    <3>5. Known(l)' + missed'[l] + 0 = readIndex'[l]
      <4>1. Known(l)' = Known(l) + 1
        BY <1>3
      <4> QED
        BY <3>2, <3>3, <3>4, <4>1
    <3> QED
      BY <3>1, <3>2, <3>4, <3>5
  <2>2. ASSUME NEW k \in Loggers, k # l
        PROVE  IF k \in ThreadSafe
               THEN /\ Known(k)' + missed'[k] + Cardinality(hand'[k]) = readIndex'[k]
                    /\ readIndex'[k] <= logged'[k]
               ELSE Known(k)' = logged'[k]
    BY <1>1, <1>2, <1>3, <2>2 DEF LoggerInv, MessagesAccounted, NothingVanishes, Known
  <2> QED
    BY <1>1, <2>1, <2>2 DEF NothingVanishes, Known
<1>8. \A k \in Loggers : Passed(k)' = Passed(k)
  BY <1>1 DEF Passed
<1>9. ASSUME NEW i \in Written(l)'
      PROVE  contents'[i][2] < Passed(l)' /\ \A m \in hand'[l] : contents'[i][2] < m
  <2>1. Passed(l)' = readIndex[l]
    BY <1>1 DEF Passed
  <2>2. CASE contents'[i][2] = n
    BY <1>1, <1>2, <2>1, <2>2
  <2>3. CASE i \in Written(l) /\ contents'[i] = contents[i]
    BY <1>2, <1>8, <2>3 DEF LoggerInv
  <2> QED
    BY <1>6, <1>9, <2>2, <2>3
<1>10. ASSUME NEW k \in Loggers, k # l
       PROVE  /\ \A i \in Written(k)' : /\ contents'[i][2] < Passed(k)'
                                        /\ \A m \in hand'[k] : contents'[i][2] < m
              /\ \A m \in hand'[k] : m < readIndex'[k] /\ hand'[k] = {m}
              /\ k \notin ThreadSafe => hand'[k] = {}
  BY <1>1, <1>2, <1>6, <1>8, <1>10 DEF LoggerInv
<1> QED
  BY <1>1, <1>2, <1>4, <1>6, <1>7, <1>9, <1>10 DEF LoggerInv, MessagesAccounted

LEMMA LoggerNext == LoggerInv /\ [Next]_vars => LoggerInv'
<1> SUFFICES ASSUME LoggerInv, [Next]_vars PROVE LoggerInv'
  OBVIOUS
<1>1. CASE UNCHANGED vars
  <2>1. UNCHANGED <<logFile, opened, closed, pc, out, logged, contents, failed,
                    ring, readIndex, hand, missed>>
    BY <1>1 DEF vars, files, buffers
  <2>2. TypeOK'
    BY <2>1 DEF LoggerInv, TypeOK
  <2>3. \A k \in Loggers : Written(k)' = Written(k) /\ Passed(k)' = Passed(k)
    BY <2>1 DEF Written, Passed
  <2>4. MessagesAccounted'
    BY <2>1, <2>3 DEF LoggerInv, MessagesAccounted, NothingVanishes, InOrder
  <2> QED
    BY <2>1, <2>2, <2>3, <2>4 DEF LoggerInv
<1>2. CASE \/ Close
           \/ \E l \in Loggers : \/ NewReuses(l) \/ NewOpens(l) \/ OpenFile(l) \/ OpenFails(l)
                                 \/ Build(l)
  BY <1>2, LoggerFiles
<1>3. ASSUME NEW l \in Loggers, Log(l) \/ LogToRing(l) PROVE LoggerInv'
  BY <1>3, LoggerDirect, LoggerPuts
<1>4. ASSUME NEW l \in Loggers, Poll(l) PROVE LoggerInv'
  <2>1. PICK n \in 0 .. MaxMessages[l] : TakeFromRing(l, n) \/ Discard(l, n) \/ WriteTaken(l, n)
    BY <1>4 DEF Poll
  <2>2. n \in Nat
    OBVIOUS
  <2> QED
    BY <2>1, <2>2, LoggerTakes, LoggerWrites
<1> QED
  BY <1>1, <1>2, <1>3, <1>4 DEF Next

-----------------------------------------------------------------------------
(* The theorems                                                            *)

LEMMA ServiceInductive ==
  ServiceSpec => [](MetricsInv /\ SecretsInv /\ LoggerInv)
<1>1. ServiceInit => MetricsInv /\ SecretsInv /\ LoggerInv
  BY MetricsInit, SecretsInit, LoggerInit DEF ServiceInit
<1>2. MetricsInv /\ SecretsInv /\ LoggerInv /\ [ServiceNext]_serviceVars
      => (MetricsInv /\ SecretsInv /\ LoggerInv)'
  BY PartsStep, MetricsNext, SecretsNext, LoggerNext
<1> QED
  BY <1>1, <1>2, PTL DEF ServiceSpec

\* However starts, stops and goroutines of the metrics server race
\* (src/metrics/server.go:68-125), only its newest http.Server answers requests,
\* and only while it runs.
THEOREM OnlyNewestEverServes == ServiceSpec => []OnlyNewestServes
<1>1. MetricsInv => OnlyNewestServes
  BY MetricsImplies DEF OnlyNewestServes
<1> QED
  BY <1>1, ServiceInductive, PTL

\* However callers of CreateSecret race and retry, and whatever requests are lost
\* or late (src/secrets/secrets.go:20-87), a secret has one payload for ever.
THEOREM SecretsKeepOnePayload == ServiceSpec => []OnePayloadForEver
<1>1. SecretsInv => OnePayloadForEver
  BY SecretsImplies DEF OnePayloadForEver
<1> QED
  BY <1>1, ServiceInductive, PTL

\* Whoever opens or closes the shared file, and however often a ring buffer is
\* lapped (src/logger/logger.go:12-97): every message of every logger is
\* accounted for, and the file has them once and in order.
THEOREM NoMessageVanishes == ServiceSpec => []MessagesAccounted
<1>1. LoggerInv => MessagesAccounted
  BY DEF LoggerInv
<1> QED
  BY <1>1, ServiceInductive, PTL

\* The states of the three parts have their types.
THEOREM ServiceTypes == ServiceSpec => []ServiceTypeOK
<1>1. MetricsInv /\ SecretsInv /\ LoggerInv => ServiceTypeOK
  BY MetricsImplies, SecretsImplies DEF LoggerInv, ServiceTypeOK
<1> QED
  BY <1>1, ServiceInductive, PTL

=============================================================================
