---------------------------- MODULE MetricsServer ----------------------------
(***************************************************************************)
(* metrics.Server (src/metrics/server.go): Start and Stop, which take the  *)
(* mutex, and the goroutine of each Start, which does not: it reads s.srv  *)
(* when it comes to run, so that it may find the http.Server of a later    *)
(* Start, and races the Stop and the Start that follow.                    *)
(*                                                                         *)
(* The n-th Start makes http.Server n and goroutine n.  The port is one:   *)
(* a restarted server listens where the old one did.                       *)
(***************************************************************************)
EXTENDS Naturals

CONSTANTS MaxStarts,  \* bound: calls of Start that spawn a goroutine
          Foreign     \* TRUE: another process may hold the port

Goroutines == 1 .. MaxStarts
Free == 0
Other == MaxStarts + 1

VARIABLES enabled,    \* the option of NewServer
          srv,        \* s.srv: the number of the newest http.Server, 0: nil
          isRunning,
          shut,       \* http.Servers that Close was called on
          jammed,     \* those of them whose Close returned an error
          routine,    \* routine[i]: where goroutine i is
          own,        \* own[i]: the http.Server it found in s.srv
          port        \* who listens: a goroutine, Other or Free

fields == <<enabled, srv, isRunning, shut, jammed>>
vars == <<fields, routine, own, port>>

Init ==
  /\ enabled \in BOOLEAN
  /\ srv = 0
  /\ isRunning = FALSE
  /\ shut = {}
  /\ jammed = {}
  /\ routine = [i \in Goroutines |-> "none"]
  /\ own = [i \in Goroutines |-> 0]
  /\ port = Free

Goto(i, place) == routine' = [routine EXCEPT ![i] = place]

\* Goroutine i answers requests.
Serves(i) == routine[i] = "serving" /\ own[i] \notin shut

-----------------------------------------------------------------------------
(* Start and Stop                                                          *)

\* Mutant of Start: a running server is started again.
StartAgain ==
  /\ enabled
  /\ srv < MaxStarts
  /\ srv' = srv + 1
  /\ isRunning' = TRUE
  /\ Goto(srv', "announce")
  /\ UNCHANGED <<enabled, shut, jammed, own, port>>

Start ==
  /\ enabled
  /\ srv = 0 \/ ~isRunning
  /\ srv < MaxStarts
  /\ srv' = srv + 1
  /\ isRunning' = TRUE
  /\ Goto(srv', "announce")
  /\ UNCHANGED <<enabled, shut, jammed, own, port>>

\* http.Server.Close: the server accepts no Serve any more, and the listener
\* that a Serve of it has registered is closed.
CloseServer ==
  /\ shut' = shut \cup {srv}
  /\ port' = IF \E i \in Goroutines : port = i /\ Serves(i) /\ own[i] = srv
             THEN Free ELSE port

\* Mutants of Stop: one that does not close, one that keeps isRunning.
StopOnlyFlag ==
  /\ enabled /\ srv # 0 /\ isRunning
  /\ isRunning' = FALSE
  /\ UNCHANGED <<enabled, srv, shut, jammed, routine, own, port>>

StopKeepsFlag ==
  /\ enabled /\ srv # 0 /\ isRunning
  /\ CloseServer
  /\ UNCHANGED <<enabled, srv, isRunning, jammed, routine, own>>

Stop ==
  /\ enabled /\ srv # 0 /\ isRunning
  /\ CloseServer
  /\ isRunning' = FALSE
  /\ UNCHANGED <<enabled, srv, jammed, routine, own>>

\* The error of closing the listener: the flag stays, and the caller may try again.
StopFails ==
  /\ enabled /\ srv # 0 /\ isRunning
  /\ \E i \in Goroutines : Serves(i) /\ own[i] = srv
  /\ CloseServer
  /\ jammed' = jammed \cup {srv}
  /\ UNCHANGED <<enabled, srv, isRunning, routine, own>>

-----------------------------------------------------------------------------
(* The goroutine                                                           *)

\* It logs "starting metrics server".
Announce(i) ==
  /\ routine[i] = "announce"
  /\ Goto(i, "listen")
  /\ UNCHANGED <<fields, own, port>>

\* s.srv is read without the mutex: the own server, the newest, or one between.
\* ListenAndServe refuses a closed server and then asks for the port.  Whatever
\* error the port gives is not logged: the condition lets ErrServerClosed pass only.
Listen(i) ==
  /\ routine[i] = "listen"
  /\ \E o \in i .. srv :
       /\ own' = [own EXCEPT ![i] = o]
       /\ \/ o \in shut /\ Goto(i, "report") /\ UNCHANGED port
          \/ o \notin shut /\ port = Free /\ port' = i /\ Goto(i, "bound")
          \/ o \notin shut /\ port # Free /\ Goto(i, "refused") /\ UNCHANGED port
  /\ UNCHANGED fields

\* Serve registers the listener, or closes it when Close was faster.
Serve(i) ==
  /\ routine[i] = "bound"
  /\ IF own[i] \in shut
     THEN port' = Free /\ Goto(i, "report")
     ELSE Goto(i, "serving") /\ UNCHANGED port
  /\ UNCHANGED <<fields, own>>

\* Accept fails because of Close.
Return(i) ==
  /\ routine[i] = "serving"
  /\ own[i] \in shut
  /\ Goto(i, "report")
  /\ UNCHANGED <<fields, own, port>>

\* ErrServerClosed is logged as "failed to start metrics server".
Report(i) ==
  /\ routine[i] = "report"
  /\ Goto(i, "gone")
  /\ UNCHANGED <<fields, own, port>>

\* Another process takes the port, or gives it back.
ForeignTakes ==
  /\ Foreign /\ port = Free
  /\ port' = Other
  /\ UNCHANGED <<fields, routine, own>>

ForeignLeaves ==
  /\ port = Other
  /\ port' = Free
  /\ UNCHANGED <<fields, routine, own>>

-----------------------------------------------------------------------------
Quiet(i) == Listen(i) \/ Serve(i) \/ Return(i)
Logs(i) == Announce(i) \/ Report(i)

Calls == Start \/ Stop \/ StopFails

Next ==
  \/ Calls \/ ForeignTakes \/ ForeignLeaves
  \/ \E i \in Goroutines : Quiet(i) \/ Logs(i)

Spec == Init /\ [][Next]_vars

\* Goroutines keep running.
Fairness == \A i \in Goroutines : WF_vars(Quiet(i) \/ Logs(i))

-----------------------------------------------------------------------------
(* Properties                                                              *)

TypeOK ==
  /\ enabled \in BOOLEAN /\ isRunning \in BOOLEAN
  /\ srv \in 0 .. MaxStarts
  /\ jammed \subseteq shut /\ shut \subseteq 1 .. srv
  /\ routine \in [Goroutines -> {"none", "announce", "listen", "refused", "bound",
                                 "serving", "report", "gone"}]
  /\ own \in [Goroutines -> 0 .. srv]
  /\ port \in 0 .. MaxStarts + 1

\* However stops and starts race the goroutines, what answers requests is the
\* newest http.Server, while the metrics server runs; and it is one goroutine.
OnlyNewestServes ==
  \A i \in Goroutines :
    Serves(i) => /\ isRunning /\ own[i] = srv
                 /\ \A j \in Goroutines : Serves(j) => j = i

\* A stopped metrics server gives the port back, also when Stop arrives before
\* the goroutine has the listener, unless it is started again.
StopFreesPort == ~isRunning ~> (isRunning \/ port \in {Free, Other})

\* A started metrics server comes up, unless it is stopped, its port was taken,
\* or a Close failed: no interleaving makes it wait or end for another reason.
StartComesUp ==
  isRunning ~> \/ ~isRunning \/ jammed # {}
               \/ routine[srv] = "refused"
               \/ \E i \in Goroutines : Serves(i) /\ own[i] = srv
=============================================================================
