------------------------------- MODULE Secrets -------------------------------
(***************************************************************************)
(* secrets.CreateSecret and GetSecret (src/secrets/secrets.go) on one      *)
(* secret of Google's secret manager.  CreateSecret makes two requests:    *)
(* the secret, then its first version; a caller whose call failed may call *)
(* again.  A request or its reply may be lost, and a request may reach the *)
(* manager when its caller has given up.                                   *)
(*                                                                         *)
(* A caller stores a payload of its own: the payload is its name.          *)
(***************************************************************************)
EXTENDS Naturals, Sequences

CONSTANTS Callers,  \* those who call CreateSecret
          MaxCalls  \* bound: calls of each

VARIABLES exists,    \* the manager has the secret
          versions,  \* its versions: payloads
          place,     \* where caller c is
          calls,     \* its calls so far
          requests,  \* requests on their way: kind, caller and call
          answers,   \* successful answers on their way
          seen       \* payloads that GetSecret has returned

manager == <<exists, versions>>
vars == <<manager, place, calls, requests, answers, seen>>

Request(kind, c) == <<kind, c, calls[c]>>

Init ==
  /\ exists = FALSE
  /\ versions = <<>>
  /\ place = [c \in Callers |-> "idle"]
  /\ calls = [c \in Callers |-> 0]
  /\ requests = {}
  /\ answers = {}
  /\ seen = {}

Move(c, to) == place' = [place EXCEPT ![c] = to]

-----------------------------------------------------------------------------
(* The caller                                                              *)

\* CreateSecret, with credentials and a client; without, nothing is requested.
Call(c) ==
  /\ place[c] \in {"idle", "failed", "named"}
  /\ calls[c] < MaxCalls
  /\ calls' = [calls EXCEPT ![c] = @ + 1]
  /\ requests' = requests \cup {<<"create", c, calls'[c]>>}
  /\ Move(c, "creating")
  /\ UNCHANGED <<manager, answers, seen>>

\* The secret is there: its first version.
AddVersion(c) ==
  /\ place[c] = "creating"
  /\ Request("create", c) \in answers
  /\ requests' = requests \cup {Request("add", c)}
  /\ Move(c, "adding")
  /\ UNCHANGED <<manager, calls, answers, seen>>

\* The version's name is returned.
Named(c) ==
  /\ place[c] = "adding"
  /\ Request("add", c) \in answers
  /\ Move(c, "named")
  /\ UNCHANGED <<manager, calls, requests, answers, seen>>

\* An error of either request, or the deadline of the context.
Fail(c) ==
  /\ place[c] \in {"creating", "adding"}
  /\ Move(c, "failed")
  /\ UNCHANGED <<manager, calls, requests, answers, seen>>

\* GetSecret: the latest version; an error if there is none.
GetSecret ==
  /\ versions # <<>>
  /\ seen' = seen \cup {versions[Len(versions)]}
  /\ UNCHANGED <<manager, place, calls, requests, answers>>

-----------------------------------------------------------------------------
(* The manager                                                             *)

Answer(r) == answers' = answers \cup {r}

\* Mutant of Apply: the answer to a create for a secret that exists is a success.
ApplyAgain(r) ==
  /\ r \in requests
  /\ requests' = requests \ {r}
  /\ IF r[1] = "create" THEN exists' = TRUE /\ UNCHANGED versions
                        ELSE versions' = Append(versions, r[2]) /\ UNCHANGED exists
  /\ Answer(r)
  /\ UNCHANGED <<place, calls, seen>>

\* The second create of a secret fails with AlreadyExists; each version added is
\* a new one.
Apply(r) ==
  /\ r \in requests
  /\ requests' = requests \ {r}
  /\ \/ /\ r[1] = "create" /\ ~exists
        /\ exists' = TRUE /\ Answer(r)
        /\ UNCHANGED versions
     \/ /\ r[1] = "create" /\ exists
        /\ UNCHANGED <<manager, answers>>
     \/ /\ r[1] = "add"
        /\ versions' = Append(versions, r[2]) /\ Answer(r)
        /\ UNCHANGED exists
  /\ UNCHANGED <<place, calls, seen>>

Lose(r) ==
  /\ r \in requests
  /\ requests' = requests \ {r}
  /\ UNCHANGED <<manager, place, calls, answers, seen>>

-----------------------------------------------------------------------------
Next ==
  \/ GetSecret
  \/ \E c \in Callers : Call(c) \/ AddVersion(c) \/ Named(c) \/ Fail(c)
  \/ \E r \in requests : Apply(r) \/ Lose(r)

Spec == Init /\ [][Next]_vars

-----------------------------------------------------------------------------
(* Properties                                                              *)

TypeOK ==
  /\ exists \in BOOLEAN /\ versions \in Seq(Callers)
  /\ place \in [Callers -> {"idle", "creating", "adding", "named", "failed"}]
  /\ calls \in [Callers -> 0 .. MaxCalls]
  /\ requests \cup answers \subseteq {"create", "add"} \X Callers \X (1 .. MaxCalls)
  /\ seen \subseteq Callers

\* Whoever reads the secret, whenever, reads the same payload, and it is the one
\* of every caller who was told it is stored: retries, late requests and callers
\* who race each other never give a secret a second version.
OnePayloadForEver ==
  /\ \A p, q \in seen : p = q
  /\ \A c \in Callers : place[c] = "named" => versions = <<c>> /\ seen \subseteq {c}
=============================================================================
