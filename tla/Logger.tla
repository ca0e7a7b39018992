------------------------------- MODULE Logger -------------------------------
(***************************************************************************)
(* logger.New, NewThreadSafeLogger and Close (src/logger/logger.go): all   *)
(* loggers of a process share one file, logFile, which no lock protects.   *)
(* A logger of New writes to the file at once; one of NewThreadSafeLogger  *)
(* puts a message into a ring buffer (a diode), from which a goroutine     *)
(* writes to the file.  Close closes the file and leaves logFile set.      *)
(*                                                                         *)
(* The n-th message of a logger is its number n, counted from 0.  The file *)
(* opened by the n-th os.OpenFile is n; all append to the same path.       *)
(***************************************************************************)
EXTENDS Naturals, Sequences, FiniteSets

CONSTANTS Loggers,      \* the loggers a process creates
          ThreadSafe,   \* those of NewThreadSafeLogger
          Size,         \* slots of a ring buffer, 1000 in the code
          MaxMessages   \* bound: MaxMessages[l] messages of logger l

ASSUME LoggerAssumption ==
  /\ IsFiniteSet(Loggers) /\ ThreadSafe \subseteq Loggers
  /\ Size \in Nat \ {0} /\ MaxMessages \in [Loggers -> Nat]

VARIABLES logFile,   \* the file, 0: nil
          opened,    \* files opened so far
          closed,    \* files closed
          pc,        \* where the goroutine that creates l is
          out,       \* the file l writes to, 0: a nil file
          logged,    \* messages of l so far
          contents,  \* what the files contain: pairs of a logger and a message
          failed,    \* messages of l that the file did not take
          ring,      \* ring[l]: the slots, each a set of at most one message
          readIndex, \* the message of l to be taken from the buffer next
          hand,      \* taken and not yet written, a set of at most one
          missed     \* messages that were reported as dropped

files == <<logFile, opened, closed>>
buffers == <<ring, readIndex, hand, missed>>
vars == <<files, pc, out, logged, contents, failed, buffers>>

Init ==
  /\ logFile = 0 /\ opened = 0 /\ closed = {}
  /\ pc = [l \in Loggers |-> "none"]
  /\ out = [l \in Loggers |-> 0]
  /\ logged = [l \in Loggers |-> 0]
  /\ contents = <<>>
  /\ failed = [l \in Loggers |-> 0]
  /\ ring = [l \in Loggers |-> [i \in 0 .. Size - 1 |-> {}]]
  /\ readIndex = [l \in Loggers |-> 0]
  /\ hand = [l \in Loggers |-> {}]
  /\ missed = [l \in Loggers |-> 0]

Goto(l, place) == pc' = [pc EXCEPT ![l] = place]

-----------------------------------------------------------------------------
(* New and NewThreadSafeLogger                                             *)

\* The file is there, open or not.
NewReuses(l) ==
  /\ pc[l] = "none"
  /\ logFile # 0
  /\ Goto(l, "build")
  /\ UNCHANGED <<files, out, logged, contents, failed, buffers>>

NewOpens(l) ==
  /\ pc[l] = "none"
  /\ logFile = 0
  /\ Goto(l, "open")
  /\ UNCHANGED <<files, out, logged, contents, failed, buffers>>

\* os.OpenFile, whose result is assigned; a second goroutine may do the same.
OpenFile(l) ==
  /\ pc[l] = "open"
  /\ opened' = opened + 1
  /\ logFile' = opened'
  /\ Goto(l, "build")
  /\ UNCHANGED <<closed, out, logged, contents, failed, buffers>>

\* A logger that drops everything, and the error.
OpenFails(l) ==
  /\ pc[l] = "open"
  /\ logFile' = 0
  /\ Goto(l, "nop")
  /\ UNCHANGED <<opened, closed, out, logged, contents, failed, buffers>>

\* The logger is built on what logFile holds now.
Build(l) ==
  /\ pc[l] = "build"
  /\ out' = [out EXCEPT ![l] = logFile]
  /\ Goto(l, "ready")
  /\ UNCHANGED <<files, logged, contents, failed, buffers>>

\* The error for a nil file, or one that is closed, changes nothing.
Close ==
  /\ logFile \notin closed \cup {0}
  /\ closed' = closed \cup {logFile}
  /\ UNCHANGED <<logFile, opened, pc, out, logged, contents, failed, buffers>>

-----------------------------------------------------------------------------
(* Messages                                                                *)

Takes(f) == f # 0 /\ f \notin closed

\* File.Write; zerolog prints its error to Stderr, the diode ignores it.
Write(l, n) ==
  IF Takes(out[l])
  THEN contents' = Append(contents, <<l, n>>) /\ UNCHANGED failed
  ELSE failed' = [failed EXCEPT ![l] = @ + 1] /\ UNCHANGED contents

Message(l) ==
  /\ pc[l] = "ready"
  /\ logged[l] < MaxMessages[l]
  /\ logged' = [logged EXCEPT ![l] = @ + 1]

Log(l) ==
  /\ Message(l)
  /\ l \notin ThreadSafe
  /\ Write(l, logged[l])
  /\ UNCHANGED <<files, pc, out, buffers>>

\* diode.Set: over what the slot holds, be it read or not.
LogToRing(l) ==
  /\ Message(l)
  /\ l \in ThreadSafe
  /\ ring' = [ring EXCEPT ![l][logged[l] % Size] = {logged[l]}]
  /\ UNCHANGED <<files, pc, out, contents, failed, readIndex, hand, missed>>

\* Mutant of Alert: no callback is given to the diode.
AlertNobody(l, dropped) == UNCHANGED missed

\* The callback that is given to the diode logs the number that it is told.
Alert(l, dropped) == missed' = [missed EXCEPT ![l] = @ + dropped]

\* diode.TryNext every 10 ms.  The slot is emptied.  A message that is newer than
\* expected means that the writer has lapped the reader: the reader jumps there
\* and reports what it passes over, which includes messages still in other slots.
TakeFromRing(l, n) ==
  /\ hand[l] = {} /\ n \in ring[l][readIndex[l] % Size]
  /\ ring' = [ring EXCEPT ![l][readIndex[l] % Size] = {}]
  /\ n >= readIndex[l]
  /\ readIndex' = [readIndex EXCEPT ![l] = n + 1]
  /\ Alert(l, n - readIndex[l])
  /\ hand' = [hand EXCEPT ![l] = {n}]
  /\ UNCHANGED <<files, pc, out, logged, contents, failed>>

\* What the reader has passed over is thrown away when it gets there.
Discard(l, n) ==
  /\ hand[l] = {} /\ n \in ring[l][readIndex[l] % Size]
  /\ n < readIndex[l]
  /\ ring' = [ring EXCEPT ![l][readIndex[l] % Size] = {}]
  /\ UNCHANGED <<files, pc, out, logged, contents, failed, readIndex, hand, missed>>

WriteTaken(l, n) ==
  /\ n \in hand[l]
  /\ Write(l, n)
  /\ hand' = [hand EXCEPT ![l] = {}]
  /\ UNCHANGED <<files, pc, out, logged, ring, readIndex, missed>>

-----------------------------------------------------------------------------
Poll(l) == \E n \in 0 .. MaxMessages[l] : TakeFromRing(l, n) \/ Discard(l, n) \/ WriteTaken(l, n)

Next ==
  \/ Close
  \/ \E l \in Loggers : \/ NewReuses(l) \/ NewOpens(l) \/ OpenFile(l) \/ OpenFails(l)
                        \/ Build(l) \/ Log(l) \/ LogToRing(l) \/ Poll(l)

Spec == Init /\ [][Next]_vars

-----------------------------------------------------------------------------
(* Properties                                                              *)

TypeOK ==
  /\ opened \in Nat /\ logFile \in 0 .. opened /\ closed \subseteq 1 .. opened
  /\ pc \in [Loggers -> {"none", "open", "build", "ready", "nop"}]
  /\ out \in [Loggers -> 0 .. opened]
  /\ logged \in [Loggers -> Nat] /\ \A l \in Loggers : logged[l] <= MaxMessages[l]
  /\ contents \in Seq(Loggers \X Nat)
  /\ failed \in [Loggers -> Nat] /\ missed \in [Loggers -> Nat]
  /\ readIndex \in [Loggers -> Nat]
  /\ ring \in [Loggers -> [0 .. Size - 1 -> SUBSET Nat]]
  /\ hand \in [Loggers -> SUBSET Nat]

Written(l) == {i \in DOMAIN contents : contents[i][1] = l}

\* What a thread-safe logger has passed to its reader is in the file, was
\* reported as dropped, or met a closed file; a logger of New has nothing pending.
NothingVanishes ==
  \A l \in Loggers :
    LET known == Cardinality(Written(l)) + failed[l]
    IN  IF l \in ThreadSafe
        THEN /\ known + missed[l] + Cardinality(hand[l]) = readIndex[l]
             /\ readIndex[l] <= logged[l]
        ELSE known = logged[l]

\* Each message at most once, in the order they were logged.
InOrder ==
  \A i, j \in DOMAIN contents :
    i < j /\ contents[i][1] = contents[j][1] => contents[i][2] < contents[j][2]

\* However often its buffer is lapped, whoever else opens or closes the file: no
\* message of a logger vanishes unnoticed while the file is open, and the file
\* has them once and in order.
MessagesAccounted == NothingVanishes /\ InOrder
=============================================================================
