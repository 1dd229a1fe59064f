-------------------------- MODULE ServiceControlProofs --------------------------
(***************************************************************************)
(* For any payments, lapses and requests of the admin: a DELETE is final,  *)
(* whatever overlaps, fails or crashes; a user whose payment failed is     *)
(* stopped once the queue is empty, whatever overlaps, fails or crashes;   *)
(* a user who pays is served once it is empty, when nothing overlaps.      *)
(*                                                                         *)
(* The last two follow from where a change of the user still is: a STOP    *)
(* that ought to be executed is in the hands of a lapse handler or in the  *)
(* queue; an account that is off belongs to a command in the queue, or to  *)
(* a payment that has cancelled the command and has its START to enqueue.  *)
(***************************************************************************)
EXTENDS ServiceControl, SequenceTheorems, FiniteSetTheorems, TLAPS

\* The command of the worker is in the queue, and once the hedge setup is
\* archived only a DELETE is past the look at it.
WorkerKnows ==
    /\ worker.pc # "idle" => worker.cmd \in DOMAIN commands
    /\ worker.pc \in {"call", "write"} /\ ~HasHedge => Type = "DELETE"

ServiceInv == TypeOK /\ WorkerKnows

\* The queue keeps its commands and their types.
Kept == \A i \in DOMAIN commands : i \in DOMAIN commands' /\ commands'[i].type = commands[i].type

LEMMA InitInv == Init => ServiceInv
  BY DEF Init, ServiceInv, TypeOK, WorkerKnows, Kinds, HedgeStatuses, HandlerPCs, WorkerPCs,
         NoCommand, HasHedge

\* A handler moves on.
LEMMA GoneTo ==
  ASSUME TypeOK, NEW e \in Events, NEW pc \in HandlerPCs, Goto(e, pc)
  PROVE  handler' \in [Events -> [pc : HandlerPCs, cancelled : BOOLEAN]]
  BY DEF TypeOK, Goto

\* A command of the queue, and what the worker writes into one.
LEMMA InQueue ==
  ASSUME TypeOK, NEW i \in DOMAIN commands
  PROVE  commands[i] \in Command /\ commands[i].attempts \in Nat /\ i \in Nat
  <1>1. commands[i] \in Command /\ i \in Nat
    BY DEF TypeOK
  <1> QED
    BY <1>1 DEF Command

LEMMA Written ==
  ASSUME NEW c \in Command, NEW s \in {"PENDING", "RUNNING", "COMPLETED", "FAILED"},
         NEW n \in Nat, NEW d \in BOOLEAN
  PROVE  /\ [c EXCEPT !.status = s] \in Command /\ [c EXCEPT !.status = s].type = c.type
         /\ [c EXCEPT !.due = d] \in Command /\ [c EXCEPT !.due = d].type = c.type
         /\ [c EXCEPT !.status = s, !.due = d] \in Command
         /\ [c EXCEPT !.status = s, !.due = d].type = c.type
         /\ [c EXCEPT !.status = s, !.attempts = n, !.due = d] \in Command
         /\ [c EXCEPT !.status = s, !.attempts = n, !.due = d].type = c.type
  BY DEF Command

\* A change of one command that leaves its type alone.
LEMMA OneCommand ==
  ASSUME TypeOK, NEW i \in DOMAIN commands, NEW row \in Command, row.type = commands[i].type,
         commands' = [commands EXCEPT ![i] = row]
  PROVE  commands' \in Seq(Command) /\ Kept
  BY DEF TypeOK, Kept

\* Steps that leave the worker and the hedge setup alone.
LEMMA Elsewhere ==
  ASSUME ServiceInv, Kept, TypeOK', UNCHANGED <<hedge, worker>>
  PROVE  ServiceInv'
  BY DEF ServiceInv, WorkerKnows, Kept, Type, HasHedge

\* The handlers of payments, lapses and requests.
LEMMA HandlerInv ==
  ASSUME ServiceInv, NEW e \in Events, BeginPayment(e) \/ BeginLapse(e) \/ HandlerStep(e)
  PROVE  ServiceInv'
  <1>0. TypeOK
    BY DEF ServiceInv
  <1>1. CASE BeginPayment(e)
    <2>1. handler' \in [Events -> [pc : HandlerPCs, cancelled : BOOLEAN]]
      BY <1>0, <1>1, GoneTo DEF BeginPayment, HandlerPCs
    <2> QED
      BY <1>0, <1>1, <2>1, Elsewhere DEF BeginPayment, Kept, TypeOK, Note
  <1>2. CASE BeginLapse(e)
    <2>1. handler' \in [Events -> [pc : HandlerPCs, cancelled : BOOLEAN]]
      BY <1>0, <1>2, GoneTo DEF BeginLapse, HandlerPCs
    <2> QED
      BY <1>0, <1>2, <2>1, Elsewhere DEF BeginLapse, Kept, TypeOK, Note
  <1>3. CASE WriteUser(e)
    <2>1. handler' \in [Events -> [pc : HandlerPCs, cancelled : BOOLEAN]]
      BY <1>0, <1>3, GoneTo DEF WriteUser, HandlerPCs
    <2> QED
      BY <1>0, <1>3, <2>1, Elsewhere DEF WriteUser, Kept, TypeOK
  <1>4. CASE CancelStops(e)
    <2>1. commands' \in Seq(Command) /\ Kept
      <3>1. commands \in Seq(Command) /\ DOMAIN commands = 1 .. Len(commands) /\ Len(commands) \in Nat
        BY <1>0 DEF TypeOK
      <3>2. \A i \in DOMAIN commands : [commands[i] EXCEPT !.status = "FAILED"] \in Command
        BY <1>0, InQueue, Written
      <3>3. commands' = [i \in 1 .. Len(commands) |->
               IF i \in Cancellable THEN [commands[i] EXCEPT !.status = "FAILED"] ELSE commands[i]]
        BY <1>4, <3>1 DEF CancelStops
      <3>4. commands' \in Seq(Command)
        BY <3>1, <3>2, <3>3
      <3>5. Kept
        BY <3>1, <3>3 DEF Kept, Command
      <3> QED
        BY <3>4, <3>5
    <2>2. handler' \in [Events -> [pc : HandlerPCs, cancelled : BOOLEAN]]
      BY <1>0, <1>4 DEF CancelStops, TypeOK, HandlerPCs
    <2> QED
      BY <1>0, <1>4, <2>1, <2>2, Elsewhere DEF CancelStops, TypeOK
  <1>5. CASE LookAtHedge(e)
    <2>1. handler' \in [Events -> [pc : HandlerPCs, cancelled : BOOLEAN]]
      BY <1>0, <1>5, GoneTo DEF LookAtHedge, HandlerPCs
    <2> QED
      BY <1>0, <1>5, <2>1, Elsewhere DEF LookAtHedge, Kept, TypeOK
  <1>6. CASE FindDuplicate(e)
    <2>1. handler' \in [Events -> [pc : HandlerPCs, cancelled : BOOLEAN]]
      BY <1>0, <1>6, GoneTo DEF FindDuplicate, HandlerPCs
    <2> QED
      BY <1>0, <1>6, <2>1, Elsewhere DEF FindDuplicate, Kept, TypeOK, Note
  <1>7. CASE CreateCommand(e)
    <2>1. TypeFor(e) \in Types
      BY ServiceAssumption DEF TypeFor, Types, Events
    <2>2. [type |-> TypeFor(e), status |-> "PENDING", attempts |-> 0, due |-> TRUE] \in Command
      BY <2>1 DEF Command
    <2>3. commands' \in Seq(Command) /\ Kept
      BY <1>0, <1>7, <2>2 DEF CreateCommand, TypeOK, Kept
    <2>4. handler' \in [Events -> [pc : HandlerPCs, cancelled : BOOLEAN]]
      BY <1>0, <1>7, GoneTo DEF CreateCommand, HandlerPCs
    <2> QED
      BY <1>0, <1>7, <2>3, <2>4, Elsewhere DEF CreateCommand, TypeOK
  <1> QED
    BY <1>1, <1>2, <1>3, <1>4, <1>5, <1>6, <1>7 DEF HandlerStep

\* The worker and the queue.
LEMMA WorkerInv ==
  ASSUME ServiceInv, Requeue \/ StartCommand \/ WorkerStep \/ \E i \in DOMAIN commands : BackoffEnds(i)
  PROVE  ServiceInv'
  <1>0. TypeOK /\ WorkerKnows
    BY DEF ServiceInv
  <1>1. CASE Requeue
    <2>1. PICK i \in DOMAIN commands :
             commands' = [commands EXCEPT ![i] = [@ EXCEPT !.status = "PENDING", !.due = TRUE]]
      BY <1>1 DEF Requeue, WithStatus
    <2>2. commands' \in Seq(Command) /\ Kept
      BY <1>0, <2>1, InQueue, Written, OneCommand
    <2> QED
      BY <1>0, <1>1, <2>2, Elsewhere DEF Requeue, TypeOK
  <1>2. CASE StartCommand
    <2>1. PICK i \in DOMAIN commands :
             worker' = [pc |-> "mark", cmd |-> i, attempts |-> commands[i].attempts, todo |-> {}]
      BY <1>2 DEF StartCommand, DuePending, WithStatus
    <2>2. commands[i].attempts \in Nat /\ i \in Nat
      BY <1>0, InQueue
    <2>3. worker' \in [pc : WorkerPCs, cmd : Nat, attempts : Nat, todo : SUBSET Kinds]
      BY <2>1, <2>2 DEF WorkerPCs
    <2> QED
      BY <1>0, <1>2, <2>1, <2>3 DEF StartCommand, ServiceInv, WorkerKnows, TypeOK, Note
  <1>3. CASE MarkRunning
    <2>1. worker.cmd \in DOMAIN commands
      BY <1>0, <1>3 DEF WorkerKnows, MarkRunning
    <2>2. commands' = [commands EXCEPT ![worker.cmd] = [@ EXCEPT !.status = "RUNNING"]]
      BY <1>3 DEF MarkRunning
    <2>3. commands' \in Seq(Command) /\ Kept
      BY <1>0, <2>1, <2>2, InQueue, Written, OneCommand
    <2>4. worker' \in [pc : WorkerPCs, cmd : Nat, attempts : Nat, todo : SUBSET Kinds]
      BY <1>0, <1>3 DEF MarkRunning, TypeOK, WorkerPCs
    <2> QED
      BY <1>0, <1>3, <2>1, <2>3, <2>4 DEF MarkRunning, ServiceInv, WorkerKnows, TypeOK, Kept
  <1>4. CASE CheckEntitlement
    BY <1>0, <1>4 DEF CheckEntitlement, ServiceInv, WorkerKnows, TypeOK, WorkerPCs
  <1>5. CASE ReadContext
    <2>1. worker' \in [pc : WorkerPCs, cmd : Nat, attempts : Nat, todo : SUBSET Kinds]
      BY <1>0, <1>5 DEF ReadContext, TypeOK, WorkerPCs
    <2>2. WorkerKnows'
      BY <1>0, <1>5 DEF ReadContext, WorkerKnows, Type, HasHedge, TypeOK
    <2> QED
      BY <1>0, <1>5, <2>1, <2>2 DEF ReadContext, ServiceInv, TypeOK
  <1>6. CASE CallEasierProp
    <2>0. NextAccount \in Kinds
      BY DEF NextAccount, Kinds
    <2>1. worker' \in [pc : WorkerPCs, cmd : Nat, attempts : Nat, todo : SUBSET Kinds]
      <3>1. PICK todo \in SUBSET Kinds, pc \in {"write", "call"} :
              worker' \in {[worker EXCEPT !.todo = todo, !.pc = pc], [worker EXCEPT !.pc = "fail"]}
        BY <1>0, <1>6, <2>0 DEF CallEasierProp, TypeOK
      <3> DEFINE worked == [worker EXCEPT !.todo = todo]
      <3>2. worked \in [pc : WorkerPCs, cmd : Nat, attempts : Nat, todo : SUBSET Kinds]
        BY <1>0 DEF TypeOK
      <3>3. worker' \in {[worked EXCEPT !.pc = pc], [worker EXCEPT !.pc = "fail"]}
        BY <3>1
      <3> HIDE DEF worked
      <3> QED
        BY <1>0, <3>2, <3>3 DEF TypeOK, WorkerPCs
    <2>2. WorkerKnows'
      BY <1>0, <1>6 DEF CallEasierProp, WorkerKnows, Type, HasHedge, TypeOK
    <2>3. on' \subseteq Kinds
      BY <1>0, <1>6, <2>0 DEF CallEasierProp, TypeOK
    <2> QED
      BY <1>0, <1>6, <2>1, <2>2, <2>3 DEF CallEasierProp, ServiceInv, TypeOK
  <1>7. CASE WriteHedge
    <2>1. hedge' \in HedgeStatuses
      BY <1>0, <1>7 DEF WriteHedge, HedgeAfter, HedgeStatuses, TypeOK
    <2> QED
      BY <1>0, <1>7, <2>1 DEF WriteHedge, ServiceInv, WorkerKnows, TypeOK, WorkerPCs
  <1>8. CASE Complete
    <2>1. worker.cmd \in DOMAIN commands
      BY <1>0, <1>8 DEF WorkerKnows, Complete
    <2>2. commands' = [commands EXCEPT ![worker.cmd] = [@ EXCEPT !.status = "COMPLETED"]]
      BY <1>8 DEF Complete
    <2>3. commands' \in Seq(Command)
      BY <1>0, <2>1, <2>2, InQueue, Written, OneCommand
    <2> QED
      BY <1>0, <1>8, <2>3 DEF Complete, ServiceInv, WorkerKnows, TypeOK, NoCommand, WorkerPCs
  <1>9. CASE HandleFailure
    <2>1. worker.cmd \in DOMAIN commands
      BY <1>0, <1>9 DEF WorkerKnows, HandleFailure
    <2>2. PICK status \in {"PENDING", "FAILED"} : commands' = [commands EXCEPT
             ![worker.cmd] = [@ EXCEPT !.status = status, !.attempts = worker.attempts + 1,
                                       !.due = FALSE]]
      BY <1>9 DEF HandleFailure
    <2>3. commands' \in Seq(Command)
      <3>1. worker.attempts + 1 \in Nat
        BY <1>0 DEF TypeOK
      <3>2. commands[worker.cmd] \in Command
        BY <1>0, <2>1, InQueue
      <3> DEFINE row == [commands[worker.cmd] EXCEPT !.status = status,
                            !.attempts = worker.attempts + 1, !.due = FALSE]
      <3>3. row \in Command /\ row.type = commands[worker.cmd].type
        BY <3>1, <3>2 DEF Command
      <3>4. commands' = [commands EXCEPT ![worker.cmd] = row]
        BY <2>2
      <3> HIDE DEF row
      <3> QED
        BY <1>0, <2>1, <3>3, <3>4, OneCommand
    <2> QED
      BY <1>0, <1>9, <2>3 DEF HandleFailure, ServiceInv, WorkerKnows, TypeOK, NoCommand, WorkerPCs
  <1>10. CASE \E i \in DOMAIN commands : BackoffEnds(i)
    <2>1. PICK i \in DOMAIN commands : BackoffEnds(i)
      BY <1>10
    <2>2. commands' = [commands EXCEPT ![i] = [@ EXCEPT !.due = TRUE]]
      BY <2>1 DEF BackoffEnds
    <2>3. commands' \in Seq(Command) /\ Kept
      BY <1>0, <2>2, InQueue, Written, OneCommand
    <2> QED
      BY <1>0, <2>1, <2>3, Elsewhere DEF BackoffEnds, TypeOK
  <1>11. CASE StepFails
    <2>1. worker' \in [pc : WorkerPCs, cmd : Nat, attempts : Nat, todo : SUBSET Kinds]
      BY <1>0, <1>11 DEF StepFails, TypeOK, WorkerPCs
    <2> QED
      BY <1>0, <1>11, <2>1 DEF StepFails, ServiceInv, WorkerKnows, TypeOK
  <1> QED
    BY <1>1, <1>2, <1>3, <1>4, <1>5, <1>6, <1>7, <1>8, <1>9, <1>10, <1>11 DEF WorkerStep

\* A crash forgets the worker.
LEMMA CrashInv ==
  ASSUME ServiceInv, Crash
  PROVE  ServiceInv'
  <1>1. handler' \in [Events -> [pc : HandlerPCs, cancelled : BOOLEAN]]
    BY DEF ServiceInv, TypeOK, Crash, HandlerPCs
  <1>2. worker' \in [pc : WorkerPCs, cmd : Nat, attempts : Nat, todo : SUBSET Kinds]
    BY DEF Crash, NoCommand, WorkerPCs
  <1>3. crashes' \in Nat
    <2>1. crashes \in Nat /\ crashes' = crashes + 1
      BY DEF ServiceInv, TypeOK, Crash
    <2> QED
      BY <2>1
  <1>4. worker'.pc = "idle" /\ alone' \in BOOLEAN
    BY Zenon DEF Crash, NoCommand
  <1>5. UNCHANGED <<subscribed, userActive, hedge, on, commands>>
    BY DEF Crash
  <1> QED
    BY <1>1, <1>2, <1>3, <1>4, <1>5 DEF ServiceInv, TypeOK, WorkerKnows

LEMMA StepInv == ServiceInv /\ [Next]_vars => ServiceInv'
  <1> SUFFICES ASSUME ServiceInv, [Next]_vars PROVE ServiceInv'
    OBVIOUS
  <1>1. CASE UNCHANGED vars
    BY <1>1 DEF vars, ServiceInv, TypeOK, WorkerKnows, Type, HasHedge
  <1> QED
    BY <1>1, HandlerInv, WorkerInv, CrashInv DEF Next

\* The types of the queue hold of every history.
THEOREM TypeCorrect == Spec => []TypeOK
  <1>1. ServiceInv => TypeOK
    BY DEF ServiceInv
  <1> QED
    BY <1>1, InitInv, StepInv, PTL DEF Spec

\* A step of an archived service leaves it archived and enables no account.
LEMMA StepStaysDeleted ==
  ASSUME ServiceInv, [Next]_vars, hedge = "archived"
  PROVE  hedge' = "archived" /\ on' \subseteq on
  <1>1. CASE CallEasierProp
    <2>1. Type = "DELETE"
      BY <1>1 DEF CallEasierProp, ServiceInv, WorkerKnows, HasHedge
    <2> QED
      BY <1>1, <2>1 DEF CallEasierProp
  <1>2. CASE WriteHedge
    BY <1>2 DEF WriteHedge, HasHedge
  <1> QED
    BY <1>1, <1>2
    DEF Next, vars, BeginPayment, BeginLapse, HandlerStep, WriteUser, CancelStops, LookAtHedge,
        FindDuplicate, CreateCommand, Requeue, StartCommand, WorkerStep, MarkRunning,
        CheckEntitlement, ReadContext, Complete, StepFails, HandleFailure, BackoffEnds, Crash

\* No START that waited behind the DELETE, was retried after it or was
\* enqueued by a late payment enables an account or a hedge setup again
\* (src/src/modules/provisioning/service-control.service.ts, executeDelete).
THEOREM DeletedStaysDeleted == Spec => DeleteIsFinal
  <1>1. ServiceInv /\ [Next]_vars => [hedge = "archived" => hedge' = "archived" /\ on' \subseteq on]_vars
    BY StepStaysDeleted
  <1> QED
    BY <1>1, InitInv, StepInv, PTL DEF Spec, DeleteIsFinal

-----------------------------------------------------------------------------
(* The queue and those who write it *)

\* Which handlers come where.
HandlerPaths ==
    \A e \in Events :
        /\ handler[e].pc \in {"user", "look", "find", "again"} => e \in Payments \cup Lapses
        /\ handler[e].pc = "cancel" \/ handler[e].cancelled => e \in Payments

\* What the worker holds of its command.
WorkerRuns ==
    worker.pc # "idle" =>
        /\ worker.attempts = commands[worker.cmd].attempts
        /\ worker.pc # "mark" => commands[worker.cmd].status = "RUNNING"
        /\ worker.pc = "check" => Type = "STOP"

BusyEvents == {e \in Events : Busy(e)}

QueueInv == ServiceInv /\ HandlerPaths /\ WorkerRuns /\ IsFiniteSet(BusyEvents)

LEMMA InitQueue == Init => QueueInv
  <1> SUFFICES ASSUME Init PROVE QueueInv
    OBVIOUS
  <1>1. HandlerPaths /\ WorkerRuns
    BY DEF Init, HandlerPaths, WorkerRuns, NoCommand
  <1>2. BusyEvents = {}
    BY DEF Init, BusyEvents, Busy
  <1> QED
    BY <1>1, <1>2, InitInv, FS_EmptySet DEF QueueInv

\* When nothing is under way no handler is, nor is the worker.
LEMMA NoneActive ==
  ASSUME IsFiniteSet(BusyEvents), Active = 0
  PROVE  worker.pc = "idle" /\ \A e \in Events : ~Busy(e)
  <1>1. Cardinality(BusyEvents) \in Nat
    BY FS_CardinalityType
  <1>2. Active = Cardinality(BusyEvents) + (IF worker.pc = "idle" THEN 0 ELSE 1)
    BY DEF Active, BusyEvents
  <1>3. worker.pc = "idle" /\ Cardinality(BusyEvents) = 0
    BY <1>1, <1>2
  <1>4. BusyEvents = {}
    BY <1>3, FS_EmptySet
  <1> QED
    BY <1>3, <1>4 DEF BusyEvents

\* One handler moves on, the others do not.
LEMMA HandlerAt ==
  ASSUME TypeOK, NEW e \in Events, NEW pc, Goto(e, pc)
  PROVE  /\ handler'[e].pc = pc /\ handler'[e].cancelled = handler[e].cancelled
         /\ \A f \in Events : f # e => handler'[f] = handler[f]
  BY DEF TypeOK, Goto

LEMMA CancelAt ==
  ASSUME TypeOK, NEW e \in Events, CancelStops(e)
  PROVE  /\ handler'[e].pc = "look" /\ handler'[e].cancelled = (Cancellable # {})
         /\ \A f \in Events : f # e => handler'[f] = handler[f]
         /\ DOMAIN commands' = DOMAIN commands
         /\ \A i \in DOMAIN commands :
               /\ commands'[i].type = commands[i].type /\ commands'[i].attempts = commands[i].attempts
               /\ i \in Cancellable => commands'[i].status = "FAILED"
               /\ i \notin Cancellable => commands'[i] = commands[i]
  <1>1. \A i \in DOMAIN commands : commands[i] \in Command
    BY InQueue
  <1>2. handler' = [handler EXCEPT ![e] = [pc |-> "look", cancelled |-> Cancellable # {}]]
    BY DEF CancelStops
  <1>3. /\ handler'[e] = [pc |-> "look", cancelled |-> Cancellable # {}]
        /\ \A f \in Events : f # e => handler'[f] = handler[f]
    BY <1>2 DEF TypeOK
  <1>4. commands' = [i \in DOMAIN commands |->
           IF i \in Cancellable THEN [commands[i] EXCEPT !.status = "FAILED"] ELSE commands[i]]
    BY DEF CancelStops
  <1> QED
    BY <1>1, <1>3, <1>4 DEF Command

\* A command is added to the queue, or one of it is written.
LEMMA AddedAt ==
  ASSUME TypeOK, NEW e \in Events, CreateCommand(e)
  PROVE  /\ handler'[e].pc = "done" /\ handler'[e].cancelled = handler[e].cancelled
         /\ \A f \in Events : f # e => handler'[f] = handler[f]
         /\ \A i \in DOMAIN commands : i \in DOMAIN commands' /\ commands'[i] = commands[i]
         /\ \A i \in DOMAIN commands' : i \notin DOMAIN commands =>
               commands'[i] = [type |-> TypeFor(e), status |-> "PENDING", attempts |-> 0, due |-> TRUE]
         /\ \E i \in DOMAIN commands' : i \notin DOMAIN commands
  <1> DEFINE new == [type |-> TypeFor(e), status |-> "PENDING", attempts |-> 0, due |-> TRUE]
  <1>1. commands \in Seq(Command) /\ commands' = Append(commands, new)
    BY DEF TypeOK, CreateCommand
  <1>2. TypeFor(e) \in Types
    BY ServiceAssumption DEF TypeFor, Types, Events
  <1>3. new \in Command
    BY <1>2 DEF Command
  <1> HIDE DEF new
  <1>4. /\ Len(commands) \in Nat /\ DOMAIN commands = 1 .. Len(commands)
        /\ DOMAIN commands' = 1 .. Len(commands) + 1
        /\ \A i \in 1 .. Len(commands) : commands'[i] = commands[i]
        /\ commands'[Len(commands) + 1] = new
    BY <1>1, <1>3
  <1>5. /\ \A i \in DOMAIN commands : i \in DOMAIN commands' /\ commands'[i] = commands[i]
        /\ \A i \in DOMAIN commands' : i \notin DOMAIN commands => commands'[i] = new
        /\ \E i \in DOMAIN commands' : i \notin DOMAIN commands
    BY <1>4
  <1>6. handler'[e].pc = "done" /\ handler'[e].cancelled = handler[e].cancelled
        /\ \A f \in Events : f # e => handler'[f] = handler[f]
    BY HandlerAt DEF CreateCommand
  <1> QED
    BY <1>5, <1>6 DEF new

LEMMA WrittenAt ==
  ASSUME TypeOK, NEW i \in DOMAIN commands, NEW row, commands' = [commands EXCEPT ![i] = row]
  PROVE  /\ DOMAIN commands' = DOMAIN commands /\ commands'[i] = row
         /\ \A j \in DOMAIN commands : j # i => commands'[j] = commands[j]
  BY DEF TypeOK

\* The worker's own steps, by what they do to its command.
LEMMA RequeueAt ==
  ASSUME TypeOK, Requeue
  PROVE  /\ worker.pc = "idle" /\ DOMAIN commands' = DOMAIN commands
         /\ \E i \in DOMAIN commands :
               /\ commands[i].status = "RUNNING" /\ commands'[i].status = "PENDING"
               /\ \A j \in DOMAIN commands :
                     /\ commands'[j].type = commands[j].type /\ commands'[j].attempts = commands[j].attempts
                     /\ j # i => commands'[j] = commands[j]
         /\ UNCHANGED <<subscribed, userActive, hedge, on, handler, worker, crashes, alone>>
  <1>1. PICK i \in DOMAIN commands :
           /\ commands[i].status = "RUNNING"
           /\ commands' = [commands EXCEPT ![i] = [@ EXCEPT !.status = "PENDING", !.due = TRUE]]
    BY DEF Requeue, WithStatus
  <1> DEFINE row == [commands[i] EXCEPT !.status = "PENDING", !.due = TRUE]
  <1>2. commands[i] \in Command
    BY InQueue
  <1>3. /\ row.status = "PENDING" /\ row.type = commands[i].type /\ row.attempts = commands[i].attempts
        /\ commands' = [commands EXCEPT ![i] = row]
    BY <1>1, <1>2 DEF Command
  <1> HIDE DEF row
  <1>4. /\ DOMAIN commands' = DOMAIN commands /\ commands'[i] = row
        /\ \A j \in DOMAIN commands : j # i => commands'[j] = commands[j]
    BY <1>3, WrittenAt
  <1> QED
    BY <1>1, <1>3, <1>4 DEF Requeue

LEMMA MarkAt ==
  ASSUME ServiceInv, MarkRunning
  PROVE  /\ worker.pc = "mark" /\ worker.cmd \in DOMAIN commands /\ DOMAIN commands' = DOMAIN commands
         /\ commands'[worker.cmd].status = "RUNNING"
         /\ commands'[worker.cmd].type = Type
         /\ commands'[worker.cmd].attempts = commands[worker.cmd].attempts
         /\ \A j \in DOMAIN commands : j # worker.cmd => commands'[j] = commands[j]
         /\ worker'.pc = (IF Type = "STOP" THEN "check" ELSE "context")
         /\ worker'.cmd = worker.cmd /\ worker'.attempts = worker.attempts /\ worker'.todo = worker.todo
         /\ UNCHANGED <<subscribed, userActive, hedge, on, handler, crashes, alone>>
  <1>1. TypeOK /\ worker.pc = "mark" /\ worker.cmd \in DOMAIN commands
    BY DEF ServiceInv, WorkerKnows, MarkRunning
  <1>2. commands[worker.cmd] \in Command
    BY <1>1, InQueue
  <1> DEFINE row == [commands[worker.cmd] EXCEPT !.status = "RUNNING"]
  <1>3. /\ row.status = "RUNNING" /\ row.type = Type /\ row.attempts = commands[worker.cmd].attempts
        /\ commands' = [commands EXCEPT ![worker.cmd] = row]
    BY <1>2 DEF Command, Type, MarkRunning
  <1> HIDE DEF row
  <1>4. /\ DOMAIN commands' = DOMAIN commands /\ commands'[worker.cmd] = row
        /\ \A j \in DOMAIN commands : j # worker.cmd => commands'[j] = commands[j]
    BY <1>1, <1>3, WrittenAt
  <1>5. /\ worker'.pc = (IF Type = "STOP" THEN "check" ELSE "context")
        /\ worker'.cmd = worker.cmd /\ worker'.attempts = worker.attempts /\ worker'.todo = worker.todo
    BY <1>1 DEF MarkRunning, TypeOK
  <1> QED
    BY <1>1, <1>3, <1>4, <1>5 DEF MarkRunning

LEMMA CompleteAt ==
  ASSUME ServiceInv, Complete
  PROVE  /\ worker.pc = "complete" /\ worker.cmd \in DOMAIN commands /\ worker' = NoCommand
         /\ DOMAIN commands' = DOMAIN commands
         /\ commands'[worker.cmd].status = "COMPLETED"
         /\ commands'[worker.cmd].type = Type
         /\ commands'[worker.cmd].attempts = commands[worker.cmd].attempts
         /\ \A j \in DOMAIN commands : j # worker.cmd => commands'[j] = commands[j]
         /\ UNCHANGED <<subscribed, userActive, hedge, on, handler, crashes, alone>>
  <1>1. TypeOK /\ worker.pc = "complete" /\ worker.cmd \in DOMAIN commands
    BY DEF ServiceInv, WorkerKnows, Complete
  <1>2. commands[worker.cmd] \in Command
    BY <1>1, InQueue
  <1> DEFINE row == [commands[worker.cmd] EXCEPT !.status = "COMPLETED"]
  <1>3. /\ row.status = "COMPLETED" /\ row.type = Type /\ row.attempts = commands[worker.cmd].attempts
        /\ commands' = [commands EXCEPT ![worker.cmd] = row]
    BY <1>2 DEF Command, Type, Complete
  <1> HIDE DEF row
  <1>4. /\ DOMAIN commands' = DOMAIN commands /\ commands'[worker.cmd] = row
        /\ \A j \in DOMAIN commands : j # worker.cmd => commands'[j] = commands[j]
    BY <1>1, <1>3, WrittenAt
  <1> QED
    BY <1>1, <1>3, <1>4 DEF Complete

LEMMA FailureAt ==
  ASSUME ServiceInv, HandleFailure
  PROVE  /\ worker.pc = "fail" /\ worker.cmd \in DOMAIN commands /\ worker' = NoCommand
         /\ DOMAIN commands' = DOMAIN commands
         /\ commands'[worker.cmd].status =
               (IF Exhausted(worker.attempts + 1) THEN "FAILED" ELSE "PENDING")
         /\ commands'[worker.cmd].type = Type
         /\ commands'[worker.cmd].attempts = worker.attempts + 1
         /\ \A j \in DOMAIN commands : j # worker.cmd => commands'[j] = commands[j]
         /\ UNCHANGED <<subscribed, userActive, hedge, on, handler, crashes, alone>>
  <1>1. TypeOK /\ worker.pc = "fail" /\ worker.cmd \in DOMAIN commands
    BY DEF ServiceInv, WorkerKnows, HandleFailure
  <1>2. commands[worker.cmd] \in Command
    BY <1>1, InQueue
  <1> DEFINE row == [commands[worker.cmd] EXCEPT
                        !.status = IF Exhausted(worker.attempts + 1) THEN "FAILED" ELSE "PENDING",
                        !.attempts = worker.attempts + 1, !.due = FALSE]
  <1>3. /\ row.status = (IF Exhausted(worker.attempts + 1) THEN "FAILED" ELSE "PENDING")
        /\ row.type = Type /\ row.attempts = worker.attempts + 1
        /\ commands' = [commands EXCEPT ![worker.cmd] = row]
    BY <1>2 DEF Command, Type, HandleFailure
  <1> HIDE DEF row
  <1>4. /\ DOMAIN commands' = DOMAIN commands /\ commands'[worker.cmd] = row
        /\ \A j \in DOMAIN commands : j # worker.cmd => commands'[j] = commands[j]
    BY <1>1, <1>3, WrittenAt
  <1> QED
    BY <1>1, <1>3, <1>4 DEF HandleFailure

LEMMA BackoffAt ==
  ASSUME TypeOK, NEW i \in DOMAIN commands, BackoffEnds(i)
  PROVE  /\ DOMAIN commands' = DOMAIN commands
         /\ \A j \in DOMAIN commands :
               /\ commands'[j].type = commands[j].type /\ commands'[j].attempts = commands[j].attempts
               /\ commands'[j].status = commands[j].status
         /\ UNCHANGED <<subscribed, userActive, hedge, on, handler, worker, crashes, alone>>
  <1>1. commands[i] \in Command
    BY InQueue
  <1> DEFINE row == [commands[i] EXCEPT !.due = TRUE]
  <1>2. /\ row.status = commands[i].status /\ row.type = commands[i].type
        /\ row.attempts = commands[i].attempts /\ commands' = [commands EXCEPT ![i] = row]
    BY <1>1 DEF Command, BackoffEnds
  <1> HIDE DEF row
  <1>3. /\ DOMAIN commands' = DOMAIN commands /\ commands'[i] = row
        /\ \A j \in DOMAIN commands : j # i => commands'[j] = commands[j]
    BY <1>2, WrittenAt
  <1> QED
    BY <1>2, <1>3 DEF BackoffEnds

LEMMA StartAt ==
  ASSUME ServiceInv, StartCommand
  PROVE  /\ worker.pc = "idle" /\ worker'.pc = "mark" /\ worker'.cmd \in DOMAIN commands
         /\ commands[worker'.cmd].status = "PENDING"
         /\ worker'.attempts = commands[worker'.cmd].attempts
         /\ alone' = (alone /\ Active = 0)
         /\ UNCHANGED <<subscribed, userActive, hedge, on, commands, handler, crashes>>
  BY DEF StartCommand, DuePending, WithStatus, Note

LEMMA CheckAt ==
  ASSUME ServiceInv, CheckEntitlement
  PROVE  /\ worker.pc = "check" /\ worker'.cmd = worker.cmd /\ worker'.attempts = worker.attempts
         /\ worker'.pc = (IF Entitled THEN "complete" ELSE "context")
         /\ UNCHANGED <<subscribed, userActive, hedge, on, commands, handler, crashes, alone>>
  BY DEF CheckEntitlement, ServiceInv, TypeOK

LEMMA ContextAt ==
  ASSUME ServiceInv, ReadContext
  PROVE  /\ worker.pc = "context" /\ worker'.cmd = worker.cmd /\ worker'.attempts = worker.attempts
         /\ worker'.pc = (IF HasHedge \/ Type = "DELETE" THEN "call" ELSE "fail")
         /\ worker'.pc = "call" => worker'.todo = Kinds
         /\ UNCHANGED <<subscribed, userActive, hedge, on, commands, handler, crashes, alone>>
  BY DEF ReadContext, ServiceInv, TypeOK

LEMMA CallAt ==
  ASSUME ServiceInv, CallEasierProp
  PROVE  /\ worker.pc = "call" /\ worker'.cmd = worker.cmd /\ worker'.attempts = worker.attempts
         /\ worker'.pc \in {"call", "write", "fail"}
         /\ on' = on \/ on' = (IF Type = "START" THEN on \cup {NextAccount} ELSE on \ {NextAccount})
         /\ worker'.pc \in {"call", "write"} =>
               /\ on' = (IF Type = "START" THEN on \cup {NextAccount} ELSE on \ {NextAccount})
               /\ worker'.todo = worker.todo \ {NextAccount}
               /\ worker'.pc = "write" => worker'.todo = {}
         /\ UNCHANGED <<subscribed, userActive, hedge, commands, handler, crashes, alone>>
  <1>1. worker \in [pc : WorkerPCs, cmd : Nat, attempts : Nat, todo : SUBSET Kinds] /\ worker.pc = "call"
    BY DEF CallEasierProp, ServiceInv, TypeOK
  <1> DEFINE todo == worker.todo \ {NextAccount}
             went == [worker EXCEPT !.todo = todo, !.pc = IF todo = {} THEN "write" ELSE @]
             failed == [worker EXCEPT !.pc = "fail"]
  <1>2. /\ went.cmd = worker.cmd /\ went.attempts = worker.attempts /\ went.todo = todo
        /\ went.pc = (IF todo = {} THEN "write" ELSE "call")
        /\ failed.cmd = worker.cmd /\ failed.attempts = worker.attempts /\ failed.pc = "fail"
    BY <1>1
  <1>3. \/ /\ on' = (IF Type = "START" THEN on \cup {NextAccount} ELSE on \ {NextAccount})
           /\ worker' = went \/ worker' = failed
        \/ worker' = failed /\ on' = on
    BY DEF CallEasierProp
  <1>4. UNCHANGED <<subscribed, userActive, hedge, commands, handler, crashes, alone>>
    BY DEF CallEasierProp
  <1> HIDE DEF went, failed
  <1> QED
    BY <1>1, <1>2, <1>3, <1>4

LEMMA WriteAt ==
  ASSUME ServiceInv, WriteHedge
  PROVE  /\ worker.pc = "write" /\ worker'.cmd = worker.cmd /\ worker'.attempts = worker.attempts
         /\ worker'.pc = "complete" /\ hedge' = (IF HasHedge THEN HedgeAfter(Type) ELSE hedge)
         /\ UNCHANGED <<subscribed, userActive, on, commands, handler, crashes, alone>>
  BY DEF WriteHedge, ServiceInv, TypeOK

LEMMA FailAt ==
  ASSUME ServiceInv, StepFails
  PROVE  /\ worker.pc \in {"check", "context", "write", "complete"} /\ worker'.pc = "fail"
         /\ worker'.cmd = worker.cmd /\ worker'.attempts = worker.attempts
         /\ UNCHANGED <<subscribed, userActive, hedge, on, commands, handler, crashes, alone>>
  BY DEF StepFails, ServiceInv, TypeOK

\* Any number of handlers may be under way, but not without end.
LEMMA BusyStep ==
  ASSUME IsFiniteSet(BusyEvents), NEW e \in Events, \A f \in Events : f # e => handler'[f] = handler[f]
  PROVE  IsFiniteSet(BusyEvents')
  <1>1. IsFiniteSet(BusyEvents \cup {e})
    BY FS_AddElement
  <1>2. BusyEvents' \in SUBSET (BusyEvents \cup {e})
    BY DEF BusyEvents, Busy
  <1> QED
    BY <1>1, <1>2, FS_Subset

\* A step of a handler leaves the command that is being executed to the worker.
LEMMA QueueHandler ==
  ASSUME QueueInv, NEW e \in Events, BeginPayment(e) \/ BeginLapse(e) \/ HandlerStep(e)
  PROVE  /\ HandlerPaths' /\ WorkerRuns' /\ IsFiniteSet(BusyEvents')
         /\ UNCHANGED <<hedge, on, worker, crashes>>
         /\ \A f \in Events : f # e => handler'[f] = handler[f]
         /\ handler'[e].pc \notin {"new", "again", "lost"}
  <1>0. TypeOK /\ HandlerPaths /\ WorkerRuns /\ WorkerKnows /\ ServiceInv
    BY DEF QueueInv, ServiceInv
  <1>1. /\ handler'[e].pc \in {"user", "look", "find"} => e \in Payments \cup Lapses
        /\ handler'[e].pc = "cancel" \/ handler'[e].cancelled => e \in Payments
        /\ handler'[e].pc \notin {"new", "again", "lost"}
        /\ \A f \in Events : f # e => handler'[f] = handler[f]
    <2>1. CASE BeginPayment(e) \/ BeginLapse(e)
      <3>1. Goto(e, "user") /\ e \in Payments \cup Lapses
        BY <2>1 DEF BeginPayment, BeginLapse
      <3> QED
        BY <1>0, <3>1, HandlerAt DEF HandlerPaths
    <2>2. CASE WriteUser(e)
      <3>1. /\ Goto(e, "cancel") \/ Goto(e, "look")
            /\ Goto(e, "cancel") => e \in Payments
        <4>1. CASE e \in Payments
          BY <2>2, <4>1 DEF WriteUser
        <4>2. CASE e \notin Payments
          <5>1. Goto(e, "look")
            BY <2>2, <4>2 DEF WriteUser
          <5>2. ~Goto(e, "cancel")
            BY <1>0, <5>1, HandlerAt
          <5> QED
            BY <5>1, <5>2
        <4> QED
          BY <4>1, <4>2
      <3>2. e \in Payments \cup Lapses
        BY <1>0, <2>2 DEF WriteUser, HandlerPaths
      <3> QED
        BY <1>0, <3>1, <3>2, HandlerAt DEF HandlerPaths
    <2>3. CASE CancelStops(e)
      <3>1. e \in Payments
        BY <1>0, <2>3 DEF CancelStops, HandlerPaths
      <3> QED
        BY <1>0, <2>3, <3>1, CancelAt
    <2>4. CASE LookAtHedge(e)
      <3>1. Goto(e, "find") \/ Goto(e, "done")
        BY <2>4 DEF LookAtHedge
      <3>2. e \in Payments \cup Lapses
        BY <1>0, <2>4 DEF LookAtHedge, HandlerPaths
      <3> QED
        BY <1>0, <3>1, <3>2, HandlerAt DEF HandlerPaths
    <2>5. CASE FindDuplicate(e)
      <3>1. Goto(e, "create") \/ Goto(e, "done")
        BY <2>5 DEF FindDuplicate
      <3> QED
        BY <1>0, <3>1, HandlerAt DEF HandlerPaths
    <2>6. CASE CreateCommand(e)
      BY <1>0, <2>6, AddedAt DEF HandlerPaths
    <2> QED
      BY <2>1, <2>2, <2>3, <2>4, <2>5, <2>6 DEF HandlerStep
  <1>2. HandlerPaths'
    BY <1>0, <1>1 DEF HandlerPaths
  <1>3. IsFiniteSet(BusyEvents')
    BY <1>1, BusyStep DEF QueueInv
  <1>4. UNCHANGED <<hedge, on, worker, crashes>>
    BY DEF BeginPayment, BeginLapse, HandlerStep, WriteUser, CancelStops, LookAtHedge, FindDuplicate,
           CreateCommand
  <1>5. WorkerRuns'
    <2> SUFFICES ASSUME worker.pc # "idle"
                 PROVE  /\ commands'[worker.cmd].attempts = commands[worker.cmd].attempts
                        /\ commands'[worker.cmd].type = commands[worker.cmd].type
                        /\ worker.pc # "mark" => commands'[worker.cmd].status = "RUNNING"
      BY <1>0, <1>4 DEF WorkerRuns, Type
    <2>1. worker.cmd \in DOMAIN commands /\ (worker.pc # "mark" => commands[worker.cmd].status = "RUNNING")
      BY <1>0 DEF WorkerKnows, WorkerRuns
    <2>2. CASE CancelStops(e)
      BY <1>0, <2>1, <2>2, CancelAt DEF Cancellable, WithStatus
    <2>3. CASE CreateCommand(e)
      BY <1>0, <2>1, <2>3, AddedAt
    <2>4. CASE commands' = commands
      BY <2>1, <2>4
    <2> QED
      BY <2>2, <2>3, <2>4 DEF BeginPayment, BeginLapse, HandlerStep, WriteUser, LookAtHedge, FindDuplicate
  <1> QED
    BY <1>1, <1>2, <1>3, <1>4, <1>5

LEMMA StepQueue == QueueInv /\ [Next]_vars => QueueInv'
  <1> SUFFICES ASSUME QueueInv, [Next]_vars
               PROVE  HandlerPaths' /\ WorkerRuns' /\ IsFiniteSet(BusyEvents')
    BY StepInv DEF QueueInv
  <1>0. TypeOK /\ HandlerPaths /\ WorkerRuns /\ WorkerKnows /\ ServiceInv /\ IsFiniteSet(BusyEvents)
    BY DEF QueueInv, ServiceInv
  <1>1. handler' = handler => HandlerPaths' /\ IsFiniteSet(BusyEvents')
    BY <1>0 DEF HandlerPaths, BusyEvents, Busy
  <1>2. CASE \E e \in Events : BeginPayment(e) \/ BeginLapse(e) \/ HandlerStep(e)
    BY <1>2, QueueHandler
  <1>3. CASE Requeue
    BY <1>0, <1>1, <1>3, RequeueAt DEF WorkerRuns
  <1>4. CASE StartCommand
    BY <1>0, <1>1, <1>4, StartAt DEF WorkerRuns
  <1>5. CASE MarkRunning
    BY <1>0, <1>1, <1>5, MarkAt DEF WorkerRuns, Type
  <1>6. CASE CheckEntitlement \/ ReadContext \/ CallEasierProp \/ WriteHedge \/ StepFails
    <2>1. /\ UNCHANGED <<handler, commands>> /\ worker.pc \notin {"idle", "mark"}
          /\ worker'.cmd = worker.cmd /\ worker'.attempts = worker.attempts /\ worker'.pc # "check"
      BY <1>0, <1>6, CheckAt, ContextAt, CallAt, WriteAt, FailAt
    <2> QED
      BY <1>0, <1>1, <2>1 DEF WorkerRuns
  <1>7. CASE Complete \/ HandleFailure
    <2>1. handler' = handler /\ worker'.pc = "idle"
      BY <1>0, <1>7, CompleteAt, FailureAt DEF NoCommand
    <2> QED
      BY <1>1, <2>1 DEF WorkerRuns
  <1>8. CASE \E i \in DOMAIN commands : BackoffEnds(i)
    <2>1. PICK i \in DOMAIN commands : BackoffEnds(i)
      BY <1>8
    <2>2. /\ DOMAIN commands' = DOMAIN commands
          /\ \A j \in DOMAIN commands :
               /\ commands'[j].type = commands[j].type /\ commands'[j].attempts = commands[j].attempts
               /\ commands'[j].status = commands[j].status
          /\ UNCHANGED <<handler, worker>>
      BY <1>0, <2>1, BackoffAt
    <2> QED
      BY <1>0, <1>1, <2>2 DEF WorkerRuns, WorkerKnows, Type
  <1>9. CASE Crash
    <2>1. worker'.pc = "idle"
      BY <1>9 DEF Crash, NoCommand
    <2>2. \A e \in Events :
             \/ handler'[e] = handler[e] /\ ~Busy(e)
             \/ handler'[e].pc \in AfterCrash(e) /\ handler'[e].cancelled = FALSE
      BY <1>9 DEF Crash
    <2>3. ASSUME NEW e \in Events
          PROVE  /\ handler'[e].pc \in {"new", "again", "lost", "done"}
                 /\ handler'[e].pc = "again" => e \in Payments \cup Lapses
                 /\ handler'[e].cancelled => e \in Payments
      <3>1. handler[e].pc \in HandlerPCs
        BY <1>0 DEF TypeOK
      <3>2. CASE handler'[e] = handler[e] /\ ~Busy(e)
        BY <1>0, <3>1, <3>2 DEF HandlerPaths, Busy
      <3>3. CASE handler'[e].pc \in AfterCrash(e) /\ handler'[e].cancelled = FALSE
        BY <3>3 DEF Events, AfterCrash
      <3> QED
        BY <2>2, <3>2, <3>3
    <2>4. BusyEvents' = {} /\ HandlerPaths'
      BY <2>3 DEF BusyEvents, Busy, HandlerPaths
    <2> QED
      BY <2>1, <2>4, FS_EmptySet DEF WorkerRuns
  <1>10. CASE UNCHANGED vars
    BY <1>0, <1>1, <1>10 DEF vars, WorkerRuns, Type
  <1> QED
    BY <1>2, <1>3, <1>4, <1>5, <1>6, <1>7, <1>8, <1>9, <1>10 DEF Next, WorkerStep

-----------------------------------------------------------------------------
(* A user whose payment failed is stopped *)

\* No payment of the user was heard of.
Unpaid == \A e \in Payments : handler[e].pc = "new"

Waiting(i) == commands[i].status \in {"PENDING", "RUNNING"}
GivenUp(i) == Exhausted(commands[i].attempts)
Completing(i) == worker.pc = "complete" /\ worker.cmd = i

\* A handler or a command that will stop the user, or a STOP given up.
StopsLater(i) == commands[i].type = "STOP" /\ ((Waiting(i) /\ ~Completing(i)) \/ GivenUp(i))
StopIsComing ==
    \/ \E e \in Lapses : handler[e].pc \notin {"new", "done"}
    \/ \E i \in DOMAIN commands : StopsLater(i)

NoStart == \A i \in DOMAIN commands : commands[i].type # "START"
LapseIsRecorded ==
    /\ ~userActive => ~subscribed
    /\ \A e \in Lapses : handler[e].pc # "new" => ~subscribed
StopFollows == hedge = "active" /\ ~subscribed => StopIsComing
PausedIsOff == hedge = "paused" => on = {}
WorkerTurnsOff ==
    /\ worker.pc = "write" => on = {}
    /\ worker.pc = "call" => on \subseteq worker.todo

LapseInv ==
    Unpaid => NoStart /\ LapseIsRecorded /\ StopFollows /\ PausedIsOff /\ WorkerTurnsOff

LEMMA InitLapse == Init => LapseInv
  <1> SUFFICES ASSUME Init PROVE LapseInv
    OBVIOUS
  <1>1. commands = <<>> /\ worker.pc = "idle" /\ subscribed /\ userActive /\ hedge = "active"
    BY DEF Init, NoCommand
  <1>2. \A e \in Lapses : handler[e].pc = "new"
    BY DEF Init, Events
  <1>3. NoStart /\ StopFollows /\ PausedIsOff /\ WorkerTurnsOff
    BY <1>1 DEF NoStart, StopFollows, PausedIsOff, WorkerTurnsOff
  <1>4. LapseIsRecorded
    BY <1>1, <1>2 DEF LapseIsRecorded
  <1> QED
    BY <1>3, <1>4 DEF LapseInv

\* A step that leaves a STOP in the queue leaves it on its way.
LEMMA StopStays ==
  ASSUME \A i \in DOMAIN commands :
            /\ i \in DOMAIN commands' /\ commands'[i].type = commands[i].type
            /\ GivenUp(i) => GivenUp(i)'
            /\ Waiting(i) /\ ~Completing(i) => (Waiting(i)' /\ ~Completing(i)') \/ GivenUp(i)',
         \E i \in DOMAIN commands : StopsLater(i)
  PROVE  \E i \in DOMAIN commands' : StopsLater(i)'
  BY DEF StopsLater

\* A step of a lapse handler or of a request of the admin.
LEMMA LapseHandler ==
  ASSUME "START" \notin AdminCommands, QueueInv, LapseInv, NEW e \in Events,
         BeginPayment(e) \/ BeginLapse(e) \/ HandlerStep(e)
  PROVE  LapseInv'
  <1> SUFFICES ASSUME Unpaid'
               PROVE  NoStart' /\ LapseIsRecorded' /\ StopFollows' /\ PausedIsOff' /\ WorkerTurnsOff'
    BY DEF LapseInv
  <1>0. TypeOK /\ HandlerPaths /\ WorkerRuns /\ WorkerKnows
    BY DEF QueueInv, ServiceInv
  <1>1. /\ UNCHANGED <<hedge, on, worker, crashes>>
        /\ \A f \in Events : f # e => handler'[f] = handler[f]
        /\ handler'[e].pc \notin {"new", "again"}
    BY QueueHandler
  <1>2. Unpaid /\ e \notin Payments
    <2>1. e \notin Payments
      BY <1>1 DEF Unpaid
    <2> QED
      BY <1>1, <2>1 DEF Unpaid, Events
  <1>3. /\ NoStart /\ LapseIsRecorded /\ StopFollows /\ PausedIsOff /\ WorkerTurnsOff
    BY <1>2 DEF LapseInv
  <1>4. PausedIsOff' /\ WorkerTurnsOff'
    BY <1>1, <1>3 DEF PausedIsOff, WorkerTurnsOff
  <1>5. TypeFor(e) # "START"
    BY <1>2 DEF TypeFor, Events
  <1>6. \A i \in DOMAIN commands : i \in DOMAIN commands' /\ commands'[i] = commands[i]
    <2>1. CASE CreateCommand(e)
      BY <1>0, <2>1, AddedAt
    <2>2. ~CancelStops(e)
      BY <1>0, <1>2 DEF CancelStops, HandlerPaths
    <2>3. CASE commands' = commands
      BY <2>3
    <2> QED
      BY <2>1, <2>2, <2>3 DEF BeginPayment, BeginLapse, HandlerStep, WriteUser, LookAtHedge, FindDuplicate
  <1>7. NoStart'
    <2>1. CASE CreateCommand(e)
      BY <1>0, <1>3, <1>5, <2>1, AddedAt DEF NoStart
    <2>2. ~CancelStops(e)
      BY <1>0, <1>2 DEF CancelStops, HandlerPaths
    <2>3. CASE commands' = commands
      BY <1>3, <2>3 DEF NoStart
    <2> QED
      BY <2>1, <2>2, <2>3 DEF BeginPayment, BeginLapse, HandlerStep, WriteUser, LookAtHedge, FindDuplicate
  <1>8. LapseIsRecorded'
    <2>1. CASE BeginLapse(e)
      BY <2>1 DEF BeginLapse, LapseIsRecorded
    <2>2. CASE WriteUser(e)
      <3>1. e \in Lapses /\ handler[e].pc # "new" /\ subscribed' = subscribed
        BY <1>0, <1>2, <2>2 DEF WriteUser, HandlerPaths
      <3>2. ~subscribed
        BY <1>3, <3>1 DEF LapseIsRecorded
      <3> QED
        BY <3>1, <3>2 DEF LapseIsRecorded
    <2>3. ASSUME handler[e].pc # "new" \/ e \in AdminCommands, UNCHANGED <<subscribed, userActive>>
          PROVE  LapseIsRecorded'
      <3>1. \A f \in Lapses : handler'[f].pc # "new" => handler[f].pc # "new"
        BY <1>1, <2>3, ServiceAssumption DEF Events
      <3> QED
        BY <1>3, <2>3, <3>1 DEF LapseIsRecorded
    <2>4. ~BeginPayment(e) /\ ~CancelStops(e)
      BY <1>0, <1>2 DEF CancelStops, HandlerPaths, BeginPayment
    <2>5. LookAtHedge(e) \/ FindDuplicate(e) \/ CreateCommand(e) =>
             /\ handler[e].pc # "new" \/ e \in AdminCommands
             /\ UNCHANGED <<subscribed, userActive>>
      BY DEF LookAtHedge, FindDuplicate, CreateCommand
    <2> QED
      BY <2>1, <2>2, <2>3, <2>4, <2>5 DEF HandlerStep
  <1>9. StopFollows'
    <2> SUFFICES ASSUME hedge' = "active", ~subscribed'
                 PROVE  StopIsComing'
      BY DEF StopFollows
    <2>1. ASSUME \E i \in DOMAIN commands : StopsLater(i)
          PROVE  StopIsComing'
      <3>1. \E i \in DOMAIN commands' : StopsLater(i)'
        BY <1>1, <1>6, <2>1, StopStays DEF Waiting, GivenUp, Completing
      <3> QED
        BY <3>1 DEF StopIsComing
    <2>2. CASE e \in Lapses /\ handler'[e].pc # "done"
      BY <1>1, <2>2 DEF StopIsComing
    <2>3. CASE e \in Lapses /\ handler'[e].pc = "done"
      <3>1. CASE LookAtHedge(e)
        <4>1. Wanted(e)
          BY <1>1, <1>2 DEF Wanted
        <4>2. Goto(e, "find")
          BY <3>1, <4>1 DEF LookAtHedge
        <4> QED
          BY <1>0, <2>3, <4>2, HandlerAt
      <3>2. CASE FindDuplicate(e)
        <4>1. CASE \E i \in WithStatus("PENDING") : commands[i].type = TypeFor(e)
          <5>1. PICK i \in DOMAIN commands : commands[i].status = "PENDING" /\ commands[i].type = TypeFor(e)
            BY <4>1 DEF WithStatus
          <5>2. TypeFor(e) = "STOP"
            BY <1>2, <2>3 DEF TypeFor
          <5>3. ~Completing(i)
            BY <1>0, <5>1 DEF Completing, WorkerRuns
          <5> QED
            BY <2>1, <5>1, <5>2, <5>3 DEF StopsLater, Waiting
        <4>2. CASE ~\E i \in WithStatus("PENDING") : commands[i].type = TypeFor(e)
          <5>1. Goto(e, "create")
            BY <3>2, <4>2 DEF FindDuplicate
          <5> QED
            BY <1>0, <2>3, <5>1, HandlerAt
        <4> QED
          BY <4>1, <4>2
      <3>3. CASE CreateCommand(e)
        <4>1. TypeFor(e) = "STOP"
          BY <1>2, <2>3 DEF TypeFor
        <4>2. PICK i \in DOMAIN commands' :
                 i \notin DOMAIN commands /\ commands'[i].type = "STOP" /\ commands'[i].status = "PENDING"
          BY <1>0, <3>3, <4>1, AddedAt
        <4>3. ~Completing(i)'
          BY <1>0, <1>1, <4>2 DEF Completing, WorkerKnows
        <4>4. StopsLater(i)'
          BY <4>2, <4>3 DEF StopsLater, Waiting
        <4> QED
          BY <4>2, <4>4 DEF StopIsComing
      <3>4. CASE BeginLapse(e)
        <4>1. Goto(e, "user")
          BY <3>4 DEF BeginLapse
        <4> QED
          BY <1>0, <2>3, <4>1, HandlerAt
      <3>5. CASE WriteUser(e)
        <4>1. Goto(e, "look")
          BY <1>2, <3>5 DEF WriteUser
        <4> QED
          BY <1>0, <2>3, <4>1, HandlerAt
      <3>6. ~BeginPayment(e) /\ ~CancelStops(e)
        BY <1>0, <1>2 DEF CancelStops, HandlerPaths, BeginPayment
      <3> QED
        BY <3>1, <3>2, <3>3, <3>4, <3>5, <3>6 DEF HandlerStep
    <2>4. CASE e \notin Lapses
      <3>1. subscribed' = subscribed
        BY <1>2, <2>4 DEF BeginLapse, BeginPayment, HandlerStep, WriteUser, CancelStops, LookAtHedge,
                          FindDuplicate, CreateCommand
      <3>2. StopIsComing
        BY <1>1, <1>3, <3>1 DEF StopFollows
      <3>3. CASE \E f \in Lapses : handler[f].pc \notin {"new", "done"}
        BY <1>1, <2>4, <3>3 DEF StopIsComing, Events
      <3> QED
        BY <2>1, <3>2, <3>3 DEF StopIsComing
    <2> QED
      BY <2>2, <2>3, <2>4
  <1> QED
    BY <1>4, <1>7, <1>8, <1>9

\* What the worker and the end of a backoff leave of the commands.
LEMMA WorkerLeaves ==
  ASSUME QueueInv, Requeue \/ StartCommand \/ WorkerStep \/ (\E i \in DOMAIN commands : BackoffEnds(i))
  PROVE  /\ DOMAIN commands' = DOMAIN commands
         /\ \A i \in DOMAIN commands :
               /\ commands'[i].type = commands[i].type
               /\ GivenUp(i) => GivenUp(i)'
               /\ Waiting(i) => Waiting(i)' \/ GivenUp(i)' \/ (Complete /\ i = worker.cmd)
  <1>0. TypeOK /\ WorkerRuns /\ WorkerKnows /\ ServiceInv
    BY DEF QueueInv, ServiceInv
  <1>1. CASE Requeue
    BY <1>0, <1>1, RequeueAt DEF GivenUp, Waiting
  <1>2. CASE StartCommand
    BY <1>0, <1>2, StartAt DEF GivenUp, Waiting
  <1>3. CASE MarkRunning
    BY <1>0, <1>3, MarkAt DEF GivenUp, Waiting, Type
  <1>4. CASE CheckEntitlement
    BY <1>0, <1>4, CheckAt DEF GivenUp, Waiting
  <1>5. CASE ReadContext
    BY <1>0, <1>5, ContextAt DEF GivenUp, Waiting
  <1>6. CASE CallEasierProp
    BY <1>0, <1>6, CallAt DEF GivenUp, Waiting
  <1>7. CASE WriteHedge
    BY <1>0, <1>7, WriteAt DEF GivenUp, Waiting
  <1>8. CASE Complete
    BY <1>0, <1>8, CompleteAt DEF GivenUp, Waiting, Type
  <1>9. CASE HandleFailure
    <2>1. PICK c \in DOMAIN commands, n \in Nat : c = worker.cmd /\ n = worker.attempts
      BY <1>0, <1>9, FailureAt DEF TypeOK
    <2>2. /\ worker.pc = "fail" /\ worker' = NoCommand /\ DOMAIN commands' = DOMAIN commands
          /\ commands'[c].status = (IF Exhausted(n + 1) THEN "FAILED" ELSE "PENDING")
          /\ commands'[c].type = commands[c].type /\ commands'[c].attempts = n + 1
          /\ \A j \in DOMAIN commands : j # c => commands'[j] = commands[j]
      BY <1>0, <1>9, <2>1, FailureAt DEF Type
    <2>3. n = commands[c].attempts /\ (Exhausted(n) => Exhausted(n + 1))
      BY <1>0, <2>1, <2>2, ServiceAssumption DEF WorkerRuns, Exhausted
    <2>4. (GivenUp(c) => GivenUp(c)') /\ (Waiting(c)' \/ GivenUp(c)')
      BY <2>2, <2>3 DEF GivenUp, Waiting
    <2>5. \A i \in DOMAIN commands : i # c => (GivenUp(i) => GivenUp(i)') /\ (Waiting(i) => Waiting(i)')
      BY <2>2 DEF GivenUp, Waiting
    <2> QED
      BY <2>2, <2>4, <2>5
  <1>10. CASE \E i \in DOMAIN commands : BackoffEnds(i)
    BY <1>0, <1>10, BackoffAt DEF GivenUp, Waiting
  <1>11. CASE StepFails
    BY <1>0, <1>11, FailAt DEF GivenUp, Waiting
  <1> QED
    BY <1>1, <1>2, <1>3, <1>4, <1>5, <1>6, <1>7, <1>8, <1>9, <1>10, <1>11 DEF WorkerStep

\* A step of the worker, or the end of a backoff.
LEMMA LapseWorker ==
  ASSUME QueueInv, LapseInv, Requeue \/ StartCommand \/ WorkerStep
                             \/ (\E i \in DOMAIN commands : BackoffEnds(i))
  PROVE  LapseInv'
  <1> SUFFICES ASSUME Unpaid'
               PROVE  NoStart' /\ LapseIsRecorded' /\ StopFollows' /\ PausedIsOff' /\ WorkerTurnsOff'
    BY DEF LapseInv
  <1>0. TypeOK /\ WorkerRuns /\ WorkerKnows /\ ServiceInv
    BY DEF QueueInv, ServiceInv
  <1>1. UNCHANGED <<handler, subscribed, userActive>>
    BY DEF Requeue, StartCommand, WorkerStep, MarkRunning, CheckEntitlement, ReadContext, CallEasierProp,
           WriteHedge, Complete, StepFails, HandleFailure, BackoffEnds
  <1>2. Unpaid
    BY <1>1 DEF Unpaid
  <1>3. NoStart /\ LapseIsRecorded /\ StopFollows /\ PausedIsOff /\ WorkerTurnsOff
    BY <1>2 DEF LapseInv
  <1>4. LapseIsRecorded'
    BY <1>1, <1>3 DEF LapseIsRecorded
  <1>5. worker.pc # "idle" => Type \in {"STOP", "DELETE"}
    <2> SUFFICES ASSUME worker.pc # "idle" PROVE Type \in {"STOP", "DELETE"}
      OBVIOUS
    <2>1. worker.cmd \in DOMAIN commands
      BY <1>0 DEF WorkerKnows
    <2>2. commands[worker.cmd] \in Command
      BY <1>0, <2>1, InQueue
    <2> QED
      BY <1>3, <2>1, <2>2 DEF Type, Command, Types, NoStart
  <1>6. DOMAIN commands' = DOMAIN commands /\ \A i \in DOMAIN commands : commands'[i].type = commands[i].type
    BY WorkerLeaves
  <1>6a. ASSUME NEW i \in DOMAIN commands, Waiting(i), ~Completing(i), ~(CheckEntitlement /\ Entitled), ~WriteHedge
         PROVE  (Waiting(i)' /\ ~Completing(i)') \/ GivenUp(i)'
    <2>1. worker.pc # "complete" \/ i # worker.cmd
      BY <1>6a DEF Completing
    <2>2. Waiting(i)' \/ GivenUp(i)'
      BY <1>6a, <2>1, WorkerLeaves DEF Complete
    <2>3. worker' = worker \/ worker'.pc # "complete"
      <3>1. CASE StartCommand
        BY <1>0, <3>1, StartAt
      <3>2. CASE MarkRunning
        BY <1>0, <3>2, MarkAt
      <3>3. CASE CheckEntitlement
        BY <1>0, <1>6a, <3>3, CheckAt
      <3>4. CASE ReadContext
        BY <1>0, <3>4, ContextAt
      <3>5. CASE CallEasierProp
        BY <1>0, <3>5, CallAt
      <3>6. Complete \/ HandleFailure => worker'.pc = "idle"
        BY DEF Complete, HandleFailure, NoCommand
      <3>7. Requeue \/ (\E j \in DOMAIN commands : BackoffEnds(j)) => worker' = worker
        BY DEF Requeue, BackoffEnds
      <3>8. CASE StepFails
        BY <1>0, <3>8, FailAt
      <3> QED
        BY <1>6a, <3>1, <3>2, <3>3, <3>4, <3>5, <3>6, <3>7, <3>8 DEF WorkerStep
    <2> QED
      BY <2>1, <2>2, <2>3 DEF Completing
  <1>7. NoStart'
    BY <1>3, <1>6 DEF NoStart
  <1>8. WriteHedge => hedge' # "active"
    <2> SUFFICES ASSUME WriteHedge PROVE hedge' # "active"
      OBVIOUS
    <2>1. worker.pc = "write" /\ hedge' = (IF HasHedge THEN HedgeAfter(Type) ELSE hedge)
      BY <1>0, WriteAt
    <2> QED
      BY <1>5, <2>1 DEF HasHedge, HedgeAfter
  <1>9. ~WriteHedge => hedge' = hedge
    BY DEF Requeue, StartCommand, WorkerStep, MarkRunning, CheckEntitlement, ReadContext, CallEasierProp,
           Complete, StepFails, HandleFailure, BackoffEnds
  <1>10. StopFollows'
    <2> SUFFICES ASSUME hedge' = "active", ~subscribed'
                 PROVE  StopIsComing'
      BY DEF StopFollows
    <2>1. ~WriteHedge /\ ~Entitled
      BY <1>1, <1>8 DEF Entitled
    <2>2. StopIsComing
      BY <1>1, <1>3, <1>9, <2>1 DEF StopFollows
    <2>3. (\E i \in DOMAIN commands : StopsLater(i)) => \E i \in DOMAIN commands' : StopsLater(i)'
      BY <1>6, <1>6a, <2>1, WorkerLeaves, StopStays
    <2> QED
      BY <1>1, <2>2, <2>3 DEF StopIsComing
  <1>11. on' = {} \/ on' = on \/ CallEasierProp
    BY DEF Requeue, StartCommand, WorkerStep, MarkRunning, CheckEntitlement, ReadContext,
           WriteHedge, Complete, StepFails, HandleFailure, BackoffEnds
  <1>12. CallEasierProp => on' \subseteq on
    BY <1>0, <1>5, CallAt
  <1>13. PausedIsOff'
    <2>1. CASE WriteHedge
      BY <1>0, <1>3, <2>1, WriteAt DEF PausedIsOff, WorkerTurnsOff
    <2>2. CASE ~WriteHedge
      BY <1>3, <1>9, <1>11, <1>12, <2>2 DEF PausedIsOff
    <2> QED
      BY <2>1, <2>2
  <1>14. WorkerTurnsOff'
    <2>1. CASE CallEasierProp
      BY <1>0, <1>3, <1>5, <2>1, CallAt DEF WorkerTurnsOff
    <2>2. CASE ReadContext
      BY <1>0, <2>2, ContextAt DEF WorkerTurnsOff, TypeOK
    <2>3. worker'.pc \notin {"call", "write"} \/ UNCHANGED <<worker, on>> \/ CallEasierProp \/ ReadContext
      <3>1. CASE MarkRunning
        BY <1>0, <3>1, MarkAt
      <3>2. CASE CheckEntitlement
        BY <1>0, <3>2, CheckAt
      <3>3. CASE WriteHedge
        BY <1>0, <3>3, WriteAt
      <3>4. CASE StartCommand
        BY <1>0, <3>4, StartAt
      <3>5. Complete \/ HandleFailure => worker'.pc = "idle"
        BY DEF Complete, HandleFailure, NoCommand
      <3>6. Requeue \/ (\E i \in DOMAIN commands : BackoffEnds(i)) => UNCHANGED <<worker, on>>
        BY DEF Requeue, BackoffEnds
      <3>7. CASE StepFails
        BY <1>0, <3>7, FailAt
      <3> QED
        BY <3>1, <3>2, <3>3, <3>4, <3>5, <3>6, <3>7 DEF WorkerStep
    <2> QED
      BY <1>3, <2>1, <2>2, <2>3 DEF WorkerTurnsOff
  <1> QED
    BY <1>4, <1>7, <1>10, <1>13, <1>14

LEMMA LapseCrash == QueueInv /\ LapseInv /\ Crash => LapseInv'
  <1> SUFFICES ASSUME QueueInv, LapseInv, Crash, Unpaid'
               PROVE  NoStart' /\ LapseIsRecorded' /\ StopFollows' /\ PausedIsOff' /\ WorkerTurnsOff'
    BY DEF LapseInv
  <1>1. /\ UNCHANGED <<subscribed, userActive, hedge, on, commands>> /\ worker'.pc = "idle"
        /\ \A e \in Events :
              \/ handler'[e] = handler[e] /\ ~Busy(e)
              \/ handler'[e].pc \in AfterCrash(e) /\ Busy(e)
    BY DEF Crash, NoCommand
  <1>2. \A e \in Payments \cup Lapses :
           /\ handler'[e].pc = "new" <=> handler[e].pc = "new"
           /\ handler[e].pc \notin {"new", "done"} => handler'[e].pc \notin {"new", "done"}
    <2> SUFFICES ASSUME NEW e \in Payments \cup Lapses
                 PROVE  /\ handler'[e].pc = "new" <=> handler[e].pc = "new"
                        /\ handler[e].pc \notin {"new", "done"} => handler'[e].pc \notin {"new", "done"}
      OBVIOUS
    <2>1. e \in Events
      BY DEF Events
    <2>2. handler'[e] = handler[e] \/ (Busy(e) /\ handler'[e].pc \in {"again", "lost"})
      BY <1>1, <2>1 DEF AfterCrash
    <2> QED
      BY <2>2 DEF Busy
  <1>3. Unpaid
    BY <1>2 DEF Unpaid
  <1>4. NoStart /\ LapseIsRecorded /\ StopFollows /\ PausedIsOff /\ WorkerTurnsOff
    BY <1>3 DEF LapseInv
  <1>5. NoStart' /\ LapseIsRecorded' /\ PausedIsOff' /\ WorkerTurnsOff'
    BY <1>1, <1>2, <1>4 DEF NoStart, LapseIsRecorded, PausedIsOff, WorkerTurnsOff
  <1>6. (\E i \in DOMAIN commands : StopsLater(i)) => \E i \in DOMAIN commands' : StopsLater(i)'
    BY <1>1, StopStays DEF Waiting, GivenUp, Completing
  <1>7. StopFollows'
    BY <1>1, <1>2, <1>4, <1>6 DEF StopFollows, StopIsComing
  <1> QED
    BY <1>5, <1>7

\* A user whose payment failed is stopped once the queue is empty, unless a
\* payment or the admin put a START in it or the process died on a lapse that
\* the cron does not find again: however many activities overlap, fail or
\* crash, a STOP of applyPaymentFailure waits in the queue until it is executed
\* or given up.
THEOREM LapsedUsersAreStopped ==
  ASSUME "START" \notin AdminCommands
  PROVE  Spec => []LapsedUserStopped
  <1>1. Init => QueueInv /\ LapseInv
    BY InitQueue, InitLapse
  <1>2. QueueInv /\ LapseInv /\ [Next]_vars => (QueueInv /\ LapseInv)'
    <2> SUFFICES ASSUME QueueInv, LapseInv, [Next]_vars PROVE LapseInv'
      BY StepQueue
    <2>1. CASE UNCHANGED vars
      BY <2>1 DEF vars, LapseInv, Unpaid, NoStart, LapseIsRecorded, StopFollows, StopIsComing, StopsLater,
                  Waiting, GivenUp, Completing, PausedIsOff, WorkerTurnsOff
    <2>2. CASE \E e \in Events : BeginPayment(e) \/ BeginLapse(e) \/ HandlerStep(e)
      BY <2>2, LapseHandler
    <2>3. CASE Requeue \/ StartCommand \/ WorkerStep \/ (\E i \in DOMAIN commands : BackoffEnds(i))
      BY <2>3, LapseWorker
    <2>4. CASE Crash
      BY <2>4, LapseCrash
    <2> QED
      BY <2>1, <2>2, <2>3, <2>4 DEF Next
  <1>3. QueueInv /\ LapseInv => LapsedUserStopped
    <2> SUFFICES ASSUME QueueInv, LapseInv, Quiet, ~Entitled, hedge # "archived", Unpaid,
                        \A e \in Lapses : handler[e].pc # "lost"
                 PROVE  Off
      BY DEF LapsedUserStopped, Unpaid
    <2>1. LapseIsRecorded /\ StopFollows /\ PausedIsOff
      BY DEF LapseInv
    <2>2. ~subscribed
      BY <2>1 DEF LapseIsRecorded, Entitled
    <2>3. \A e \in Lapses : handler[e].pc \in {"new", "done"}
      BY NoneActive DEF QueueInv, Quiet, Busy, Events
    <2>4. \A i \in DOMAIN commands : ~StopsLater(i)
      BY DEF Quiet, StopsLater, Waiting, GivenUp, WithStatus
    <2>5. hedge # "active"
      BY <2>1, <2>2, <2>3, <2>4 DEF StopFollows, StopIsComing
    <2>6. hedge = "paused"
      BY <2>5 DEF QueueInv, ServiceInv, TypeOK, HedgeStatuses
    <2> QED
      BY <2>1, <2>6 DEF Off, PausedIsOff
  <1> QED
    BY <1>1, <1>2, <1>3, PTL DEF Spec

-----------------------------------------------------------------------------
(* A user who pays is served *)

\* A command of one of the types is still to be executed, or one was given up.
Coming(types) ==
    \E i \in DOMAIN commands : GivenUp(i) \/ (Waiting(i) /\ commands[i].type \in types)

OneAtATime ==
    /\ \A e, f \in Events : Busy(e) /\ Busy(f) => e = f
    /\ \A e \in Events : Busy(e) => worker.pc = "idle"
    /\ \A i \in DOMAIN commands :
          commands[i].status = "RUNNING" => worker.pc # "idle" /\ worker.cmd = i

\* A payment cancels the STOPs that wait before it looks at the hedge setup.
StopsAreCancelled ==
    /\ \A e \in Events : handler[e].pc \in {"new", "again", "user", "cancel"} => ~handler[e].cancelled
    /\ \A e \in Payments : handler[e].pc = "look" => Cancellable = {}

\* What the worker has done of its command.
CommandActs ==
    /\ worker.pc \in {"context", "call", "write"} /\ Type = "STOP" => ~Entitled
    /\ worker.pc = "call" /\ Type = "START" => Kinds \ worker.todo \subseteq on
    /\ worker.pc = "write" /\ Type = "START" => on = Kinds
    /\ worker.pc = "complete" /\ Type = "START" /\ hedge # "archived" => Served
    /\ worker.pc = "complete" /\ Type = "STOP" => hedge # "active" \/ Entitled
    /\ worker.pc = "complete" /\ Type = "DELETE" => hedge = "archived"

\* An account that is off belongs to a command, or to a payment that has
\* cancelled the command.
OffIsExplained ==
    hedge = "active" /\ on # Kinds =>
        Coming(Types) \/ \E e \in Payments : Busy(e) /\ handler[e].cancelled
PayerIsServed ==
    Entitled /\ hedge # "archived" /\ (\A e \in Payments : ~Busy(e)) =>
        Served \/ Coming({"START", "DELETE"})

PayInv ==
    alone => OneAtATime /\ StopsAreCancelled /\ CommandActs /\ OffIsExplained /\ PayerIsServed

LEMMA InitPay == Init => PayInv
  <1> SUFFICES ASSUME Init PROVE PayInv
    OBVIOUS
  <1>1. commands = <<>> /\ worker.pc = "idle" /\ hedge = "active" /\ on = Kinds
    BY DEF Init, NoCommand
  <1>2. \A e \in Events : handler[e].pc = "new" /\ ~handler[e].cancelled
    BY DEF Init
  <1>3. OneAtATime /\ StopsAreCancelled
    BY <1>1, <1>2 DEF OneAtATime, StopsAreCancelled, Busy, Events
  <1>4. CommandActs /\ OffIsExplained /\ PayerIsServed
    BY <1>1 DEF CommandActs, OffIsExplained, PayerIsServed, Served
  <1> QED
    BY <1>3, <1>4 DEF PayInv

LEMMA ComingStays ==
  ASSUME NEW types,
         \A i \in DOMAIN commands :
            /\ i \in DOMAIN commands' /\ commands'[i].type = commands[i].type
            /\ GivenUp(i) => GivenUp(i)'
            /\ Waiting(i) => Waiting(i)' \/ GivenUp(i)',
         Coming(types)
  PROVE  Coming(types)'
  BY DEF Coming

\* When a handler moves on and nothing overlaps, it is alone.
LEMMA AloneHandler ==
  ASSUME QueueInv, PayInv, NEW e \in Events, alone',
         BeginPayment(e) \/ BeginLapse(e) \/ HandlerStep(e)
  PROVE  /\ alone /\ worker.pc = "idle"
         /\ \A f \in Events : f # e => ~Busy(f)
         /\ \A i \in DOMAIN commands : commands[i].status # "RUNNING"
  <1>1. alone /\ (Busy(e) \/ Active = 0)
    BY DEF BeginPayment, BeginLapse, HandlerStep, WriteUser, CancelStops, LookAtHedge, FindDuplicate,
           CreateCommand, Note, Busy
  <1>2. OneAtATime
    BY <1>1 DEF PayInv
  <1>3. worker.pc = "idle" /\ \A f \in Events : f # e => ~Busy(f)
    <2>1. CASE Busy(e)
      BY <1>2, <2>1 DEF OneAtATime
    <2>2. CASE Active = 0
      BY <2>2, NoneActive DEF QueueInv
    <2> QED
      BY <1>1, <2>1, <2>2
  <1> QED
    BY <1>1, <1>2, <1>3 DEF OneAtATime

LEMMA PayHandler ==
  ASSUME QueueInv, PayInv, NEW e \in Events, BeginPayment(e) \/ BeginLapse(e) \/ HandlerStep(e)
  PROVE  PayInv'
  <1> SUFFICES ASSUME alone'
               PROVE  OneAtATime' /\ StopsAreCancelled' /\ CommandActs' /\ OffIsExplained' /\ PayerIsServed'
    BY DEF PayInv
  <1>0. TypeOK /\ HandlerPaths
    BY DEF QueueInv, ServiceInv
  <1>1. /\ alone /\ worker.pc = "idle"
        /\ \A f \in Events : f # e => ~Busy(f)
        /\ \A i \in DOMAIN commands : commands[i].status # "RUNNING"
    BY AloneHandler
  <1>2. OneAtATime /\ StopsAreCancelled /\ CommandActs /\ OffIsExplained /\ PayerIsServed
    BY <1>1 DEF PayInv
  <1>3. /\ UNCHANGED <<hedge, on, worker>>
        /\ \A f \in Events : f # e => handler'[f] = handler[f] /\ ~Busy(f)'
    BY <1>1, QueueHandler DEF Busy
  <1>4. CASE CancelStops(e)
    <2>1. /\ handler'[e].pc = "look" /\ handler'[e].cancelled = (Cancellable # {})
          /\ DOMAIN commands' = DOMAIN commands
          /\ \A i \in DOMAIN commands :
                /\ commands'[i].type = commands[i].type /\ commands'[i].attempts = commands[i].attempts
                /\ i \in Cancellable => commands'[i].status = "FAILED"
                /\ i \notin Cancellable => commands'[i] = commands[i]
      BY <1>0, <1>4, CancelAt
    <2>2. e \in Payments /\ handler[e].pc = "cancel" /\ ~handler[e].cancelled
      BY <1>0, <1>2, <1>4 DEF CancelStops, HandlerPaths, StopsAreCancelled
    <2>3. Cancellable' = {}
      BY <2>1 DEF Cancellable, WithStatus
    <2>4. OneAtATime'
      BY <1>1, <1>3, <2>1 DEF OneAtATime
    <2>5. StopsAreCancelled'
      BY <1>2, <1>3, <2>1, <2>3 DEF StopsAreCancelled
    <2>6. CommandActs'
      BY <1>1, <1>3 DEF CommandActs
    <2>7. OffIsExplained'
      <3> SUFFICES ASSUME hedge = "active", on # Kinds, Cancellable = {}
                   PROVE  Coming(Types)'
        BY <1>3, <2>1, <2>2 DEF OffIsExplained, Busy
      <3>1. ~ \E f \in Payments : Busy(f) /\ handler[f].cancelled
        BY <1>1, <2>2 DEF Events
      <3>2. Coming(Types)
        BY <1>2, <3>1 DEF OffIsExplained
      <3> QED
        BY <2>1, <3>2 DEF Coming, GivenUp, Waiting
    <2>8. PayerIsServed'
      BY <2>1, <2>2 DEF PayerIsServed, Busy
    <2> QED
      BY <2>4, <2>5, <2>6, <2>7, <2>8
  <1>5. CASE ~CancelStops(e)
    <2>1. \A i \in DOMAIN commands : i \in DOMAIN commands' /\ commands'[i] = commands[i]
      <3>1. CASE CreateCommand(e)
        BY <1>0, <3>1, AddedAt
      <3>2. CASE commands' = commands
        BY <3>2
      <3> QED
        BY <1>5, <3>1, <3>2 DEF BeginPayment, BeginLapse, HandlerStep, WriteUser, LookAtHedge, FindDuplicate
    <2>2. /\ Coming(Types) => Coming(Types)'
          /\ Coming({"START", "DELETE"}) => Coming({"START", "DELETE"})'
      BY <2>1, ComingStays DEF GivenUp, Waiting
    <2>3. /\ handler'[e].cancelled = handler[e].cancelled
          /\ handler'[e].pc \in {"new", "again", "user", "cancel"} =>
                handler[e].pc \in {"new", "again", "user", "cancel"}
          /\ e \in Payments => handler'[e].pc # "look"
      <3>1. CASE \E pc : Goto(e, pc)
        <4>1. PICK pc : Goto(e, pc)
          BY <3>1
        <4>2. handler'[e].pc = pc /\ handler'[e].cancelled = handler[e].cancelled
          BY <1>0, <4>1, HandlerAt
        <4>3. CASE BeginPayment(e) \/ BeginLapse(e)
          <5>1. Goto(e, "user") /\ handler[e].pc \in {"new", "again"}
            BY <4>3 DEF BeginPayment, BeginLapse, MayBegin
          <5>2. handler'[e].pc = "user" /\ handler'[e].cancelled = handler[e].cancelled
            BY <1>0, <5>1, HandlerAt
          <5> QED
            BY <5>1, <5>2
        <4>4. CASE WriteUser(e)
          <5>1. Goto(e, IF e \in Payments THEN "cancel" ELSE "look") /\ handler[e].pc = "user"
            BY <4>4 DEF WriteUser
          <5>2. /\ handler'[e].pc = (IF e \in Payments THEN "cancel" ELSE "look")
                /\ handler'[e].cancelled = handler[e].cancelled
            BY <1>0, <5>1, HandlerAt
          <5> QED
            BY <5>1, <5>2
        <4>5. CASE LookAtHedge(e) \/ FindDuplicate(e) \/ CreateCommand(e)
          <5>1. Goto(e, "find") \/ Goto(e, "create") \/ Goto(e, "done")
            BY <4>5 DEF LookAtHedge, FindDuplicate, CreateCommand
          <5>2. handler'[e].pc \in {"find", "create", "done"}
            BY <1>0, <5>1, HandlerAt
          <5> QED
            BY <4>2, <5>2
        <4> QED
          BY <1>5, <4>3, <4>4, <4>5 DEF HandlerStep
      <3> QED
        BY <1>5, <3>1 DEF BeginPayment, BeginLapse, HandlerStep, WriteUser, LookAtHedge, FindDuplicate,
                          CreateCommand
    <2>4. OneAtATime'
      <3>1. \A i \in DOMAIN commands' : commands'[i].status # "RUNNING"
        <4>1. CASE CreateCommand(e)
          BY <1>0, <1>1, <4>1, AddedAt
        <4>2. CASE commands' = commands
          BY <1>1, <4>2
        <4> QED
          BY <1>5, <4>1, <4>2 DEF BeginPayment, BeginLapse, HandlerStep, WriteUser, LookAtHedge, FindDuplicate
      <3> QED
        BY <1>1, <1>3, <3>1 DEF OneAtATime
    <2>5. StopsAreCancelled'
      <3>1. \A f \in Payments : handler'[f].pc # "look"
        BY <1>3, <2>3 DEF Events, Busy
      <3> QED
        BY <1>2, <1>3, <2>3, <3>1 DEF StopsAreCancelled
    <2>6. CommandActs'
      BY <1>1, <1>3 DEF CommandActs
    <2>7. OffIsExplained'
      <3> SUFFICES ASSUME hedge = "active", on # Kinds
                   PROVE  Coming(Types)' \/ \E f \in Payments : Busy(f)' /\ handler'[f].cancelled
        BY <1>3 DEF OffIsExplained
      <3>1. CASE Coming(Types)
        BY <2>2, <3>1
      <3>2. CASE ~Coming(Types)
        <4>1. e \in Payments /\ Busy(e) /\ handler[e].cancelled
          BY <1>1, <1>2, <3>2 DEF OffIsExplained, Events
        <4>2. handler'[e].cancelled
          BY <2>3, <4>1
        <4>3. TypeFor(e) = "START"
          BY <4>1, ServiceAssumption DEF TypeFor
        <4>4. CASE handler'[e].pc # "done"
          BY <4>1, <4>2, <4>4, QueueHandler DEF Busy
        <4>5. CASE LookAtHedge(e) /\ handler'[e].pc = "done"
          <5>1. Goto(e, "find")
            BY <4>1, <4>5 DEF LookAtHedge, Wanted
          <5> QED
            BY <1>0, <4>5, <5>1, HandlerAt
        <4>6. CASE FindDuplicate(e) /\ handler'[e].pc = "done"
          <5>1. CASE \E i \in WithStatus("PENDING") : commands[i].type = TypeFor(e)
            BY <3>2, <4>3, <5>1 DEF Coming, WithStatus, Waiting, Types
          <5>2. CASE ~\E i \in WithStatus("PENDING") : commands[i].type = TypeFor(e)
            <6>1. Goto(e, "create")
              BY <4>6, <5>2 DEF FindDuplicate
            <6> QED
              BY <1>0, <4>6, <6>1, HandlerAt
          <5> QED
            BY <5>1, <5>2
        <4>7. CASE CreateCommand(e)
          <5>1. PICK i \in DOMAIN commands' : commands'[i].type = "START" /\ commands'[i].status = "PENDING"
            BY <1>0, <4>3, <4>7, AddedAt
          <5> QED
            BY <5>1 DEF Coming, Waiting, Types
        <4>8. CASE BeginPayment(e) \/ BeginLapse(e) \/ WriteUser(e)
          <5>1. Goto(e, "user") \/ Goto(e, "cancel") \/ Goto(e, "look")
            BY <4>8 DEF BeginPayment, BeginLapse, WriteUser
          <5>2. handler'[e].pc \in {"user", "cancel", "look"}
            BY <1>0, <5>1, HandlerAt
          <5> QED
            BY <4>4, <5>2
        <4> QED
          BY <1>5, <4>4, <4>5, <4>6, <4>7, <4>8 DEF HandlerStep
      <3> QED
        BY <3>1, <3>2
    <2>8. PayerIsServed'
      <3> SUFFICES ASSUME Entitled', hedge # "archived", \A f \in Payments : ~Busy(f)'
                   PROVE  Served \/ Coming({"START", "DELETE"})'
        BY <1>3 DEF PayerIsServed, Served
      <3>1. CASE e \notin Payments
        <4>1. Entitled
          <5>1. ~BeginLapse(e) /\ ~WriteUser(e)
            BY <3>1 DEF BeginLapse, WriteUser, Entitled
          <5> QED
            BY <1>5, <3>1, <5>1 DEF BeginPayment, HandlerStep, LookAtHedge, FindDuplicate, CreateCommand,
                                    Entitled
        <4>2. \A f \in Payments : ~Busy(f)
          BY <1>1, <3>1 DEF Events
        <4> QED
          BY <1>2, <2>2, <4>1, <4>2 DEF PayerIsServed
      <3>2. CASE e \in Payments
        <4>1. TypeFor(e) = "START" /\ handler'[e].pc \in {"new", "again", "lost", "done"}
          BY <3>2, ServiceAssumption DEF TypeFor, Busy
        <4>2. CASE LookAtHedge(e)
          <5>1. CASE Wanted(e)
            <6>1. Goto(e, "find")
              BY <4>2, <5>1 DEF LookAtHedge
            <6> QED
              BY <1>0, <4>1, <6>1, HandlerAt
          <5>2. CASE ~Wanted(e)
            <6>1. hedge = "active" /\ ~handler[e].cancelled /\ handler[e].pc = "look"
              BY <1>0, <3>2, <4>2, <5>2 DEF Wanted, TypeOK, HedgeStatuses, LookAtHedge
            <6>2. CASE on = Kinds
              BY <6>1, <6>2 DEF Served
            <6>3. CASE on # Kinds
              <7>1. Coming(Types)
                BY <1>1, <1>2, <6>1, <6>3 DEF OffIsExplained, Events
              <7>2. PICK i \in DOMAIN commands : GivenUp(i) \/ (Waiting(i) /\ commands[i].type \in Types)
                BY <7>1 DEF Coming
              <7>3. ~(commands[i].status = "PENDING" /\ commands[i].type = "STOP")
                BY <1>2, <3>2, <6>1 DEF StopsAreCancelled, Cancellable, WithStatus
              <7>4. GivenUp(i) \/ (Waiting(i) /\ commands[i].type \in {"START", "DELETE"})
                BY <1>1, <7>2, <7>3 DEF Waiting, Types
              <7>5. Coming({"START", "DELETE"})
                BY <7>4 DEF Coming
              <7> QED
                BY <2>2, <7>5
            <6> QED
              BY <6>2, <6>3
          <5> QED
            BY <5>1, <5>2
        <4>3. CASE FindDuplicate(e)
          <5>1. CASE \E i \in WithStatus("PENDING") : commands[i].type = TypeFor(e)
            <6>1. Coming({"START", "DELETE"})
              BY <4>1, <5>1 DEF Coming, WithStatus, Waiting
            <6> QED
              BY <2>2, <6>1
          <5>2. CASE ~\E i \in WithStatus("PENDING") : commands[i].type = TypeFor(e)
            <6>1. Goto(e, "create")
              BY <4>3, <5>2 DEF FindDuplicate
            <6> QED
              BY <1>0, <4>1, <6>1, HandlerAt
          <5> QED
            BY <5>1, <5>2
        <4>4. CASE CreateCommand(e)
          <5>1. PICK i \in DOMAIN commands' : commands'[i].type = "START" /\ commands'[i].status = "PENDING"
            BY <1>0, <4>1, <4>4, AddedAt
          <5> QED
            BY <5>1 DEF Coming, Waiting
        <4>5. CASE BeginPayment(e) \/ BeginLapse(e) \/ WriteUser(e)
          <5>1. Goto(e, "user") \/ Goto(e, "cancel") \/ Goto(e, "look")
            BY <4>5 DEF BeginPayment, BeginLapse, WriteUser
          <5>2. handler'[e].pc \in {"user", "cancel", "look"}
            BY <1>0, <5>1, HandlerAt
          <5> QED
            BY <4>1, <5>2
        <4> QED
          BY <1>5, <4>2, <4>3, <4>4, <4>5 DEF HandlerStep
      <3> QED
        BY <3>1, <3>2
    <2> QED
      BY <2>4, <2>5, <2>6, <2>7, <2>8
  <1> QED
    BY <1>4, <1>5

LEMMA PayWorker ==
  ASSUME QueueInv, PayInv, Requeue \/ StartCommand \/ WorkerStep
                           \/ (\E i \in DOMAIN commands : BackoffEnds(i))
  PROVE  PayInv'
  <1> SUFFICES ASSUME alone'
               PROVE  OneAtATime' /\ StopsAreCancelled' /\ CommandActs' /\ OffIsExplained' /\ PayerIsServed'
    BY DEF PayInv
  <1>0. TypeOK /\ WorkerRuns /\ WorkerKnows /\ ServiceInv /\ IsFiniteSet(BusyEvents)
    BY DEF QueueInv, ServiceInv
  <1>1. alone /\ UNCHANGED <<handler, subscribed, userActive>> /\ (StartCommand => Active = 0)
    BY DEF Requeue, StartCommand, WorkerStep, MarkRunning, CheckEntitlement, ReadContext, CallEasierProp,
           WriteHedge, Complete, StepFails, HandleFailure, BackoffEnds, Note
  <1>2. OneAtATime /\ StopsAreCancelled /\ CommandActs /\ OffIsExplained /\ PayerIsServed
    BY <1>1 DEF PayInv
  <1>3. ~Requeue
    BY <1>0, <1>2, RequeueAt DEF OneAtATime
  <1>4. WorkerStep \/ StartCommand => \A e \in Events : ~Busy(e)
    <2>1. StartCommand => \A e \in Events : ~Busy(e)
      BY <1>0, <1>1, NoneActive
    <2>2. WorkerStep => worker.pc # "idle"
      BY DEF WorkerStep, MarkRunning, CheckEntitlement, ReadContext, CallEasierProp, WriteHedge, Complete,
             StepFails, HandleFailure
    <2> QED
      BY <1>2, <2>1, <2>2 DEF OneAtATime
  <1>5. worker.pc # "idle" => worker.cmd \in DOMAIN commands /\ Type \in Types
    <2> SUFFICES ASSUME worker.pc # "idle" PROVE worker.cmd \in DOMAIN commands /\ Type \in Types
      OBVIOUS
    <2>1. worker.cmd \in DOMAIN commands
      BY <1>0 DEF WorkerKnows
    <2> QED
      BY <1>0, <2>1, InQueue DEF Type, Command
  <1>6. \* The command that is being executed is one that is coming.
        worker.pc \notin {"idle", "mark"} =>
           /\ Coming(Types)
           /\ Type \in {"START", "DELETE"} => Coming({"START", "DELETE"})
    <2> SUFFICES ASSUME worker.pc \notin {"idle", "mark"}
                 PROVE  /\ Coming(Types)
                        /\ Type \in {"START", "DELETE"} => Coming({"START", "DELETE"})
      OBVIOUS
    <2>1. worker.cmd \in DOMAIN commands /\ Waiting(worker.cmd)
      BY <1>0, <1>5 DEF WorkerRuns, Waiting
    <2> QED
      BY <1>5, <2>1 DEF Coming, Type
  <1>7. ASSUME ~Complete
        PROVE  /\ Coming(Types) => Coming(Types)'
               /\ Coming({"START", "DELETE"}) => Coming({"START", "DELETE"})'
    BY <1>7, WorkerLeaves, ComingStays
  <1>8. CASE \E i \in DOMAIN commands : BackoffEnds(i)
    <2>1. /\ UNCHANGED <<hedge, on, worker, handler, subscribed, userActive>>
          /\ DOMAIN commands' = DOMAIN commands
          /\ \A j \in DOMAIN commands :
               commands'[j].type = commands[j].type /\ commands'[j].status = commands[j].status
      BY <1>0, <1>8, BackoffAt
    <2>2. worker.pc # "idle" => Type' = Type
      BY <1>5, <2>1 DEF Type
    <2>3. OneAtATime'
      BY <1>2, <2>1 DEF OneAtATime, Busy
    <2>4. StopsAreCancelled'
      BY <1>2, <2>1 DEF StopsAreCancelled, Cancellable, WithStatus
    <2>5. CommandActs'
      BY <1>2, <2>1, <2>2 DEF CommandActs, Entitled, Served
    <2>6. /\ Coming(Types) => Coming(Types)'
          /\ Coming({"START", "DELETE"}) => Coming({"START", "DELETE"})'
      <3>1. \A j \in DOMAIN commands : commands'[j].attempts = commands[j].attempts
        BY <1>0, <1>8, BackoffAt
      <3> QED
        BY <2>1, <3>1, ComingStays DEF GivenUp, Waiting
    <2>7. OffIsExplained' /\ PayerIsServed'
      BY <1>2, <2>1, <2>6 DEF OffIsExplained, PayerIsServed, Entitled, Served, Busy
    <2> QED
      BY <2>3, <2>4, <2>5, <2>7
  <1>9. CASE StartCommand
    <2>1. /\ worker'.pc = "mark" /\ UNCHANGED <<subscribed, userActive, hedge, on, commands, handler>>
      BY <1>0, <1>9, StartAt
    <2>2. \A i \in DOMAIN commands : commands[i].status # "RUNNING"
      BY <1>0, <1>2, <1>9, StartAt DEF OneAtATime
    <2>3. OneAtATime' /\ StopsAreCancelled'
      BY <1>2, <1>4, <1>9, <2>1, <2>2 DEF OneAtATime, StopsAreCancelled, Busy, Cancellable, WithStatus
    <2>4. CommandActs'
      BY <2>1 DEF CommandActs
    <2>5. OffIsExplained' /\ PayerIsServed'
      BY <1>2, <2>1 DEF OffIsExplained, PayerIsServed, Coming, GivenUp, Waiting, Entitled, Served, Busy
    <2> QED
      BY <2>3, <2>4, <2>5
  <1>10. CASE WorkerStep
    <2>1. \A e \in Events : ~Busy(e)' /\ ~Busy(e)
      BY <1>1, <1>4, <1>10 DEF Busy
    <2>2. StopsAreCancelled'
      BY <1>1, <1>2, <2>1 DEF StopsAreCancelled, Busy, Events
    <2>3. OneAtATime'
      <3> SUFFICES ASSUME NEW i \in DOMAIN commands', commands'[i].status = "RUNNING"
                   PROVE  worker'.pc # "idle" /\ worker'.cmd = i
        BY <2>1 DEF OneAtATime
      <3>1. CASE MarkRunning
        BY <1>0, <1>2, <3>1, MarkAt DEF OneAtATime
      <3>2. CASE CheckEntitlement \/ ReadContext \/ CallEasierProp \/ WriteHedge \/ StepFails
        <4>1. UNCHANGED commands /\ worker'.pc # "idle" /\ worker'.cmd = worker.cmd
          BY <1>0, <3>2, CheckAt, ContextAt, CallAt, WriteAt, FailAt
        <4> QED
          BY <1>2, <4>1 DEF OneAtATime
      <3>3. CASE Complete
        BY <1>0, <1>2, <3>3, CompleteAt DEF OneAtATime
      <3>4. CASE HandleFailure
        BY <1>0, <1>2, <3>4, FailureAt DEF OneAtATime
      <3> QED
        BY <1>10, <3>1, <3>2, <3>3, <3>4 DEF WorkerStep
    <2>4. CASE MarkRunning
      <3>1. /\ worker.pc = "mark" /\ worker'.cmd = worker.cmd
            /\ commands'[worker.cmd].type = Type
            /\ worker'.pc = (IF Type = "STOP" THEN "check" ELSE "context")
            /\ UNCHANGED <<subscribed, userActive, hedge, on>>
        BY <1>0, <2>4, MarkAt
      <3>2. Type' = Type
        BY <3>1 DEF Type
      <3>3. CommandActs'
        BY <3>1, <3>2 DEF CommandActs
      <3>4. ~Complete
        BY <3>1 DEF Complete
      <3>5. OffIsExplained' /\ PayerIsServed'
        BY <1>1, <1>2, <1>7, <3>1, <3>4 DEF OffIsExplained, PayerIsServed, Entitled, Served, Busy
      <3> QED
        BY <2>2, <2>3, <3>3, <3>5
    <2>5. CASE CheckEntitlement \/ ReadContext
      <3>1. /\ worker.pc \in {"check", "context"} /\ worker'.cmd = worker.cmd
            /\ UNCHANGED <<subscribed, userActive, hedge, on, commands>>
        BY <1>0, <2>5, CheckAt, ContextAt
      <3>2. Type' = Type
        BY <3>1 DEF Type
      <3>3. CommandActs'
        <4>1. CASE CheckEntitlement
          <5>1. worker'.pc = (IF Entitled THEN "complete" ELSE "context") /\ Type = "STOP"
            BY <1>0, <4>1, CheckAt DEF WorkerRuns
          <5> QED
            BY <3>1, <3>2, <5>1 DEF CommandActs, Entitled
        <4>2. CASE ReadContext
          <5>1. /\ worker.pc = "context" /\ worker'.pc \in {"call", "fail"}
                /\ worker'.pc = "call" => worker'.todo = Kinds
            BY <1>0, <4>2, ContextAt
          <5>2. worker.pc = "context" /\ Type = "STOP" => ~Entitled
            BY <1>2 DEF CommandActs
          <5> QED
            BY <3>1, <3>2, <5>1, <5>2 DEF CommandActs, Entitled
        <4> QED
          BY <2>5, <4>1, <4>2
      <3>4. OffIsExplained' /\ PayerIsServed'
        BY <1>1, <1>2, <3>1 DEF OffIsExplained, PayerIsServed, Entitled, Served, Busy, Coming, GivenUp, Waiting
      <3> QED
        BY <2>2, <2>3, <3>3, <3>4
    <2>6. CASE CallEasierProp
      <3>1. /\ worker.pc = "call" /\ worker'.cmd = worker.cmd /\ worker'.pc \in {"call", "write", "fail"}
            /\ worker'.pc \in {"call", "write"} =>
                  /\ on' = (IF Type = "START" THEN on \cup {NextAccount} ELSE on \ {NextAccount})
                  /\ worker'.todo = worker.todo \ {NextAccount}
                  /\ worker'.pc = "write" => worker'.todo = {}
            /\ UNCHANGED <<subscribed, userActive, hedge, commands>>
        BY <1>0, <2>6, CallAt
      <3>2. Type' = Type
        BY <3>1 DEF Type
      <3>3. on \subseteq Kinds /\ NextAccount \in Kinds
        BY <1>0 DEF TypeOK, NextAccount, Kinds
      <3>4. CommandActs'
        <4>1. /\ worker.pc = "call" /\ Type = "STOP" => ~Entitled
              /\ worker.pc = "call" /\ Type = "START" => Kinds \ worker.todo \subseteq on
          BY <1>2 DEF CommandActs
        <4>2. worker'.pc \in {"call", "write"} /\ Type = "START" => Kinds \ worker'.todo \subseteq on'
          BY <3>1, <4>1
        <4>3. worker'.pc = "write" /\ Type = "START" => on' = Kinds
          BY <3>1, <3>3, <4>2
        <4> QED
          BY <3>1, <3>2, <4>1, <4>2, <4>3 DEF CommandActs, Entitled
      <3>5. /\ Coming(Types)'
            /\ Type \in {"START", "DELETE"} => Coming({"START", "DELETE"})'
        BY <1>6, <3>1 DEF Coming, GivenUp, Waiting
      <3>6. OffIsExplained' /\ PayerIsServed'
        BY <1>2, <1>5, <3>1, <3>5 DEF OffIsExplained, PayerIsServed, CommandActs, Entitled, Types
      <3> QED
        BY <2>2, <2>3, <3>4, <3>6
    <2>7. CASE WriteHedge
      <3>1. /\ worker.pc = "write" /\ worker'.cmd = worker.cmd /\ worker'.pc = "complete"
            /\ hedge' = (IF HasHedge THEN HedgeAfter(Type) ELSE hedge)
            /\ UNCHANGED <<subscribed, userActive, on, commands>>
        BY <1>0, <2>7, WriteAt
      <3>2. Type' = Type
        BY <3>1 DEF Type
      <3>3. CommandActs'
        <4>1. Type = "START" => on = Kinds
          BY <1>2, <3>1 DEF CommandActs
        <4>2. /\ Type = "START" /\ hedge' # "archived" => hedge' = "active"
              /\ Type = "STOP" => hedge' # "active"
              /\ Type = "DELETE" => hedge' = "archived"
          BY <3>1 DEF HasHedge, HedgeAfter
        <4> QED
          BY <3>1, <3>2, <4>1, <4>2 DEF CommandActs, Served
      <3>4. /\ Coming(Types)'
            /\ Type \in {"START", "DELETE"} => Coming({"START", "DELETE"})'
        BY <1>6, <3>1 DEF Coming, GivenUp, Waiting
      <3>5. OffIsExplained' /\ PayerIsServed'
        BY <1>2, <1>5, <3>1, <3>4 DEF OffIsExplained, PayerIsServed, CommandActs, Entitled, Types
      <3> QED
        BY <2>2, <2>3, <3>3, <3>5
    <2>8. CASE Complete
      <3>1. PICK c \in DOMAIN commands : c = worker.cmd
        BY <1>0, <2>8, CompleteAt
      <3>2. /\ worker.pc = "complete" /\ worker'.pc = "idle" /\ DOMAIN commands' = DOMAIN commands
            /\ commands'[c].attempts = commands[c].attempts
            /\ \A j \in DOMAIN commands : j # c => commands'[j] = commands[j]
            /\ UNCHANGED <<subscribed, userActive, hedge, on>>
        BY <1>0, <2>8, <3>1, CompleteAt DEF NoCommand
      <3>3. /\ Type = "START" /\ hedge # "archived" => Served
            /\ Type = "STOP" => hedge # "active" \/ Entitled
            /\ Type = "DELETE" => hedge = "archived"
        BY <1>2, <3>2 DEF CommandActs
      <3>4. CommandActs'
        BY <3>2 DEF CommandActs
      <3>5. PayerIsServed'
        <4> SUFFICES ASSUME Entitled, hedge # "archived", ~Served
                     PROVE  Coming({"START", "DELETE"})'
          BY <3>2 DEF PayerIsServed, Entitled, Served
        <4>1. Type = "STOP"
          BY <1>5, <3>2, <3>3 DEF Types
        <4>2. Coming({"START", "DELETE"})
          BY <1>2, <2>1 DEF PayerIsServed, Events
        <4>3. PICK i \in DOMAIN commands :
                 GivenUp(i) \/ (Waiting(i) /\ commands[i].type \in {"START", "DELETE"})
          BY <4>2 DEF Coming
        <4>4. CASE i = c
          BY <3>1, <3>2, <4>1, <4>3, <4>4 DEF Coming, GivenUp, Type
        <4>5. CASE i # c
          BY <3>2, <4>3, <4>5 DEF Coming, GivenUp, Waiting
        <4> QED
          BY <4>4, <4>5
      <3>6. OffIsExplained'
        <4> SUFFICES ASSUME hedge = "active", on # Kinds
                     PROVE  Coming(Types)'
          BY <3>2 DEF OffIsExplained
        <4>1. Entitled
          BY <1>5, <3>2, <3>3 DEF Types, Served
        <4>2. Coming({"START", "DELETE"})'
          BY <2>1, <3>2, <3>5, <4>1 DEF PayerIsServed, Entitled, Served, Events
        <4> QED
          BY <4>2 DEF Coming, Types
      <3> QED
        BY <2>2, <2>3, <3>4, <3>5, <3>6
    <2>9. CASE HandleFailure
      <3>1. worker.pc = "fail" /\ worker'.pc = "idle" /\ UNCHANGED <<subscribed, userActive, hedge, on>>
        BY <1>0, <2>9, FailureAt DEF NoCommand
      <3>2. CommandActs'
        BY <3>1 DEF CommandActs
      <3>3. ~Complete
        BY <3>1 DEF Complete
      <3>4. OffIsExplained' /\ PayerIsServed'
        BY <1>1, <1>2, <1>7, <3>1, <3>3 DEF OffIsExplained, PayerIsServed, Entitled, Served, Busy
      <3> QED
        BY <2>2, <2>3, <3>2, <3>4
    <2>10. CASE StepFails
      <3>1. worker'.pc = "fail" /\ UNCHANGED <<subscribed, userActive, hedge, on, commands>>
        BY <1>0, <2>10, FailAt
      <3>2. CommandActs'
        BY <3>1 DEF CommandActs
      <3>3. OffIsExplained' /\ PayerIsServed'
        BY <1>1, <1>2, <3>1 DEF OffIsExplained, PayerIsServed, Entitled, Served, Busy, Coming, GivenUp, Waiting
      <3> QED
        BY <2>2, <2>3, <3>2, <3>3
    <2> QED
      BY <1>10, <2>4, <2>5, <2>6, <2>7, <2>8, <2>9, <2>10 DEF WorkerStep
  <1> QED
    BY <1>3, <1>8, <1>9, <1>10

\* A user who pays is served once the queue is empty, for any payments,
\* lapses and requests of the admin, as long as no two overlap and none is
\* cut short: reactivateServiceIfPaused fails the STOPs that wait and, when
\* there were any or the hedge setup is paused, enqueues a START.
THEOREM PayingUsersAreServed == Spec => []PayingUserServed
  <1>1. Init => QueueInv /\ PayInv
    BY InitQueue, InitPay
  <1>2. QueueInv /\ PayInv /\ [Next]_vars => (QueueInv /\ PayInv)'
    <2> SUFFICES ASSUME QueueInv, PayInv, [Next]_vars PROVE PayInv'
      BY StepQueue
    <2>1. CASE UNCHANGED vars
      <3>1. UNCHANGED <<subscribed, userActive, hedge, on, commands, handler, worker, alone>>
        BY <2>1 DEF vars
      <3>2. OneAtATime' = OneAtATime /\ StopsAreCancelled' = StopsAreCancelled /\ CommandActs' = CommandActs
        BY <3>1 DEF OneAtATime, StopsAreCancelled, CommandActs, Busy, Cancellable, WithStatus, Type, Entitled,
                    Served
      <3>3. OffIsExplained' = OffIsExplained /\ PayerIsServed' = PayerIsServed
        BY <3>1 DEF OffIsExplained, PayerIsServed, Coming, GivenUp, Waiting, Busy, Entitled, Served
      <3> QED
        BY <3>1, <3>2, <3>3 DEF PayInv
    <2>2. CASE \E e \in Events : BeginPayment(e) \/ BeginLapse(e) \/ HandlerStep(e)
      BY <2>2, PayHandler
    <2>3. CASE Requeue \/ StartCommand \/ WorkerStep \/ (\E i \in DOMAIN commands : BackoffEnds(i))
      BY <2>3, PayWorker
    <2>4. CASE Crash
      BY <2>4 DEF Crash, PayInv
    <2> QED
      BY <2>1, <2>2, <2>3, <2>4 DEF Next
  <1>3. QueueInv /\ PayInv => PayingUserServed
    <2> SUFFICES ASSUME QueueInv, PayInv, Quiet, alone, Entitled, hedge # "archived"
                 PROVE  Served
      BY DEF PayingUserServed
    <2>1. \A e \in Payments : ~Busy(e)
      BY NoneActive DEF QueueInv, Quiet, Events
    <2>2. ~Coming({"START", "DELETE"})
      BY DEF Quiet, Coming, GivenUp, Waiting, WithStatus
    <2> QED
      BY <2>1, <2>2 DEF PayInv, PayerIsServed
  <1> QED
    BY <1>1, <1>2, <1>3, PTL DEF Spec
=============================================================================
