----------------------------- MODULE AccountSync -----------------------------
(***************************************************************************)
(* The trading accounts of one provisioned user after they change: the     *)
(* prop and broker rows that requests write (src/src/modules/prop/prop.-   *)
(* service.ts, src/src/modules/broker/broker.service.ts), and the commands *)
(* that carry the changes to EasierProp, the hedge setup and the           *)
(* provision (src/src/modules/provisioning/service-control.service.ts).    *)
(*                                                                         *)
(* Requests of the client come in between the awaits of the worker, which  *)
(* executes one command of a user at a time.  Some of them write a row and *)
(* send no command: an edit of a prop account, and the forms of the wizard *)
(* (src/src/modules/onboarding/onboarding.service.ts) sent again.          *)
(* ServiceControl has the commands that start and stop the service.        *)
(***************************************************************************)
EXTENDS Naturals, Sequences, TLC

CONSTANTS
    Props,       \* prop accounts the user has or will have
    Brokers,     \* broker accounts
    FirstProp,   \* the ones that were provisioned
    FirstBroker,
    Nobody,      \* the SQL NULL
    Clients,     \* requests under way at the same time
    MaxRequests, \* requests
    MaxTries,    \* MAX_ATTEMPTS, EASIERPROP_MAX_RETRY
    MaxFailures  \* awaits that fail, crashes

Accounts == Props \cup Brokers

ASSUME SyncAssumption ==
    /\ FirstProp \in Props /\ FirstBroker \in Brokers
    /\ Props \cap Brokers = {} /\ Nobody \notin Accounts
    /\ MaxRequests \in Nat /\ MaxTries \in Nat \ {0} /\ MaxFailures \in Nat

VARIABLES
    row,        \* PropAccount and BrokerAccount rows
    recorded,   \* those with an epAccountId
    registered, \* the accounts EasierProp has under the user's key
    provision,  \* EasierPropProvision: its two accounts, and whether it is COMPLETED
    hedge,      \* the hedge setup: its two accounts, and whether it is archived
    commands,   \* the ServiceCommand rows, oldest first
    client,     \* the requests under way
    worker,     \* the command under way and what its executor has read
    requests,   \* requests so far
    failures,   \* failures so far
    raced       \* history: "requests" when two overlapped, "deletion" when a
                \* broker was deleted beside a command, "mistaken" when the
                \* account of a broker that nobody replaced was removed,
                \* "unsynced" when a prop account was edited or sent with the
                \* wizard, "unregistered" when a broker was

rows == <<row, recorded>>
hedging == <<registered, provision, hedge>>
syncVars == <<rows, hedging, commands, client, worker, requests, failures, raced>>

-----------------------------------------------------------------------------
(* State *)

Pair == [prop : Props, broker : Brokers, ended : BOOLEAN]
First == [prop |-> FirstProp, broker |-> FirstBroker, ended |-> FALSE]

Types == {"PROP_ROTATION", "BROKER_REPLACE", "BROKER_ADD", "SET_HEDGE_BROKER", "DELETE"}
OrNobody == Accounts \cup {Nobody}
Command == [type : Types, new : OrNobody, old : OrNobody, attempts : Nat, due : BOOLEAN,
            status : {"PENDING", "RUNNING", "COMPLETED", "FAILED"}]

ClientType == [pc : {"idle", "clear", "create", "archive", "enqueue", "remove"},
               type : Types, new : OrNobody, old : OrNobody, seen : SUBSET Props, form : BOOLEAN]
Idle == [pc |-> "idle", type |-> "DELETE", new |-> Nobody, old |-> Nobody, seen |-> {}, form |-> FALSE]

WorkerType == [pc : {"idle", "context", "find", "register", "record", "remove", "provision", "hedge",
                     "list", "erase", "forget", "end", "complete"},
               cmd : Nat, provision : Pair, hedge : Pair, todo : SUBSET Accounts]
Resting == [pc |-> "idle", cmd |-> 0, provision |-> First, hedge |-> First, todo |-> {}]

Histories == {"requests", "deletion", "mistaken", "unsynced", "unregistered"}

SyncTypeOK ==
    /\ row \in [Accounts -> {"none", "active", "archived", "deleted"}]
    /\ recorded \subseteq Accounts /\ registered \subseteq Accounts
    /\ provision \in Pair /\ hedge \in Pair
    /\ commands \in Seq(Command) /\ client \in [Clients -> ClientType] /\ worker \in WorkerType
    /\ requests \in Nat /\ failures \in Nat /\ raced \subseteq Histories

SyncInit ==
    /\ row = [a \in Accounts |-> IF a \in {FirstProp, FirstBroker} THEN "active" ELSE "none"]
    /\ recorded = {FirstProp, FirstBroker} /\ registered = recorded
    /\ provision = First /\ hedge = First
    /\ commands = <<>>
    /\ client = [k \in Clients |-> Idle] /\ worker = Resting
    /\ requests = 0 /\ failures = 0 /\ raced = {}

-----------------------------------------------------------------------------
(* Requests of the client, and DELETE by an administrator *)

WithStatus(status) == {i \in DOMAIN commands : commands[i].status = status}
Unfinished == WithStatus("PENDING") \cup WithStatus("RUNNING")

Exists(a) == row[a] \in {"active", "archived"}
InUse(a) == row[a] # "none" \/ \E k \in Clients : client[k].new = a /\ client[k].pc # "idle"

Overlaps == \E j \in Clients : client[j].pc # "idle"

Begin(k, request) ==
    /\ client[k].pc = "idle" /\ requests < MaxRequests
    /\ client' = [client EXCEPT ![k] = request]
    /\ requests' = requests + 1
    /\ raced' = raced \cup (IF Overlaps THEN {"requests"} ELSE {})
           \cup (IF request.pc = "remove" /\ (Overlaps \/ Unfinished # {}) THEN {"deletion"} ELSE {})
           \cup (IF request.form /\ request.type = "PROP_ROTATION" THEN {"unsynced"} ELSE {})
           \cup (IF request.form /\ request.type = "BROKER_ADD" THEN {"unregistered"} ELSE {})
    /\ UNCHANGED <<rows, hedging, commands, worker, failures>>

Request(pc, type, new, old) == [Idle EXCEPT !.pc = pc, !.type = type, !.new = new, !.old = old]

\* createPropAccount lists the accounts that are active ...
CreateProp(k) ==
    \E new \in Props :
        /\ ~InUse(new)
        /\ Begin(k, [Request("clear", "PROP_ROTATION", new, Nobody) EXCEPT
                        !.seen = {p \in Props : row[p] = "active"}])

CreateBroker(k) ==
    \E new \in Brokers : ~InUse(new) /\ Begin(k, Request("create", "BROKER_ADD", new, Nobody))

ReplaceBroker(k) ==
    \E old, new \in Brokers :
        /\ row[old] = "active" /\ ~InUse(new)
        /\ Begin(k, Request("create", "BROKER_REPLACE", new, old))

SetHedgeBroker(k) ==
    \E b \in Brokers : row[b] = "active" /\ Begin(k, Request("enqueue", "SET_HEDGE_BROKER", b, Nobody))

\* An account that is registered cannot be deleted.
DeleteBroker(k) ==
    \E b \in Brokers :
        /\ Exists(b) /\ b \notin recorded
        /\ Begin(k, Request("remove", "BROKER_ADD", b, Nobody))

\* The wizard's forms, sent again: they write the rows and enqueue nothing.
OnboardProp(k) ==
    \E new \in Props :
        ~InUse(new) /\ Begin(k, [Request("clear", "PROP_ROTATION", new, Nobody) EXCEPT !.form = TRUE])

OnboardBroker(k) ==
    \E new \in Brokers :
        ~InUse(new) /\ Begin(k, [Request("create", "BROKER_ADD", new, Nobody) EXCEPT !.form = TRUE])

\* archivePropAccount, or an update of isActive: one write, and no command.
EditProp(k) ==
    /\ client[k].pc = "idle" /\ requests < MaxRequests
    /\ \E p \in Props :
           Exists(p) /\ row' = [row EXCEPT ![p] = IF row[p] = "active" THEN "archived" ELSE "active"]
    /\ requests' = requests + 1
    /\ raced' = raced \cup {"unsynced"} \cup (IF Overlaps THEN {"requests"} ELSE {})
    /\ UNCHANGED <<recorded, hedging, commands, client, worker, failures>>

DeleteService(k) == Begin(k, Request("enqueue", "DELETE", Nobody, Nobody))

GoOn(k, pc) == client' = [client EXCEPT ![k].pc = pc]
RequestOnly == UNCHANGED <<hedging, worker, requests, failures, raced>>

\* Mutant: the accounts that are active stay so.
NoneCleared(k) == {}

Cleared(k) == IF client[k].form THEN {p \in Props : row[p] = "active"} ELSE client[k].seen

\* ... and archives them; the form archives what is active in one statement.
ClearProps(k) ==
    /\ client[k].pc = "clear"
    /\ row' = [a \in Accounts |-> IF a \in Cleared(k) THEN "archived" ELSE row[a]]
    /\ GoOn(k, "create")
    /\ UNCHANGED <<recorded, commands>> /\ RequestOnly

CreateRow(k) ==
    /\ client[k].pc = "create"
    /\ row' = [row EXCEPT ![client[k].new] = "active"]
    /\ IF client[k].form THEN client' = [client EXCEPT ![k] = Idle]
       ELSE GoOn(k, IF client[k].type = "BROKER_REPLACE" THEN "archive" ELSE "enqueue")
    /\ UNCHANGED <<recorded, commands>> /\ RequestOnly

\* The update throws when the row is gone.
ArchiveOld(k) ==
    /\ client[k].pc = "archive"
    /\ IF Exists(client[k].old)
       THEN row' = [row EXCEPT ![client[k].old] = "archived"] /\ GoOn(k, "enqueue")
       ELSE client' = [client EXCEPT ![k] = Idle] /\ UNCHANGED row
    /\ UNCHANGED <<recorded, commands>> /\ RequestOnly

RemoveRow(k) ==
    /\ client[k].pc = "remove"
    /\ row' = [row EXCEPT ![client[k].new] = "deleted"]
    /\ recorded' = recorded \ {client[k].new}
    /\ client' = [client EXCEPT ![k] = Idle]
    /\ UNCHANGED commands /\ RequestOnly

Waits(type, new, old) ==
    \E i \in DOMAIN commands :
        /\ commands[i].status = "PENDING"
        /\ commands[i].type = type /\ commands[i].new = new /\ commands[i].old = old

\* A change of accounts is carried over only when the user is provisioned; a
\* command that waits with the same payload stands for this one.
Enqueue(k) ==
    /\ client[k].pc = "enqueue"
    /\ LET c == client[k] IN
       commands' =
           IF (c.type \notin {"SET_HEDGE_BROKER", "DELETE"} /\ provision.ended) \/ Waits(c.type, c.new, c.old)
           THEN commands
           ELSE Append(commands, [type |-> c.type, new |-> c.new, old |-> c.old, attempts |-> 0,
                                  due |-> TRUE, status |-> "PENDING"])
    /\ client' = [client EXCEPT ![k] = Idle]
    /\ UNCHANGED rows /\ RequestOnly

-----------------------------------------------------------------------------
(* The worker *)

Current == commands[worker.cmd]
New == Current.new
Proceed(pc) == worker' = [worker EXCEPT !.pc = pc]
WorkerOnly == UNCHANGED <<client, requests, failures, raced>>

\* A command a crash left RUNNING is requeued when its lease is over.
Requeue ==
    /\ worker.pc = "idle"
    /\ \E i \in WithStatus("RUNNING") :
           commands' = [commands EXCEPT ![i] = [@ EXCEPT !.status = "PENDING", !.due = TRUE]]
    /\ UNCHANGED <<rows, hedging, worker>> /\ WorkerOnly

\* The oldest command that is due; those in backoff are passed over.
StartCommand ==
    /\ worker.pc = "idle"
    /\ LET due == {i \in WithStatus("PENDING") : commands[i].due} IN
       \E oldest \in due :
          /\ \A i \in due : oldest <= i
          /\ worker' = [Resting EXCEPT !.pc = "context", !.cmd = oldest]
          /\ commands' = [commands EXCEPT ![oldest].status = "RUNNING"]
    /\ UNCHANGED <<rows, hedging>> /\ WorkerOnly

\* getProvisionedContext
ReadContext ==
    /\ worker.pc = "context"
    /\ worker' = [worker EXCEPT !.provision = provision, !.hedge = hedge,
                                !.pc = IF Current.type = "DELETE" THEN "list" ELSE "find"]
    /\ UNCHANGED <<rows, hedging, commands>> /\ WorkerOnly

Designated(b) == row[b] = "active" /\ b \in recorded

\* The payload's account is looked up; the designated one must be registered.
FindRow ==
    /\ worker.pc = "find"
    /\ IF Current.type = "SET_HEDGE_BROKER"
       THEN Designated(New) /\ ~worker.hedge.ended /\ Proceed("hedge")
       ELSE Exists(New) /\ Proceed("register")
    /\ UNCHANGED <<rows, hedging, commands>> /\ WorkerOnly

\* ensureEpAccount: found by login and server, or created.
Register ==
    /\ worker.pc = "register"
    /\ registered' = registered \cup {New}
    /\ Proceed("record")
    /\ UNCHANGED <<rows, provision, hedge, commands>> /\ WorkerOnly

Record ==
    /\ worker.pc = "record" /\ Exists(New)
    /\ recorded' = recorded \cup {New}
    /\ Proceed(IF Current.type = "BROKER_ADD" THEN "complete" ELSE "remove")
    /\ UNCHANGED <<row, hedging, commands>> /\ WorkerOnly

\* The account to be removed: the provision's prop, or the broker that was
\* replaced; one that was never registered stands for the hedge setup's.
Superseded ==
    IF Current.type = "PROP_ROTATION" THEN worker.provision.prop
    ELSE IF Current.old \in recorded THEN Current.old
    ELSE IF worker.hedge.ended THEN Nobody
    ELSE worker.hedge.broker

RemoveSuperseded ==
    /\ worker.pc = "remove"
    /\ registered' = IF Superseded = New THEN registered ELSE registered \ {Superseded}
    /\ raced' = IF Superseded \in Brokers \ {New} /\ row[Superseded] = "active"
                THEN raced \cup {"mistaken"} ELSE raced
    /\ Proceed("provision")
    /\ UNCHANGED <<rows, provision, hedge, commands, client, requests, failures>>

Kind == IF Current.type = "PROP_ROTATION" THEN "prop" ELSE "broker"

\* The selector writes the hedge setup first, the others the provision.
WriteProvision ==
    /\ worker.pc = "provision"
    /\ provision' = [provision EXCEPT ![Kind] = New]
    /\ Proceed(IF Current.type = "SET_HEDGE_BROKER" THEN "complete" ELSE "hedge")
    /\ UNCHANGED <<rows, registered, hedge, commands>> /\ WorkerOnly

\* Mutant: a rotation leaves the hedge setup alone.
ProvisionOnly == hedge

Rehedged == IF worker.hedge.ended THEN hedge ELSE [hedge EXCEPT ![Kind] = New]

WriteHedge ==
    /\ worker.pc = "hedge"
    /\ hedge' = Rehedged
    /\ Proceed(IF Current.type = "SET_HEDGE_BROKER" THEN "provision" ELSE "complete")
    /\ UNCHANGED <<rows, registered, provision, commands>> /\ WorkerOnly

\* executeDelete removes every account of the key; without a list, the pair.
ListAccounts ==
    /\ worker.pc = "list"
    /\ \/ worker' = [worker EXCEPT !.pc = "erase", !.todo = registered] /\ UNCHANGED failures
       \/ /\ failures < MaxFailures /\ failures' = failures + 1
          /\ LET pair == IF worker.hedge.ended THEN worker.provision ELSE worker.hedge IN
             worker' = [worker EXCEPT !.pc = "erase", !.todo = {pair.prop, pair.broker}]
    /\ UNCHANGED <<rows, hedging, commands, client, requests, raced>>

EraseAccount ==
    /\ worker.pc = "erase"
    /\ \/ /\ worker.todo = {} /\ Proceed("forget")
          /\ UNCHANGED registered
       \/ \E a \in worker.todo :
             /\ registered' = registered \ {a}
             /\ worker' = [worker EXCEPT !.todo = @ \ {a}]
    /\ UNCHANGED <<rows, provision, hedge, commands>> /\ WorkerOnly

ForgetAccounts ==
    /\ worker.pc = "forget"
    /\ recorded' = {}
    /\ hedge' = [hedge EXCEPT !.ended = @ \/ ~worker.hedge.ended]
    /\ Proceed("end")
    /\ UNCHANGED <<row, registered, provision, commands>> /\ WorkerOnly

Decommission ==
    /\ worker.pc = "end"
    /\ provision' = [provision EXCEPT !.ended = TRUE]
    /\ Proceed("complete")
    /\ UNCHANGED <<rows, registered, hedge, commands>> /\ WorkerOnly

Complete ==
    /\ worker.pc = "complete"
    /\ commands' = [commands EXCEPT ![worker.cmd].status = "COMPLETED"]
    /\ worker' = Resting
    /\ UNCHANGED <<rows, hedging>> /\ WorkerOnly

Exhausted(n) == n >= MaxTries

\* handleCommandFailure: EasierProp may have no room for the account, and then
\* the command is not tried again.
GiveUpOrRetry ==
    \E conflict \in {FALSE, worker.pc = "register"} :
        LET n == Current.attempts + 1 IN
        /\ commands' = [commands EXCEPT ![worker.cmd] =
               [@ EXCEPT !.status = IF conflict \/ Exhausted(n) THEN "FAILED" ELSE "PENDING",
                         !.attempts = n, !.due = FALSE]]
        /\ worker' = Resting

\* The executor refuses: there is no such row, or not one to hedge with.
Refused ==
    /\ \/ worker.pc = "find" /\ Current.type = "SET_HEDGE_BROKER" /\ (~Designated(New) \/ worker.hedge.ended)
       \/ worker.pc \in {"find", "record"} /\ Current.type # "SET_HEDGE_BROKER" /\ ~Exists(New)
    /\ GiveUpOrRetry
    /\ UNCHANGED <<rows, hedging>> /\ WorkerOnly

\* An await of the executor fails.
StepFails ==
    /\ worker.pc \notin {"idle", "complete"} /\ failures < MaxFailures
    /\ failures' = failures + 1
    /\ GiveUpOrRetry
    /\ UNCHANGED <<rows, hedging, client, requests, raced>>

BecomesDue ==
    /\ \E i \in WithStatus("PENDING") :
        ~commands[i].due /\ commands' = [commands EXCEPT ![i].due = TRUE]
    /\ UNCHANGED <<rows, hedging, worker>> /\ WorkerOnly

\* The process restarts: requests are lost half way.
Restart ==
    /\ failures < MaxFailures /\ failures' = failures + 1
    /\ worker' = Resting /\ client' = [k \in Clients |-> Idle]
    /\ UNCHANGED <<rows, hedging, commands, requests, raced>>

-----------------------------------------------------------------------------
(* The specification *)

ClientStep(k) ==
    \/ CreateProp(k) \/ CreateBroker(k) \/ ReplaceBroker(k) \/ SetHedgeBroker(k)
    \/ DeleteBroker(k) \/ DeleteService(k) \/ OnboardProp(k) \/ OnboardBroker(k) \/ EditProp(k)
    \/ ClearProps(k) \/ CreateRow(k) \/ ArchiveOld(k) \/ RemoveRow(k) \/ Enqueue(k)

WorkerStep ==
    \/ ReadContext \/ FindRow \/ Register \/ Record \/ RemoveSuperseded \/ WriteProvision \/ WriteHedge
    \/ ListAccounts \/ EraseAccount \/ ForgetAccounts \/ Decommission \/ Complete \/ Refused \/ StepFails

SyncNext ==
    \/ \E k \in Clients : ClientStep(k)
    \/ Requeue \/ StartCommand \/ WorkerStep \/ BecomesDue \/ Restart

SyncSpec == SyncInit /\ [][SyncNext]_syncVars

\* Accounts the user does not have yet are interchangeable, and so are clients.
Symmetry ==
    Permutations(Props \ {FirstProp}) \cup Permutations(Brokers \ {FirstBroker}) \cup Permutations(Clients)

-----------------------------------------------------------------------------
(* Properties *)

\* Nothing is under way or waiting, and no command was given up.
Quiet ==
    /\ \A k \in Clients : client[k].pc = "idle"
    /\ worker.pc = "idle" /\ \A i \in DOMAIN commands : commands[i].status = "COMPLETED"

\* The hedge setup trades with accounts that EasierProp has, and the
\* provision says the same: in whatever order commands were retried, whatever
\* failed half way, whichever requests overlapped and whatever was edited or
\* sent with the wizard beside them, unless a broker is deleted while a
\* command that registers it is under way, or removed by mistake.
HedgeIsRegistered ==
    Quiet /\ ~hedge.ended /\ raced \cap {"deletion", "mistaken"} = {} =>
        /\ {hedge.prop, hedge.broker} \subseteq registered \cap recorded
        /\ provision.prop = hedge.prop /\ provision.broker = hedge.broker

\* "Keep per-user ordering": once commands have been executed in the order
\* of the changes, the hedge setup trades with a broker that is not archived
\* and no account that was replaced is left on EasierProp; and it trades with
\* the one prop account that is active, unless one was edited or sent with
\* the wizard, of which EasierProp is not told.
HedgeIsCurrent ==
    Quiet /\ failures = 0 /\ raced \subseteq {"unsynced"} /\ ~hedge.ended =>
        /\ row[hedge.broker] = "active" /\ \A b \in registered \cap Brokers : row[b] = "active"
        /\ registered \cap Props = {hedge.prop}
        /\ raced = {} => {p \in Props : row[p] = "active"} = {hedge.prop}

\* "Re-submitting archives the previous prop account (rotation semantics)",
\* without the exception.  It does not hold: the form of the wizard, like an
\* edit, archives the account that is traded with and sends no command, and
\* the hedge setup goes on with it.
RowsAreTraded ==
    Quiet /\ failures = 0 /\ raced \subseteq {"unsynced"} /\ ~hedge.ended =>
        {p \in Props : row[p] = "active"} = {hedge.prop}

\* "Delete EVERY account registered under this client's key": none is left
\* when a DELETE has been executed.
DeletedIsEmpty == Quiet /\ provision.ended => registered = {}
=============================================================================
