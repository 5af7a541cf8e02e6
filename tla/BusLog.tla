-------------------------------- MODULE BusLog --------------------------------
(***************************************************************************)
(* The way of an access to the bus and into the log: LoggedTransport       *)
(* (src/src/txn_log.cpp) over a transport of MakeTransport                 *)
(* (src/src/transports.cpp), which is the emulated device or a protocol    *)
(* transport (src/include/soc/transports.hpp) over it.                     *)
(*                                                                         *)
(* Each link has one caller at a time, since nothing below the log takes a *)
(* lock; all links share one TransactionLog, and any thread may clear it   *)
(* or write it to a file meanwhile.  A call is billed, reaches the device, *)
(* and is then recorded under the log's mutex.                             *)
(*                                                                         *)
(* The word a read returns is abstracted to the ticks of its device.       *)
(***************************************************************************)
EXTENDS Integers, Sequences, SequencesExt, FiniteSetsExt

CONSTANTS
  Links,     \* the LoggedTransports
  Kinds,     \* Kinds[l]: the arguments of MakeTransport for link l
  TestNames, \* TestNames[l]: the arguments of set_test on link l
  Unlabelled,\* what test_ holds before the first set_test, "<none>"
  Requests,  \* Requests[l]: the calls made on l, [op, words]
  Budgets,   \* bound: how many calls each link makes; a behaviour picks one
  MaxNow     \* bound: the steady clock

Ops == {"read32", "write32", "read_block", "write_block"}
IsBlock(op) == op \in {"read_block", "write_block"}

Nobody == "nobody"

ASSUME LinksAssumption == Nobody \notin Links
ASSUME KindsAssumption == Kinds \in [Links -> SUBSET {"emulated", "jtag", "i2c", "spi"}]
ASSUME RequestsAssumption ==
  /\ Requests \in [Links -> SUBSET [op : Ops, words : Nat]]
  /\ \A l \in Links : \A q \in Requests[l] : IsBlock(q.op) \/ q.words = 1
ASSUME BudgetsAssumption == Budgets \subseteq [Links -> Nat] /\ MaxNow \in Nat

VARIABLES
  kind,      \* kind[l]: what the link was made as
  test,      \* test[l]: test_
  spent,     \* spent[l]: simulated_ns_
  accesses,  \* accesses[l]: accesses_
  ticks,     \* ticks[l]: ticks_ of the device behind the link
  call,      \* call[l]: the call under way behind the device: [stage, stamp]
  mutex,     \* the link in Record's critical section, or Nobody
  log,       \* records_: [link (history), access, stamp]
  writer,    \* WriteCsv: "idle", or "open" with its snapshot taken
  copy,      \* the snapshot of the last WriteCsv, once written what the file has
  now,       \* the steady clock
  left,      \* left[l]: the calls link l may still make (bound)
  wire,      \* wire[l]: the calls made on l and how they ended (history)
  billed     \* billed[l]: Len(wire[l]) at the last ResetCounters (history)

costVars == <<spent, accesses, billed>>
linkVars == <<kind, test, ticks>>
fileVars == <<writer, copy>>
busVars == <<costVars, linkVars, fileVars, call, mutex, log, now, left, wire>>

Idle == [stage |-> "idle", stamp |-> 0]
NoAccess == [op |-> "none", words |-> 0, value |-> 0, test |-> Unlabelled, nth |-> 0]

------------------------------------------------------------------------------
(* ProtocolTransport *)

\* bits_per_access / clock_hz, in nanoseconds.
NsPerAccess == [jtag |-> 4000, i2c |-> 112500, spi |-> 2880]

\* A block costs one access and a quarter of one per word.
Cost(k, op, words) ==
  NsPerAccess[k] + (IF IsBlock(op) THEN words * (NsPerAccess[k] \div 4) ELSE 0)

\* A slip: the bill comes after the device has answered.
BillIfAnswered(l, op, words, answered) ==
  IF kind[l] = "emulated" \/ ~ answered THEN UNCHANGED <<spent, accesses>>
  ELSE /\ spent' = [spent EXCEPT ![l] = @ + Cost(kind[l], op, words)]
       /\ accesses' = [accesses EXCEPT ![l] = @ + 1]

\* The bill comes before the device is asked, whether or not it `answered`.
Bill(l, op, words, answered) ==
  IF kind[l] = "emulated" THEN UNCHANGED <<spent, accesses>>
  ELSE /\ spent' = [spent EXCEPT ![l] = @ + Cost(kind[l], op, words)]
       /\ accesses' = [accesses EXCEPT ![l] = @ + 1]

ResetCounters(l) ==
  /\ call[l] = Idle /\ kind[l] # "emulated"
  /\ spent' = [spent EXCEPT ![l] = 0]
  /\ accesses' = [accesses EXCEPT ![l] = 0]
  /\ billed' = [billed EXCEPT ![l] = Len(wire[l])]
  /\ UNCHANGED <<linkVars, fileVars, call, mutex, log, now, left, wire>>

------------------------------------------------------------------------------
(* LoggedTransport: the access, and only then its record *)

SetTest(l, name) ==
  /\ call[l] = Idle
  /\ test' = [test EXCEPT ![l] = name]
  /\ UNCHANGED <<costVars, kind, ticks, fileVars, call, mutex, log, now, left, wire>>

\* A slip: a block is recorded with the index of its last word.
ValueLastIndex(op, words, tick) ==
  IF IsBlock(op) THEN words - 1 ELSE IF op = "read32" THEN tick ELSE 0

\* The `value` of the record: the word read or written, or the length.
Value(op, words, tick) ==
  IF IsBlock(op) THEN words ELSE IF op = "read32" THEN tick ELSE 0

\* The inner call gets through `reached` of the words; it throws if not through all.
Access(l, op, words, reached) ==
  /\ call[l] = Idle /\ left[l] > 0
  /\ left' = [left EXCEPT ![l] = @ - 1]
  /\ Bill(l, op, words, reached = words)
  /\ ticks' = [ticks EXCEPT ![l] = @ + reached]
  /\ call' = IF reached = words THEN [call EXCEPT ![l].stage = "access"] ELSE call
  /\ wire' = [wire EXCEPT ![l] = Append(@,
       [op |-> op, words |-> words, value |-> Value(op, words, ticks[l] + reached),
        test |-> test[l], at |-> now,
        outcome |-> IF reached = words THEN "underway" ELSE "threw"])]
  /\ UNCHANGED <<kind, test, billed, fileVars, mutex, log, now>>

\* The arguments LoggedTransport passes to Record.
Recorded(l) ==
  LET last == wire[l][Len(wire[l])]
  IN  [op |-> last.op, words |-> last.words, value |-> last.value, test |-> test[l],
       nth |-> Len(wire[l])]

Ends(l, outcome) ==
  /\ call' = [call EXCEPT ![l] = Idle]
  /\ wire' = [wire EXCEPT ![l][Len(wire[l])].outcome = outcome]

\* A slip: Record without its lock_guard.
LockAnyway(l) ==
  /\ call[l].stage = "access"
  /\ mutex' = l
  /\ call' = [call EXCEPT ![l].stage = "locked"]
  /\ UNCHANGED <<costVars, linkVars, fileVars, log, now, left, wire>>

\* A slip: an access that finds the mutex taken goes without a record.
LockOrSkip(l) ==
  /\ call[l].stage = "access"
  /\ IF mutex = Nobody
       THEN mutex' = l /\ call' = [call EXCEPT ![l].stage = "locked"] /\ UNCHANGED wire
       ELSE Ends(l, "logged") /\ UNCHANGED mutex
  /\ UNCHANGED <<costVars, linkVars, fileVars, log, now, left>>

Lock(l) ==
  /\ call[l].stage = "access" /\ mutex = Nobody
  /\ mutex' = l
  /\ call' = [call EXCEPT ![l].stage = "locked"]
  /\ UNCHANGED <<costVars, linkVars, fileVars, log, now, left, wire>>

\* NowNs(), inside the critical section.
Stamp(l) ==
  /\ call[l].stage = "locked"
  /\ call' = [call EXCEPT ![l] = [stage |-> "stamped", stamp |-> now]]
  /\ UNCHANGED <<costVars, linkVars, fileVars, mutex, log, now, left, wire>>

Push(l) ==
  /\ call[l].stage = "stamped"
  /\ log' = Append(log, [link |-> l, access |-> Recorded(l), stamp |-> call[l].stamp])
  /\ Ends(l, "logged")
  /\ mutex' = Nobody
  /\ UNCHANGED <<costVars, linkVars, fileVars, now, left>>

\* A slip: the mutex is not released when push_back throws.
PushFailsLocked(l) ==
  /\ call[l].stage = "stamped"
  /\ Ends(l, "unrecorded")
  /\ UNCHANGED <<costVars, linkVars, fileVars, mutex, log, now, left>>

\* No memory for the record: push_back leaves the log alone and the lock_guard
\* releases the mutex while the exception passes; the access stays done.
PushFails(l) ==
  /\ call[l].stage = "stamped"
  /\ Ends(l, "unrecorded")
  /\ mutex' = Nobody
  /\ UNCHANGED <<costVars, linkVars, fileVars, log, now, left>>

RecordStep(l) == Lock(l) \/ Stamp(l) \/ Push(l) \/ PushFails(l)

------------------------------------------------------------------------------
(* TransactionLog for everybody else *)

Forgotten(calls) ==
  [n \in DOMAIN calls |->
     IF calls[n].outcome = "logged" THEN [calls[n] EXCEPT !.outcome = "cleared"] ELSE calls[n]]

Clear ==
  /\ mutex = Nobody
  /\ log' = <<>>
  /\ wire' = [l \in Links |-> Forgotten(wire[l])]
  /\ UNCHANGED <<costVars, linkVars, fileVars, call, mutex, now, left>>

\* WriteCsv begins with Snapshot().
Snapshot ==
  /\ writer = "idle" /\ mutex = Nobody
  /\ writer' = "open" /\ copy' = log
  /\ UNCHANGED <<costVars, linkVars, call, mutex, log, now, left, wire>>

\* A slip: a line that could not be written is skipped and the next one tried.
WriteFileSkipping ==
  /\ writer = "open"
  /\ writer' = "idle"
  /\ copy' = copy \/ \E n \in 1..Len(copy) : copy' = RemoveAt(copy, n)
  /\ UNCHANGED <<costVars, linkVars, call, mutex, log, now, left, wire>>

\* The lines of the snapshot; when the disk is full the stream drops the rest
\* and WriteCsv does not look.
WriteFile ==
  /\ writer = "open"
  /\ writer' = "idle"
  /\ \E n \in 0..Len(copy) : copy' = SubSeq(copy, 1, n)
  /\ UNCHANGED <<costVars, linkVars, call, mutex, log, now, left, wire>>

\* "cannot write transaction log"
OpenFails ==
  /\ writer = "open"
  /\ writer' = "idle"
  /\ UNCHANGED <<costVars, linkVars, copy, call, mutex, log, now, left, wire>>

TimePasses ==
  /\ now < MaxNow
  /\ now' = now + 1
  /\ UNCHANGED <<costVars, linkVars, fileVars, call, mutex, log, left, wire>>

------------------------------------------------------------------------------
BusInit ==
  /\ kind \in {k \in [Links -> UNION {Kinds[l] : l \in Links}] : \A l \in Links : k[l] \in Kinds[l]}
  /\ test = [l \in Links |-> Unlabelled]
  /\ spent = [l \in Links |-> 0] /\ accesses = [l \in Links |-> 0]
  /\ billed = [l \in Links |-> 0] /\ ticks = [l \in Links |-> 0]
  /\ call = [l \in Links |-> Idle] /\ mutex = Nobody
  /\ log = <<>> /\ writer = "idle" /\ copy = <<>>
  /\ now = 0 /\ left \in Budgets
  /\ wire = [l \in Links |-> <<>>]

\* What callers of link l do between their calls and in them.
LinkCall(l) ==
  \/ ResetCounters(l)
  \/ \E name \in TestNames[l] : SetTest(l, name)
  \/ \E q \in Requests[l] : \E reached \in 0..q.words : Access(l, q.op, q.words, reached)

LogCall == Clear \/ Snapshot \/ WriteFile \/ OpenFails

BusNext ==
  \/ \E l \in Links : LinkCall(l) \/ RecordStep(l)
  \/ LogCall \/ TimePasses

BusSpec == BusInit /\ [][BusNext]_busVars

------------------------------------------------------------------------------
(* Properties *)

Call == [stage : {"idle", "access", "locked", "stamped"}, stamp : Nat]
Label == (UNION {TestNames[l] : l \in Links}) \cup {Unlabelled}
LoggedAccess == [op : Ops, words : Nat, value : Nat, test : Label, nth : Nat \ {0}]
WireCall ==
  [op : Ops, words : Nat, value : Nat, test : Label, at : Nat,
   outcome : {"underway", "logged", "cleared", "threw", "unrecorded"}]
Records == Seq([link : Links, access : LoggedAccess, stamp : Nat])

\* Everything stays in its type.
BusTypeOK ==
  /\ kind \in [Links -> {"emulated", "jtag", "i2c", "spi"}] /\ test \in [Links -> Label]
  /\ spent \in [Links -> Nat] /\ accesses \in [Links -> Nat]
  /\ ticks \in [Links -> Nat] /\ billed \in [Links -> Nat]
  /\ call \in [Links -> Call] /\ mutex \in Links \cup {Nobody}
  /\ log \in Records /\ copy \in Records
  /\ writer \in {"idle", "open"} /\ now \in Nat
  /\ left \in [Links -> Nat]
  /\ wire \in [Links -> Seq(WireCall)]

\* The record r is the call it belongs to.
Tells(r) ==
  /\ r.access.nth \in 1..Len(wire[r.link])
  /\ LET c == wire[r.link][r.access.nth]
     IN  /\ c.outcome = "logged"
         /\ c.op = r.access.op /\ c.words = r.access.words
         /\ c.value = r.access.value /\ c.test = r.access.test

\* The log is the bus: since the last Clear it holds every call that returned
\* to its caller, once, as it was made, the calls of one link in their order on
\* the bus, and nothing else.  (A call that threw may have touched the device.)
LogMatchesBus ==
  /\ \A i \in 1..Len(log) : Tells(log[i])
  /\ \A i, j \in 1..Len(log) :
       i < j /\ log[i].link = log[j].link => log[i].access.nth < log[j].access.nth
  /\ \A l \in Links : \A n \in 1..Len(wire[l]) : wire[l][n].outcome = "logged" =>
       \E i \in 1..Len(log) : log[i].link = l /\ log[i].access.nth = n

\* Stamps grow along the log, over all links, and no record is stamped before
\* its access was made.
StampsOrdered ==
  /\ \A i, j \in 1..Len(log) : i < j => log[i].stamp <= log[j].stamp
  /\ \A i \in 1..Len(log) :
       log[i].stamp >= wire[log[i].link][log[i].access.nth].at

\* Between two lines of one link a file misses only calls that threw: two such
\* files can be compared access by access.
NoHolesInFile ==
  \A i, j \in 1..Len(copy) : i < j /\ copy[i].link = copy[j].link =>
    /\ copy[i].access.nth < copy[j].access.nth
    /\ \A n \in (copy[i].access.nth + 1)..(copy[j].access.nth - 1) :
         wire[copy[i].link][n].outcome \notin {"threw", "unrecorded"} =>
           \E k \in (i + 1)..(j - 1) :
             copy[k].link = copy[i].link /\ copy[k].access.nth = n

\* What the calls made on l cost, at the rate of its protocol.
Price(l) ==
  [n \in 1..Len(wire[l]) |-> Cost(kind[l], wire[l][n].op, wire[l][n].words)]

\* Every call since ResetCounters is on the bill, the failed ones too, at the
\* rate of its protocol.
EveryCallBilled ==
  \A l \in Links : kind[l] # "emulated" =>
    /\ accesses[l] = Len(wire[l]) - billed[l]
    /\ spent[l] = SumFunctionOnSet(Price(l), (billed[l] + 1)..Len(wire[l]))

Unlogged == [l \in Links |-> IF call[l] = Idle THEN NoAccess ELSE Recorded(l)]

Abstract == INSTANCE AccessLog
              WITH Link <- Links, Accesses <- LoggedAccess, unlogged <- Unlogged

\* The mutex makes Record one step: BusLog implements AccessLog.
ImplementsLog == Abstract!Spec
==============================================================================
