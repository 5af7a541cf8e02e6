------------------------------ MODULE AccessLog ------------------------------
(***************************************************************************)
(* What a reader of the transaction log may rely on, with no mutex and no  *)
(* steps inside Record: a finished access is appended once, whole, with a  *)
(* stamp not before the one that precedes it, or lost for good; the log is *)
(* otherwise only emptied, and a snapshot is a log as it once was.         *)
(***************************************************************************)
EXTENDS Naturals, Sequences

CONSTANTS
  Link,     \* the logged transports that share the log
  Accesses, \* what is known of an access
  NoAccess  \* no access at all

VARIABLES
  unlogged,  \* unlogged[l]: the access of l that is over but not in the log yet
  log,       \* the records, [link, access, stamp]
  copy,      \* what the last snapshot returned, or what is left of it
  now        \* the clock

logVars == <<unlogged, log, copy, now>>

Init ==
  /\ unlogged = [l \in Link |-> NoAccess]
  /\ log = <<>> /\ copy = <<>>
  /\ now \in Nat

Finish(l) ==
  /\ unlogged[l] = NoAccess
  /\ \E a \in {unlogged'[l]} :
       a \in Accesses /\ unlogged' = [unlogged EXCEPT ![l] = a]
  /\ UNCHANGED <<log, copy, now>>

InOrder(stamp) ==
  stamp <= now /\ (log # <<>> => log[Len(log)].stamp <= stamp)

Record(l) ==
  /\ unlogged[l] # NoAccess
  /\ log' # <<>>
  /\ \E stamp \in {log'[Len(log')].stamp} :
       /\ InOrder(stamp)
       /\ log' = Append(log, [link |-> l, access |-> unlogged[l], stamp |-> stamp])
  /\ unlogged' = [unlogged EXCEPT ![l] = NoAccess]
  /\ UNCHANGED <<copy, now>>

Lose(l) ==
  /\ unlogged' = [unlogged EXCEPT ![l] = NoAccess]
  /\ UNCHANGED <<log, copy, now>>

Clear == log' = <<>> /\ UNCHANGED <<unlogged, copy, now>>

Snapshot == copy' = log /\ UNCHANGED <<unlogged, log, now>>

\* A reader that keeps only the first records of its snapshot.
Truncate ==
  /\ \E n \in 0..Len(copy) : copy' = SubSeq(copy, 1, n)
  /\ UNCHANGED <<unlogged, log, now>>

TimePasses == now' >= now /\ UNCHANGED <<unlogged, log, copy>>

Next ==
  \/ Clear \/ Snapshot \/ Truncate \/ TimePasses
  \/ \E l \in Link : Finish(l) \/ Record(l) \/ Lose(l)

Spec == Init /\ [][Next]_logVars
==============================================================================
