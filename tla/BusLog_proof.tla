----------------------------- MODULE BusLog_proof -----------------------------
(***************************************************************************)
(* For every number of links, every mix of calls and any clock: the log is *)
(* the bus, its stamps are in order, and the mutex makes Record one step.  *)
(***************************************************************************)
EXTENDS BusLog, FiniteSums, SequenceTheorems

\* The steps of BusLog with any call at all, whatever Requests says.
AnyAccess(l) ==
  \E op \in Ops, words \in Nat : \E reached \in 0..words : Access(l, op, words, reached)

LinkStep(l) ==
  ResetCounters(l) \/ (\E name \in TestNames[l] : SetTest(l, name)) \/ AnyAccess(l) \/ RecordStep(l)

BusStep == (\E l \in Links : LinkStep(l)) \/ LogCall \/ TimePasses

LEMMA BusNextIsBusStep == BusNext => BusStep
  <1>1. ASSUME NEW l \in Links, LinkCall(l) PROVE LinkStep(l)
    BY <1>1, RequestsAssumption DEF LinkCall, LinkStep, AnyAccess
  <1> QED
    BY <1>1 DEF BusNext, BusStep, LinkStep

------------------------------------------------------------------------------
(* The inductive invariant *)

LastCall(l) == wire[l][Len(wire[l])]

\* A link in a call has its access last on the wire, still unrecorded and made
\* under the name the record will have.
CallSound(l) ==
  /\ call[l] # Idle => Len(wire[l]) > 0 /\ LastCall(l).outcome = "underway" /\ LastCall(l).test = test[l]
  /\ call[l].stage = "idle" => call[l] = Idle
  /\ call[l].stage \in {"locked", "stamped"} <=> mutex = l

\* No clock reading is of the future, and the one taken in the critical section
\* is not before the last record or the access it is for.
TimeSound ==
  /\ \A i \in 1..Len(log) : log[i].stamp <= now
  /\ \A l \in Links : \A n \in 1..Len(wire[l]) : wire[l][n].at <= now
  /\ \A l \in Links : call[l].stage = "stamped" =>
       /\ call[l].stamp <= now /\ LastCall(l).at <= call[l].stamp
       /\ \A i \in 1..Len(log) : log[i].stamp <= call[l].stamp

BusInv ==
  /\ BusTypeOK /\ (\A l \in Links : CallSound(l)) /\ TimeSound
  /\ LogMatchesBus /\ StampsOrdered

------------------------------------------------------------------------------
(* What the actions do to the wire *)

\* Wires that have the same calls at the same places, up to how they ended.
SameCalls(v, w) ==
  /\ Len(v) = Len(w)
  /\ \A n \in 1..Len(w) : /\ v[n].op = w[n].op /\ v[n].words = w[n].words
                          /\ v[n].value = w[n].value /\ v[n].test = w[n].test
                          /\ v[n].at = w[n].at

LEMMA EndsEffect ==
  ASSUME BusTypeOK, NEW l \in Links, Len(wire[l]) > 0,
         NEW outcome \in {"logged", "unrecorded"}, Ends(l, outcome)
  PROVE  /\ call' \in [Links -> Call] /\ wire' \in [Links -> Seq(WireCall)]
         /\ call'[l] = Idle /\ \A k \in Links \ {l} : call'[k] = call[k] /\ wire'[k] = wire[k]
         /\ SameCalls(wire'[l], wire[l])
         /\ wire'[l][Len(wire[l])].outcome = outcome
         /\ \A n \in 1..(Len(wire[l]) - 1) : wire'[l][n] = wire[l][n]
  <1> DEFINE w == wire[l]
             last == [w[Len(w)] EXCEPT !.outcome = outcome]
             v == [w EXCEPT ![Len(w)] = last]
  <1>1. w \in Seq(WireCall) /\ Len(w) \in 1..Len(w) /\ w[Len(w)] \in WireCall
    BY DEF BusTypeOK
  <1>2. /\ last \in WireCall /\ last.outcome = outcome /\ last.op = w[Len(w)].op
        /\ last.words = w[Len(w)].words /\ last.value = w[Len(w)].value
        /\ last.test = w[Len(w)].test /\ last.at = w[Len(w)].at
    BY <1>1 DEF WireCall
  <1>3. wire' = [wire EXCEPT ![l] = v] /\ wire'[l] = v
    BY DEF Ends, BusTypeOK
  <1> HIDE DEF last
  <1>4. v \in Seq(WireCall) /\ Len(v) = Len(w) /\ v[Len(w)] = last
        /\ \A n \in 1..Len(w) : n # Len(w) => v[n] = w[n]
    BY <1>1, <1>2
  <1>5. call' \in [Links -> Call] /\ call'[l] = Idle /\ \A k \in Links \ {l} : call'[k] = call[k]
    BY DEF Ends, BusTypeOK, Call, Idle
  <1>6. wire' \in [Links -> Seq(WireCall)] /\ \A k \in Links \ {l} : wire'[k] = wire[k]
    BY <1>3, <1>4 DEF BusTypeOK
  <1>7. SameCalls(v, w)
    <2> SUFFICES ASSUME NEW n \in 1..Len(w)
                 PROVE  /\ v[n].op = w[n].op /\ v[n].words = w[n].words
                        /\ v[n].value = w[n].value /\ v[n].test = w[n].test
                        /\ v[n].at = w[n].at
      BY <1>4 DEF SameCalls
    <2>1. CASE n = Len(w)
      BY <1>2, <1>4, <2>1
    <2>2. CASE n # Len(w)
      BY <1>4, <2>2
    <2> QED
      BY <2>1, <2>2
  <1> QED
    BY <1>1, <1>2, <1>3, <1>4, <1>5, <1>6, <1>7

LEMMA ForgottenEffect ==
  ASSUME NEW w \in Seq(WireCall)
  PROVE  /\ Forgotten(w) \in Seq(WireCall) /\ SameCalls(Forgotten(w), w)
         /\ \A n \in 1..Len(w) : Forgotten(w)[n].outcome =
              IF w[n].outcome = "logged" THEN "cleared" ELSE w[n].outcome
  <1> DEFINE e(n) == IF w[n].outcome = "logged" THEN [w[n] EXCEPT !.outcome = "cleared"] ELSE w[n]
  <1>1. DOMAIN w = 1..Len(w) /\ Len(w) \in Nat
    OBVIOUS
  <1>2. Forgotten(w) = [n \in 1..Len(w) |-> e(n)]
    BY <1>1 DEF Forgotten
  <1>3. ASSUME NEW n \in 1..Len(w)
        PROVE  /\ e(n) \in WireCall /\ e(n).op = w[n].op /\ e(n).words = w[n].words
               /\ e(n).value = w[n].value /\ e(n).test = w[n].test /\ e(n).at = w[n].at
               /\ e(n).outcome = IF w[n].outcome = "logged" THEN "cleared" ELSE w[n].outcome
    <2>1. w[n] \in WireCall
      BY <1>3
    <2> QED
      BY <2>1 DEF WireCall
  <1> HIDE DEF e
  <1>4. Forgotten(w) \in Seq(WireCall) /\ Len(Forgotten(w)) = Len(w)
    BY <1>1, <1>2, <1>3
  <1> QED
    BY <1>2, <1>3, <1>4 DEF SameCalls

\* A new call on link l.
LEMMA AccessEffect ==
  ASSUME BusTypeOK, NEW l \in Links, NEW op \in Ops, NEW words \in Nat,
         NEW reached \in 0..words, Access(l, op, words, reached)
  PROVE  /\ call[l] = Idle /\ call' \in [Links -> Call]
         /\ call'[l] = IF reached = words THEN [Idle EXCEPT !.stage = "access"] ELSE Idle
         /\ \A k \in Links \ {l} : call'[k] = call[k] /\ wire'[k] = wire[k]
         /\ wire' \in [Links -> Seq(WireCall)] /\ Len(wire'[l]) = Len(wire[l]) + 1
         /\ \A n \in 1..Len(wire[l]) : wire'[l][n] = wire[l][n]
         /\ wire'[l][Len(wire'[l])].outcome = IF reached = words THEN "underway" ELSE "threw"
         /\ wire'[l][Len(wire'[l])].test = test[l] /\ wire'[l][Len(wire'[l])].at = now
  <1> DEFINE c == [op |-> op, words |-> words, value |-> Value(op, words, ticks[l] + reached),
                   test |-> test[l], at |-> now,
                   outcome |-> IF reached = words THEN "underway" ELSE "threw"]
  <1>1. ticks[l] + reached \in Nat /\ test[l] \in Label /\ now \in Nat
    BY DEF BusTypeOK
  <1>2. c \in WireCall /\ c.test = test[l] /\ c.at = now
        /\ c.outcome = IF reached = words THEN "underway" ELSE "threw"
    BY <1>1 DEF WireCall, Value, Ops
  <1>3. wire' = [wire EXCEPT ![l] = Append(wire[l], c)] /\ call[l] = Idle
        /\ call' = IF reached = words THEN [call EXCEPT ![l].stage = "access"] ELSE call
    BY DEF Access
  <1> HIDE DEF c
  <1>4. /\ Append(wire[l], c) \in Seq(WireCall)
        /\ Len(Append(wire[l], c)) = Len(wire[l]) + 1
        /\ Append(wire[l], c)[Len(wire[l]) + 1] = c
        /\ \A n \in 1..Len(wire[l]) : Append(wire[l], c)[n] = wire[l][n]
    BY <1>2 DEF BusTypeOK
  <1>5. wire' \in [Links -> Seq(WireCall)] /\ wire'[l] = Append(wire[l], c)
        /\ \A k \in Links \ {l} : wire'[k] = wire[k]
    BY <1>3, <1>4 DEF BusTypeOK
  <1>6. /\ call' \in [Links -> Call]
        /\ call'[l] = IF reached = words THEN [Idle EXCEPT !.stage = "access"] ELSE Idle
        /\ \A k \in Links \ {l} : call'[k] = call[k]
    <2>1. call \in [Links -> Call] /\ Idle \in Call /\ Idle.stamp = 0
      BY DEF BusTypeOK, Call, Idle
    <2>2. [Idle EXCEPT !.stage = "access"] \in Call
      BY DEF Call, Idle
    <2>3. CASE reached = words
      <3>1. call' = [call EXCEPT ![l] = [Idle EXCEPT !.stage = "access"]]
        BY <1>3, <2>3
      <3>2. call' \in [Links -> Call]
        BY <2>1, <2>2, <3>1
      <3>3. call'[l] = [Idle EXCEPT !.stage = "access"] /\ \A k \in Links \ {l} : call'[k] = call[k]
        BY <2>1, <3>1
      <3> QED
        BY <2>3, <3>2, <3>3
    <2>4. CASE reached # words
      BY <1>3, <2>1, <2>4
    <2> QED
      BY <2>3, <2>4
  <1> QED
    BY <1>2, <1>3, <1>4, <1>5, <1>6

------------------------------------------------------------------------------
(* Types *)

LEMMA CostTyped ==
  ASSUME NEW k \in {"jtag", "i2c", "spi"}, NEW op, NEW words \in Nat
  PROVE  Cost(k, op, words) \in Nat
  <1>1. NsPerAccess[k] \in Nat /\ NsPerAccess[k] \div 4 \in Nat
    BY DEF NsPerAccess
  <1>2. words * (NsPerAccess[k] \div 4) \in Nat
    BY <1>1
  <1> QED
    BY <1>1, <1>2 DEF Cost

LEMMA BillTyped ==
  ASSUME BusTypeOK, NEW l \in Links, NEW op \in Ops, NEW words \in Nat, NEW answered,
         Bill(l, op, words, answered)
  PROVE  spent' \in [Links -> Nat] /\ accesses' \in [Links -> Nat]
  <1>1. CASE kind[l] = "emulated"
    BY <1>1 DEF Bill, BusTypeOK
  <1>2. CASE kind[l] # "emulated"
    <2>1. kind[l] \in {"jtag", "i2c", "spi"}
      BY <1>2 DEF BusTypeOK
    <2>2. Cost(kind[l], op, words) \in Nat
      BY <2>1, CostTyped
    <2>3. spent \in [Links -> Nat] /\ accesses \in [Links -> Nat]
      BY DEF BusTypeOK
    <2>4. spent[l] + Cost(kind[l], op, words) \in Nat /\ accesses[l] + 1 \in Nat
      BY <2>2, <2>3
    <2>5. /\ spent' = [spent EXCEPT ![l] = spent[l] + Cost(kind[l], op, words)]
          /\ accesses' = [accesses EXCEPT ![l] = accesses[l] + 1]
      BY <1>2 DEF Bill
    <2> QED
      BY <2>3, <2>4, <2>5
  <1> QED
    BY <1>1, <1>2

LEMMA RecordedTyped ==
  ASSUME BusTypeOK, NEW l \in Links, Len(wire[l]) > 0
  PROVE  Recorded(l) \in LoggedAccess
  <1>1. LastCall(l) \in WireCall /\ Len(wire[l]) \in Nat \ {0} /\ test[l] \in Label
    BY DEF BusTypeOK, LastCall
  <1> QED
    BY <1>1 DEF WireCall, LoggedAccess, Recorded, LastCall

\* The record that a Push puts at the end of the log.
NewRecord(l) == [link |-> l, access |-> Recorded(l), stamp |-> call[l].stamp]

LEMMA PushEffect ==
  ASSUME BusInv, NEW l \in Links, Push(l)
  PROVE  /\ Len(wire[l]) > 0 /\ Ends(l, "logged") /\ mutex = l /\ mutex' = Nobody
         /\ call[l].stage = "stamped" /\ LastCall(l).outcome = "underway" /\ LastCall(l).test = test[l]
         /\ log' \in Records /\ Len(log') = Len(log) + 1 /\ Len(log) \in Nat
         /\ log'[Len(log) + 1] = NewRecord(l)
         /\ \A i \in 1..Len(log) : log'[i] = log[i]
  <1>1. call[l].stage = "stamped" /\ call[l] # Idle
    BY DEF Push, Idle
  <1>2. Len(wire[l]) > 0 /\ LastCall(l).outcome = "underway" /\ LastCall(l).test = test[l] /\ mutex = l
    BY <1>1 DEF BusInv, CallSound
  <1>3. NewRecord(l) \in [link : Links, access : LoggedAccess, stamp : Nat]
    BY <1>2, RecordedTyped DEF BusInv, BusTypeOK, Call, NewRecord
  <1>4. log' = Append(log, NewRecord(l)) /\ log \in Records
    BY DEF Push, NewRecord, BusInv, BusTypeOK
  <1> QED
    BY <1>1, <1>2, <1>3, <1>4 DEF Push, Records

LEMMA LinkStepTyped ==
  ASSUME BusInv, NEW l \in Links, LinkStep(l)
  PROVE  BusTypeOK'
  <1> USE DEF BusInv, costVars, linkVars, fileVars
  <1>1. ASSUME ResetCounters(l) PROVE BusTypeOK'
    BY <1>1 DEF ResetCounters, BusTypeOK
  <1>2. ASSUME NEW name \in TestNames[l], SetTest(l, name) PROVE BusTypeOK'
    <2>1. name \in Label
      BY DEF Label
    <2> QED
      BY <1>2, <2>1 DEF SetTest, BusTypeOK
  <1>3. ASSUME NEW op \in Ops, NEW words \in Nat, NEW reached \in 0..words,
               Access(l, op, words, reached)
        PROVE  BusTypeOK'
    <2>1. spent' \in [Links -> Nat] /\ accesses' \in [Links -> Nat]
      BY <1>3, BillTyped DEF Access
    <2>2. ticks' \in [Links -> Nat] /\ left' \in [Links -> Nat]
      <3>1. ticks \in [Links -> Nat] /\ left \in [Links -> Nat]
        BY DEF BusTypeOK
      <3>2. /\ left[l] > 0 /\ left' = [left EXCEPT ![l] = left[l] - 1]
            /\ ticks' = [ticks EXCEPT ![l] = ticks[l] + reached]
        BY <1>3 DEF Access
      <3>3. left[l] - 1 \in Nat /\ ticks[l] + reached \in Nat
        BY <3>1, <3>2
      <3> QED
        BY <3>1, <3>2, <3>3
    <2>3. call' \in [Links -> Call] /\ wire' \in [Links -> Seq(WireCall)]
      BY <1>3, AccessEffect
    <2> QED
      BY <1>3, <2>1, <2>2, <2>3 DEF Access, BusTypeOK
  <1>4. ASSUME Lock(l) \/ Stamp(l) PROVE BusTypeOK'
    <2>1. call \in [Links -> Call] /\ now \in Nat
      BY DEF BusTypeOK
    <2>2. /\ [call[l] EXCEPT !.stage = "locked"] \in Call
          /\ [stage |-> "stamped", stamp |-> now] \in Call
      BY <2>1 DEF Call
    <2>3. \/ call' = [call EXCEPT ![l] = [call[l] EXCEPT !.stage = "locked"]]
          \/ call' = [call EXCEPT ![l] = [stage |-> "stamped", stamp |-> now]]
      BY <1>4 DEF Lock, Stamp
    <2>4. call' \in [Links -> Call] /\ mutex' \in Links \cup {Nobody}
      <3>1. call' \in [Links -> Call]
        BY <2>1, <2>2, <2>3
      <3>2. mutex' \in Links \cup {Nobody}
        BY <1>4 DEF Lock, Stamp, BusTypeOK
      <3> QED
        BY <3>1, <3>2
    <2> QED
      BY <1>4, <2>4 DEF Lock, Stamp, BusTypeOK
  <1>5. ASSUME Push(l) PROVE BusTypeOK'
    <2>1. call' \in [Links -> Call] /\ wire' \in [Links -> Seq(WireCall)] /\ log' \in Records
      BY <1>5, PushEffect, EndsEffect
    <2> QED
      BY <1>5, <2>1 DEF Push, BusTypeOK
  <1>6. ASSUME PushFails(l) PROVE BusTypeOK'
    <2>1. Len(wire[l]) > 0
      BY <1>6 DEF PushFails, CallSound, Idle
    <2>2. call' \in [Links -> Call] /\ wire' \in [Links -> Seq(WireCall)]
      BY <1>6, <2>1, EndsEffect DEF PushFails
    <2> QED
      BY <1>6, <2>2 DEF PushFails, BusTypeOK
  <1> QED
    BY <1>1, <1>2, <1>3, <1>4, <1>5, <1>6 DEF LinkStep, AnyAccess, RecordStep

LEMMA BusStepTyped ==
  ASSUME BusInv, BusStep
  PROVE  BusTypeOK'
  <1> USE DEF BusInv, costVars, linkVars, fileVars
  <1>1. ASSUME Clear PROVE BusTypeOK'
    <2>1. wire' \in [Links -> Seq(WireCall)]
      BY <1>1, ForgottenEffect DEF Clear, BusTypeOK
    <2>2. log' \in Records
      BY <1>1 DEF Clear, Records
    <2> QED
      BY <1>1, <2>1, <2>2 DEF Clear, BusTypeOK
  <1>2. ASSUME Snapshot \/ OpenFails PROVE BusTypeOK'
    BY <1>2 DEF Snapshot, OpenFails, BusTypeOK
  <1>3. ASSUME WriteFile PROVE BusTypeOK'
    <2>1. PICK n \in 0..Len(copy) : copy' = SubSeq(copy, 1, n)
      BY <1>3 DEF WriteFile
    <2>2. copy' \in Records
      <3> DEFINE R == [link : Links, access : LoggedAccess, stamp : Nat]
      <3>1. copy \in Seq(R)
        BY DEF BusTypeOK, Records
      <3> HIDE DEF R
      <3>2. n \in Int /\ \A i \in 1..n : copy[i] \in R
        BY <3>1
      <3>3. SubSeq(copy, 1, n) \in Seq(R)
        BY <3>2, SubSeqProperties
      <3> QED
        BY <2>1, <3>3 DEF Records, R
    <2> QED
      BY <1>3, <2>2 DEF WriteFile, BusTypeOK
  <1>4. ASSUME TimePasses PROVE BusTypeOK'
    BY <1>4 DEF TimePasses, BusTypeOK
  <1> QED
    BY <1>1, <1>2, <1>3, <1>4, LinkStepTyped DEF BusStep, LogCall

------------------------------------------------------------------------------
(* The log *)

\* v is w after more calls, none of them recorded, and maybe the end of one
\* that was under way and goes unrecorded.
Grown(v, w) ==
  /\ Len(v) >= Len(w)
  /\ \A n \in 1..Len(w) :
       /\ v[n].op = w[n].op /\ v[n].words = w[n].words /\ v[n].value = w[n].value
       /\ v[n].test = w[n].test /\ v[n].at = w[n].at
       /\ \/ v[n].outcome = w[n].outcome
          \/ w[n].outcome = "underway" /\ v[n].outcome = "unrecorded"
  /\ \A n \in (Len(w) + 1)..Len(v) : v[n].outcome # "logged"

LEMMA LogTyped ==
  ASSUME BusTypeOK
  PROVE  /\ Len(log) \in Nat
         /\ \A i \in 1..Len(log) : /\ log[i].link \in Links /\ log[i].stamp \in Nat
                                  /\ log[i].access.nth \in Nat \ {0}
         /\ \A l \in Links : /\ wire[l] \in Seq(WireCall) /\ Len(wire[l]) \in Nat
                            /\ \A n \in 1..Len(wire[l]) : wire[l][n].at \in Nat
  <1> DEFINE R == [link : Links, access : LoggedAccess, stamp : Nat]
  <1>1. log \in Seq(R) /\ wire \in [Links -> Seq(WireCall)]
    BY DEF BusTypeOK, Records
  <1>2. \A r \in R : r.link \in Links /\ r.stamp \in Nat /\ r.access.nth \in Nat \ {0}
    BY DEF LoggedAccess
  <1>3. \A c \in WireCall : c.at \in Nat
    BY DEF WireCall
  <1> HIDE DEF R
  <1>4. Len(log) \in Nat /\ \A i \in 1..Len(log) : log[i] \in R
    BY <1>1
  <1>5. ASSUME NEW l \in Links
        PROVE  /\ wire[l] \in Seq(WireCall) /\ Len(wire[l]) \in Nat
               /\ \A n \in 1..Len(wire[l]) : wire[l][n] \in WireCall
    BY <1>1
  <1> QED
    BY <1>2, <1>3, <1>4, <1>5

LEMMA LogKept ==
  ASSUME BusTypeOK, LogMatchesBus, StampsOrdered, log' = log, BusTypeOK',
         \A l \in Links : Grown(wire'[l], wire[l])
  PROVE  LogMatchesBus' /\ StampsOrdered'
  <1>1. /\ \A i \in 1..Len(log) : log[i].link \in Links
        /\ \A l \in Links : Len(wire[l]) \in Nat
    BY LogTyped
  <1>0. \A l \in Links : Len(wire'[l]) \in Nat
    <2>1. wire' \in [Links -> Seq(WireCall)]
      BY DEF BusTypeOK
    <2> QED
      BY <2>1
  <1>2. ASSUME NEW i \in 1..Len(log) PROVE Tells(log[i])'
    <2>1. Tells(log[i]) /\ log[i].link \in Links
      BY <1>1 DEF LogMatchesBus
    <2> DEFINE l == log[i].link
               n == log[i].access.nth
    <2>2. Grown(wire'[l], wire[l])
      BY <2>1
    <2>3. n \in 1..Len(wire[l]) /\ wire[l][n].outcome = "logged"
      BY <2>1 DEF Tells
    <2>4. Len(wire'[l]) >= Len(wire[l]) /\ Len(wire[l]) \in Nat /\ Len(wire'[l]) \in Nat
      BY <1>0, <1>1, <2>1, <2>2 DEF Grown
    <2>5. n \in 1..Len(wire'[l])
      BY <2>3, <2>4
    <2>6. /\ wire'[l][n].op = wire[l][n].op /\ wire'[l][n].words = wire[l][n].words
          /\ wire'[l][n].value = wire[l][n].value /\ wire'[l][n].test = wire[l][n].test
          /\ wire'[l][n].outcome = "logged"
      BY <2>2, <2>3 DEF Grown
    <2> QED
      BY <2>1, <2>5, <2>6 DEF Tells
  <1>3. ASSUME NEW l \in Links, NEW n \in 1..Len(wire'[l]), wire'[l][n].outcome = "logged"
        PROVE  n \in 1..Len(wire[l]) /\ wire[l][n].outcome = "logged"
    <2>1. Grown(wire'[l], wire[l])
      OBVIOUS
    <2>2. Len(wire[l]) \in Nat /\ Len(wire'[l]) \in Nat
      BY <1>0, <1>1
    <2>3. n \notin (Len(wire[l]) + 1)..Len(wire'[l])
      BY <1>3, <2>1 DEF Grown
    <2>4. n \in 1..Len(wire[l])
      BY <2>2, <2>3
    <2> QED
      BY <1>3, <2>1, <2>4 DEF Grown
  <1>4. LogMatchesBus'
    <2>1. (\A i \in 1..Len(log) : Tells(log[i]))'
      <3> SUFFICES ASSUME NEW i \in 1..Len(log) PROVE Tells(log[i])'
        OBVIOUS
      <3> QED
        BY <1>2
    <2>2. \A i, j \in 1..Len(log') : (i < j /\ log'[i].link = log'[j].link)
            => log'[i].access.nth < log'[j].access.nth
      BY DEF LogMatchesBus
    <2>3. \A l \in Links : \A n \in 1..Len(wire'[l]) : wire'[l][n].outcome = "logged" =>
            \E i \in 1..Len(log') : log'[i].link = l /\ log'[i].access.nth = n
      BY <1>3 DEF LogMatchesBus
    <2> QED
      BY <2>1, <2>2, <2>3 DEF LogMatchesBus
  <1>5. ASSUME NEW i \in 1..Len(log)
        PROVE  log[i].stamp >= wire'[log[i].link][log[i].access.nth].at
    <2>1. Tells(log[i]) /\ log[i].link \in Links
      BY <1>1 DEF LogMatchesBus
    <2>2. Grown(wire'[log[i].link], wire[log[i].link])
      BY <2>1
    <2>3. wire'[log[i].link][log[i].access.nth].at = wire[log[i].link][log[i].access.nth].at
      BY <2>1, <2>2 DEF Tells, Grown
    <2> QED
      BY <2>3 DEF StampsOrdered
  <1> QED
    BY <1>4, <1>5 DEF StampsOrdered

LEMMA AccessGrows ==
  ASSUME BusTypeOK, NEW l \in Links, NEW op \in Ops, NEW words \in Nat,
         NEW reached \in 0..words, Access(l, op, words, reached)
  PROVE  \A k \in Links : Grown(wire'[k], wire[k])
  <1>1. \A k \in Links : Len(wire[k]) \in Nat
    BY DEF BusTypeOK
  <1>2. \A k \in Links \ {l} : wire'[k] = wire[k]
    BY AccessEffect
  <1>3. /\ Len(wire'[l]) = Len(wire[l]) + 1
        /\ \A n \in 1..Len(wire[l]) : wire'[l][n] = wire[l][n]
        /\ wire'[l][Len(wire[l]) + 1].outcome # "logged"
    <2>1. Len(wire'[l]) = Len(wire[l]) + 1
      BY AccessEffect
    <2>2. wire'[l][Len(wire'[l])].outcome = IF reached = words THEN "underway" ELSE "threw"
      BY AccessEffect
    <2> QED
      BY <2>1, <2>2, AccessEffect
  <1>4. Grown(wire'[l], wire[l])
    BY <1>1, <1>3 DEF Grown
  <1> QED
    BY <1>1, <1>2, <1>4 DEF Grown

LEMMA SameGrows ==
  ASSUME BusTypeOK, wire' = wire
  PROVE  \A k \in Links : Grown(wire'[k], wire[k])
BY LogTyped DEF Grown

LEMMA FailGrows ==
  ASSUME BusInv, NEW l \in Links, PushFails(l)
  PROVE  \A k \in Links : Grown(wire'[k], wire[k])
  <1>1. Len(wire[l]) > 0 /\ LastCall(l).outcome = "underway" /\ Len(wire[l]) \in Nat
    BY DEF BusInv, CallSound, PushFails, Idle, BusTypeOK
  <1>2. /\ \A k \in Links \ {l} : wire'[k] = wire[k]
        /\ SameCalls(wire'[l], wire[l]) /\ wire'[l][Len(wire[l])].outcome = "unrecorded"
        /\ \A n \in 1..(Len(wire[l]) - 1) : wire'[l][n] = wire[l][n]
    BY <1>1, EndsEffect DEF BusInv, PushFails
  <1>3. Grown(wire'[l], wire[l])
    <2> DEFINE v == wire'[l]
               w == wire[l]
    <2>1. Len(v) = Len(w) /\ Len(w) \in Nat \ {0}
      BY <1>1, <1>2 DEF SameCalls
    <2>2. ASSUME NEW n \in 1..Len(w)
          PROVE  \/ v[n].outcome = w[n].outcome
                 \/ w[n].outcome = "underway" /\ v[n].outcome = "unrecorded"
      <3>1. CASE n = Len(w)
        BY <1>1, <1>2, <3>1 DEF LastCall
      <3>2. CASE n # Len(w)
        BY <1>2, <2>1, <3>2
      <3> QED
        BY <3>1, <3>2
    <2>3. (Len(w) + 1)..Len(v) = {}
      BY <2>1
    <2> QED
      BY <1>2, <2>1, <2>2, <2>3 DEF Grown, SameCalls
  <1>4. \A k \in Links \ {l} : Grown(wire'[k], wire[k])
    <2>1. \A k \in Links : Len(wire[k]) \in Nat
      BY LogTyped DEF BusInv
    <2> QED
      BY <1>2, <2>1 DEF Grown
  <1> QED
    BY <1>3, <1>4

\* The record of a push is the access that was last on its link.
LEMMA PushKeepsLog ==
  ASSUME BusInv, NEW l \in Links, Push(l), BusTypeOK'
  PROVE  LogMatchesBus' /\ StampsOrdered'
  <1> DEFINE last == Len(log) + 1
             r == NewRecord(l)
  <1>1. /\ Len(wire[l]) > 0 /\ LastCall(l).outcome = "underway" /\ LastCall(l).test = test[l]
        /\ call[l].stage = "stamped" /\ Len(log) \in Nat /\ Len(log') = last
        /\ log'[last] = r /\ \A i \in 1..Len(log) : log'[i] = log[i]
    <2>1. /\ Len(wire[l]) > 0 /\ LastCall(l).outcome = "underway" /\ LastCall(l).test = test[l]
          /\ call[l].stage = "stamped"
      BY PushEffect
    <2>2. Len(log) \in Nat /\ Len(log') = last /\ log'[last] = r
      BY PushEffect
    <2>3. \A i \in 1..Len(log) : log'[i] = log[i]
      BY PushEffect
    <2> QED
      BY <2>1, <2>2, <2>3
  <1>2. /\ \A k \in Links \ {l} : wire'[k] = wire[k]
        /\ SameCalls(wire'[l], wire[l]) /\ wire'[l][Len(wire[l])].outcome = "logged"
        /\ \A n \in 1..(Len(wire[l]) - 1) : wire'[l][n] = wire[l][n]
    <2>1. BusTypeOK /\ Ends(l, "logged")
      BY PushEffect DEF BusInv
    <2> QED
      BY <1>1, <2>1, EndsEffect
  <1>3. /\ r.link = l /\ r.stamp = call[l].stamp /\ r.access.nth = Len(wire[l])
        /\ r.access.op = LastCall(l).op /\ r.access.words = LastCall(l).words
        /\ r.access.value = LastCall(l).value /\ r.access.test = test[l]
    BY DEF NewRecord, Recorded, LastCall
  <1> HIDE DEF r
  <1>4. /\ \A i \in 1..Len(log) : /\ log[i].link \in Links /\ log[i].access.nth \in Nat \ {0}
                                 /\ Tells(log[i])
        /\ \A k \in Links : Len(wire[k]) \in Nat
    BY LogTyped DEF BusInv, LogMatchesBus
  \* An earlier record of this link is of an earlier call.
  <1>5. ASSUME NEW i \in 1..Len(log), log[i].link = l
        PROVE  log[i].access.nth \in 1..(Len(wire[l]) - 1)
    <2>1. wire[l][log[i].access.nth].outcome = "logged" /\ log[i].access.nth \in 1..Len(wire[l])
      BY <1>4, <1>5 DEF Tells
    <2>2. log[i].access.nth # Len(wire[l])
      BY <1>1, <2>1 DEF LastCall
    <2> QED
      BY <1>4, <2>1, <2>2
  <1>6. ASSUME NEW i \in 1..Len(log) PROVE Tells(log[i])'
    <2> DEFINE k == log[i].link
               n == log[i].access.nth
    <2>1. k \in Links /\ n \in 1..Len(wire[k]) /\ Tells(log[i]) /\ log'[i] = log[i]
      BY <1>1, <1>4 DEF Tells
    <2>2. wire'[k][n] = wire[k][n] /\ Len(wire'[k]) = Len(wire[k])
      <3>1. CASE k = l
        BY <1>2, <1>5, <3>1 DEF SameCalls
      <3>2. CASE k # l
        BY <1>2, <2>1, <3>2
      <3> QED
        BY <3>1, <3>2
    <2> QED
      BY <2>1, <2>2 DEF Tells
  <1>7. ASSUME NEW i, i = last PROVE Tells(log[i])'
    <2> DEFINE n == Len(wire[l])
    <2>1. n \in 1..Len(wire[l]) /\ Len(wire'[l]) = n
      BY <1>1, <1>2, <1>4 DEF SameCalls
    <2>2. /\ wire'[l][n].op = wire[l][n].op /\ wire'[l][n].words = wire[l][n].words
          /\ wire'[l][n].value = wire[l][n].value /\ wire'[l][n].test = wire[l][n].test
          /\ wire'[l][n].outcome = "logged"
      BY <1>2, <2>1 DEF SameCalls
    <2>3. log'[i] = r
      BY <1>1, <1>7
    <2>4. r.access.test = wire[l][n].test
      BY <1>1, <1>3 DEF LastCall
    <2> QED
      BY <1>3, <2>1, <2>2, <2>3, <2>4 DEF Tells, LastCall
  <1>8. (\A i \in 1..Len(log) : Tells(log[i]))'
    <2> SUFFICES ASSUME NEW i \in 1..last PROVE Tells(log[i])'
      BY <1>1
    <2>1. CASE i = last
      BY <1>7, <2>1
    <2>2. CASE i \in 1..Len(log)
      BY <1>6, <2>2
    <2> QED
      BY <1>1, <2>1, <2>2
  <1>9. \A i, j \in 1..Len(log') : (i < j /\ log'[i].link = log'[j].link)
          => log'[i].access.nth < log'[j].access.nth
    <2> SUFFICES ASSUME NEW i \in 1..last, NEW j \in 1..last, i < j,
                        log'[i].link = log'[j].link
                 PROVE  log'[i].access.nth < log'[j].access.nth
      BY <1>1
    <2>1. CASE j \in 1..Len(log)
      <3>1. i \in 1..Len(log) /\ log'[i] = log[i] /\ log'[j] = log[j]
        BY <1>1, <2>1
      <3> QED
        BY <2>1, <3>1 DEF BusInv, LogMatchesBus
    <2>2. CASE j = last
      <3>1. i \in 1..Len(log) /\ log'[i] = log[i] /\ log'[j] = r
        BY <1>1, <2>2
      <3> QED
        BY <1>3, <1>4, <1>5, <3>1
    <2> QED
      BY <1>1, <2>1, <2>2
  <1>10. ASSUME NEW k \in Links, NEW n \in 1..Len(wire'[k]), wire'[k][n].outcome = "logged"
         PROVE  \E i \in 1..Len(log') : log'[i].link = k /\ log'[i].access.nth = n
    <2>1. CASE k = l /\ n = Len(wire[l])
      BY <1>1, <1>3, <2>1
    <2>2. CASE ~ (k = l /\ n = Len(wire[l]))
      <3>1. n \in 1..Len(wire[k]) /\ wire[k][n].outcome = "logged"
        <4>1. CASE k # l
          BY <1>2, <1>10, <4>1
        <4>2. CASE k = l
          <5>1. Len(wire'[l]) = Len(wire[l]) /\ n \in 1..(Len(wire[l]) - 1)
            BY <1>2, <1>4, <2>2, <4>2 DEF SameCalls
          <5> QED
            BY <1>2, <1>4, <1>10, <4>2, <5>1
        <4> QED
          BY <4>1, <4>2
      <3>2. PICK i \in 1..Len(log) : log[i].link = k /\ log[i].access.nth = n
        BY <3>1 DEF BusInv, LogMatchesBus
      <3> QED
        BY <1>1, <3>2
    <2> QED
      BY <2>1, <2>2
  <1>11. LogMatchesBus'
    BY <1>8, <1>9, <1>10 DEF LogMatchesBus
  <1>12. /\ LastCall(l).at <= r.stamp /\ \A i \in 1..Len(log) : log[i].stamp <= r.stamp
    BY <1>1, <1>3 DEF BusInv, TimeSound
  <1>13. \A i, j \in 1..Len(log') : i < j => log'[i].stamp <= log'[j].stamp
    <2> SUFFICES ASSUME NEW i \in 1..last, NEW j \in 1..last, i < j
                 PROVE  log'[i].stamp <= log'[j].stamp
      BY <1>1
    <2>1. CASE j \in 1..Len(log)
      <3>1. i \in 1..Len(log) /\ log'[i] = log[i] /\ log'[j] = log[j]
        BY <1>1, <2>1
      <3> QED
        BY <2>1, <3>1 DEF BusInv, StampsOrdered
    <2>2. CASE j = last
      BY <1>1, <1>12, <2>2
    <2> QED
      BY <1>1, <2>1, <2>2
  <1>14. ASSUME NEW i \in 1..Len(log')
         PROVE  log'[i].stamp >= wire'[log'[i].link][log'[i].access.nth].at
    <2>1. CASE i = last
      <3>1. wire'[l][Len(wire[l])].at = LastCall(l).at
        <4>1. Len(wire[l]) \in 1..Len(wire[l])
          BY <1>1, <1>4
        <4>2. SameCalls(wire'[l], wire[l])
          BY <1>2
        <4> QED
          BY <4>1, <4>2 DEF SameCalls, LastCall
      <3>2. r.stamp \in Nat /\ LastCall(l).at \in Nat
        <4>1. r.stamp \in Nat
          BY <1>3 DEF BusInv, BusTypeOK, Call
        <4>2. LastCall(l).at \in Nat
          BY <1>1, <1>4, LogTyped DEF BusInv, LastCall
        <4> QED
          BY <4>1, <4>2
      <3> QED
        BY <1>1, <1>3, <1>12, <2>1, <3>1, <3>2
    <2>2. CASE i \in 1..Len(log)
      <3>1. log[i].stamp >= wire[log[i].link][log[i].access.nth].at
        BY <2>2 DEF BusInv, StampsOrdered
      <3>2. wire'[log[i].link][log[i].access.nth].at = wire[log[i].link][log[i].access.nth].at
        <4>1. CASE log[i].link = l
          BY <1>2, <1>5, <2>2, <4>1
        <4>2. CASE log[i].link # l
          BY <1>2, <1>4, <2>2, <4>2
        <4> QED
          BY <4>1, <4>2
      <3> QED
        BY <1>1, <2>2, <3>1, <3>2
    <2> QED
      BY <1>1, <2>1, <2>2
  <1> QED
    BY <1>11, <1>13, <1>14 DEF StampsOrdered

LEMMA ClearKeepsLog ==
  ASSUME BusInv, Clear
  PROVE  LogMatchesBus' /\ StampsOrdered'
  <1>1. log' = <<>> /\ \A l \in Links : wire'[l] = Forgotten(wire[l])
    BY DEF Clear
  <1>2. \A l \in Links : \A n \in 1..Len(wire'[l]) : wire'[l][n].outcome # "logged"
    <2> TAKE l \in Links
    <2>1. wire[l] \in Seq(WireCall) /\ wire'[l] = Forgotten(wire[l])
      BY <1>1, LogTyped DEF BusInv
    <2>2. Len(wire'[l]) = Len(wire[l])
      BY <2>1, ForgottenEffect DEF SameCalls
    <2> DEFINE w == wire[l]
    <2>3. \A n \in 1..Len(w) : Forgotten(w)[n].outcome =
            IF w[n].outcome = "logged" THEN "cleared" ELSE w[n].outcome
      BY <2>1, ForgottenEffect
    <2>4. \A n \in 1..Len(w) : Forgotten(w)[n].outcome # "logged"
      BY <2>3
    <2> QED
      BY <2>1, <2>2, <2>4
  <1> QED
    <2>1. 1..Len(log') = {}
      BY <1>1
    <2> QED
      BY <1>2, <2>1 DEF LogMatchesBus, StampsOrdered

LEMMA BusStepLog ==
  ASSUME BusInv, BusStep
  PROVE  LogMatchesBus' /\ StampsOrdered'
  <1> USE DEF costVars, linkVars, fileVars
  <1>1. BusTypeOK /\ LogMatchesBus /\ StampsOrdered /\ BusTypeOK'
    BY BusStepTyped DEF BusInv
  <1>2. CASE \E l \in Links : Push(l)
    BY <1>1, <1>2, PushKeepsLog
  <1>3. CASE Clear
    BY <1>3, ClearKeepsLog
  <1>4. CASE \E l \in Links : AnyAccess(l) \/ PushFails(l)
    <2>1. log' = log
      BY <1>4 DEF AnyAccess, Access, PushFails
    <2>2. \A k \in Links : Grown(wire'[k], wire[k])
      <3>1. ASSUME NEW l \in Links, AnyAccess(l) PROVE \A k \in Links : Grown(wire'[k], wire[k])
        <4>1. PICK op \in Ops, words \in Nat : \E reached \in 0..words : Access(l, op, words, reached)
          BY <3>1 DEF AnyAccess
        <4> QED
          BY <1>1, <4>1, AccessGrows
      <3>2. ASSUME NEW l \in Links, PushFails(l) PROVE \A k \in Links : Grown(wire'[k], wire[k])
        BY <1>1, <3>2, FailGrows
      <3> QED
        BY <1>4, <3>1, <3>2
    <2> QED
      BY <1>1, <2>1, <2>2, LogKept
  <1>5. CASE \/ Snapshot \/ WriteFile \/ OpenFails \/ TimePasses
             \/ \E l \in Links : \/ ResetCounters(l) \/ Lock(l) \/ Stamp(l)
                                 \/ \E name \in TestNames[l] : SetTest(l, name)
    <2>1. log' = log /\ wire' = wire
      BY <1>5 DEF Snapshot, WriteFile, OpenFails, TimePasses, ResetCounters, Lock, Stamp, SetTest
    <2> QED
      BY <1>1, <2>1, SameGrows, LogKept
  <1> QED
    BY <1>2, <1>3, <1>4, <1>5 DEF BusStep, LinkStep, RecordStep, LogCall

------------------------------------------------------------------------------
(* The calls under way *)

LEMMA CallKept ==
  ASSUME NEW k, CallSound(k), call'[k] = call[k], test'[k] = test[k],
         Len(wire'[k]) = Len(wire[k]), (mutex' = k) <=> (mutex = k),
         Len(wire[k]) > 0 /\ LastCall(k).outcome = "underway" =>
           LastCall(k)'.outcome = "underway" /\ LastCall(k)'.test = LastCall(k).test
  PROVE  CallSound(k)'
BY DEF CallSound

LEMMA LinkStepCalls ==
  ASSUME BusInv, NEW l \in Links, LinkStep(l), BusTypeOK', NEW k \in Links
  PROVE  CallSound(k)'
  <1> USE DEF costVars, linkVars, fileVars
  <1>1. CallSound(k) /\ CallSound(l) /\ k # Nobody /\ l # Nobody
    BY LinksAssumption DEF BusInv
  <1>2. call \in [Links -> Call] /\ test \in [Links -> Label] /\ BusTypeOK
    BY DEF BusInv, BusTypeOK
  <1>3. Idle.stage = "idle"
    BY DEF Idle
  <1>4. ASSUME ResetCounters(l) PROVE CallSound(k)'
    BY <1>1, <1>4, CallKept DEF ResetCounters, LastCall
  <1>5. ASSUME NEW name \in TestNames[l], SetTest(l, name) PROVE CallSound(k)'
    <2>0. /\ call' = call /\ wire' = wire /\ mutex' = mutex /\ call[l] = Idle
          /\ test' = [test EXCEPT ![l] = name]
      BY <1>5 DEF SetTest
    <2>1. CASE k = l
      BY <1>1, <1>3, <2>0, <2>1 DEF CallSound
    <2>2. CASE k # l
      <3>1. test'[k] = test[k]
        BY <1>2, <2>0, <2>2
      <3> QED
        BY <1>1, <2>0, <3>1, CallKept DEF LastCall
    <2> QED
      BY <2>1, <2>2
  <1>6. ASSUME NEW op \in Ops, NEW words \in Nat, NEW reached \in 0..words,
               Access(l, op, words, reached)
        PROVE  CallSound(k)'
    <2>1. mutex' = mutex /\ test' = test
      BY <1>6 DEF Access
    <2>2. CASE k # l
      <3>1. call'[k] = call[k] /\ wire'[k] = wire[k]
        BY <1>2, <1>6, <2>2, AccessEffect
      <3> QED
        BY <1>1, <2>1, <3>1, CallKept DEF LastCall
    <2>3. CASE k = l
      <3>1. /\ call[l] = Idle /\ Len(wire'[l]) = Len(wire[l]) + 1
            /\ wire'[l][Len(wire'[l])].test = test[l]
        BY <1>2, <1>6, AccessEffect
      <3>2. /\ wire'[l][Len(wire'[l])].outcome = IF reached = words THEN "underway" ELSE "threw"
            /\ call'[l] = IF reached = words THEN [Idle EXCEPT !.stage = "access"] ELSE Idle
        <4>1. call'[l] = IF reached = words THEN [Idle EXCEPT !.stage = "access"] ELSE Idle
          BY <1>2, <1>6, AccessEffect
        <4>2. wire'[l][Len(wire'[l])].outcome = IF reached = words THEN "underway" ELSE "threw"
          BY <1>2, <1>6, AccessEffect
        <4> QED
          BY <4>1, <4>2
      <3>3. Len(wire[l]) \in Nat /\ mutex # l
        <4>1. Len(wire[l]) \in Nat
          BY <1>2, LogTyped
        <4>2. mutex # l
          BY <1>1, <1>3, <3>1 DEF CallSound
        <4> QED
          BY <4>1, <4>2
      <3>4. CASE reached = words
        <4>1. call'[l].stage = "access" /\ wire'[l][Len(wire'[l])].outcome = "underway"
          BY <3>2, <3>4 DEF Idle
        <4> QED
          BY <2>1, <2>3, <3>1, <3>3, <4>1 DEF CallSound, LastCall
      <3>5. CASE reached # words
        <4>1. call'[l] = Idle
          BY <3>2, <3>5
        <4> QED
          BY <1>3, <2>1, <2>3, <3>3, <4>1 DEF CallSound
      <3> QED
        BY <3>4, <3>5
    <2> QED
      BY <2>2, <2>3
  <1>7. ASSUME Lock(l) PROVE CallSound(k)'
    <2>0. /\ call[l].stage = "access" /\ mutex = Nobody /\ mutex' = l
          /\ call' = [call EXCEPT ![l] = [call[l] EXCEPT !.stage = "locked"]]
          /\ wire' = wire /\ test' = test
      BY <1>7 DEF Lock
    <2>1. CASE k = l
      <3>1. call'[l].stage = "locked" /\ call[l] # Idle
        BY <1>2, <1>3, <2>0 DEF Call
      <3> QED
        BY <1>1, <2>0, <2>1, <3>1 DEF CallSound, LastCall
    <2>2. CASE k # l
      <3>1. call'[k] = call[k]
        BY <1>2, <2>0, <2>2
      <3> QED
        BY <1>1, <2>0, <2>2, <3>1, CallKept DEF LastCall
    <2> QED
      BY <2>1, <2>2
  <1>8. ASSUME Stamp(l) PROVE CallSound(k)'
    <2>0. /\ call[l].stage = "locked" /\ mutex' = mutex
          /\ call' = [call EXCEPT ![l] = [stage |-> "stamped", stamp |-> now]]
          /\ wire' = wire /\ test' = test
      BY <1>8 DEF Stamp
    <2>1. CASE k = l
      <3>1. call'[l].stage = "stamped" /\ call[l] # Idle
        BY <1>2, <1>3, <2>0
      <3> QED
        BY <1>1, <2>0, <2>1, <3>1 DEF CallSound, LastCall
    <2>2. CASE k # l
      <3>1. call'[k] = call[k]
        BY <1>2, <2>0, <2>2
      <3> QED
        BY <1>1, <2>0, <3>1, CallKept DEF LastCall
    <2> QED
      BY <2>1, <2>2
  <1>9. ASSUME Push(l) \/ PushFails(l) PROVE CallSound(k)'
    <2>0. /\ call[l].stage = "stamped" /\ mutex' = Nobody /\ test' = test
          /\ \E outcome \in {"logged", "unrecorded"} : Ends(l, outcome)
      BY <1>9 DEF Push, PushFails
    <2>1. mutex = l /\ Len(wire[l]) > 0
      BY <1>1, <1>3, <2>0 DEF CallSound
    <2>2. call'[l] = Idle /\ \A m \in Links \ {l} : call'[m] = call[m] /\ wire'[m] = wire[m]
      BY <1>2, <2>0, <2>1, EndsEffect
    <2>3. CASE k = l
      BY <1>1, <1>3, <2>0, <2>2, <2>3 DEF CallSound
    <2>4. CASE k # l
      BY <1>1, <2>0, <2>1, <2>2, <2>4, CallKept DEF LastCall
    <2> QED
      BY <2>3, <2>4
  <1> QED
    BY <1>4, <1>5, <1>6, <1>7, <1>8, <1>9 DEF LinkStep, AnyAccess, RecordStep

LEMMA BusStepCalls ==
  ASSUME BusInv, BusStep, BusTypeOK', NEW k \in Links
  PROVE  CallSound(k)'
  <1> USE DEF costVars, linkVars, fileVars
  <1>1. CallSound(k) /\ BusTypeOK
    BY DEF BusInv
  <1>2. ASSUME Clear PROVE CallSound(k)'
    <2>1. /\ call' = call /\ test' = test /\ mutex' = mutex
          /\ wire'[k] = Forgotten(wire[k]) /\ wire[k] \in Seq(WireCall) /\ Len(wire[k]) \in Nat
      BY <1>1, <1>2, LogTyped DEF Clear
    <2>2. /\ SameCalls(wire'[k], wire[k])
          /\ \A n \in 1..Len(wire[k]) : wire'[k][n].outcome =
               IF wire[k][n].outcome = "logged" THEN "cleared" ELSE wire[k][n].outcome
      BY <2>1, ForgottenEffect
    <2>3. Len(wire'[k]) = Len(wire[k])
      BY <2>2 DEF SameCalls
    <2>4. ASSUME Len(wire[k]) > 0, LastCall(k).outcome = "underway"
          PROVE  LastCall(k)'.outcome = "underway" /\ LastCall(k)'.test = LastCall(k).test
      <3>1. Len(wire[k]) \in 1..Len(wire[k])
        BY <2>1, <2>4
      <3>2. wire'[k][Len(wire[k])].outcome = "underway"
        BY <2>2, <2>4, <3>1 DEF LastCall
      <3> QED
        BY <2>2, <2>3, <3>1, <3>2 DEF SameCalls, LastCall
    <2> QED
      BY <1>1, <2>1, <2>3, <2>4, CallKept
  <1>3. ASSUME Snapshot \/ WriteFile \/ OpenFails \/ TimePasses PROVE CallSound(k)'
    <2>1. call' = call /\ test' = test /\ mutex' = mutex /\ wire' = wire
      BY <1>3 DEF Snapshot, WriteFile, OpenFails, TimePasses
    <2> QED
      BY <1>1, <2>1, CallKept DEF LastCall
  <1> QED
    BY <1>2, <1>3, LinkStepCalls DEF BusStep, LogCall

------------------------------------------------------------------------------
(* The clock *)

\* The calls of link k have kept their times, or are made now, and none of
\* them has just been stamped.
Later(k) ==
  /\ \A n \in 1..Len(wire'[k]) :
       \/ wire'[k][n].at = now
       \/ n \in 1..Len(wire[k]) /\ wire'[k][n].at = wire[k][n].at
  /\ call'[k].stage = "stamped" =>
       /\ call'[k] = call[k] /\ Len(wire'[k]) = Len(wire[k])
       /\ wire'[k][Len(wire[k])].at = wire[k][Len(wire[k])].at

LEMMA TimeKept ==
  ASSUME BusInv, BusTypeOK', now' >= now, log' = log \/ log' = <<>>,
         \A k \in Links : Later(k)
  PROVE  TimeSound'
  <1>1. now \in Nat /\ now' \in Nat /\ TimeSound
    BY DEF BusInv, BusTypeOK
  <1>2. /\ Len(log) \in Nat /\ \A i \in 1..Len(log) : log[i].stamp \in Nat
        /\ \A l \in Links : \A n \in 1..Len(wire[l]) : wire[l][n].at \in Nat
    BY LogTyped DEF BusInv
  <1>3. \A i \in 1..Len(log') : i \in 1..Len(log) /\ log'[i] = log[i]
    BY <1>2
  <1>4. \A i \in 1..Len(log') : log'[i].stamp <= now'
    BY <1>1, <1>2, <1>3 DEF TimeSound
  <1>5. ASSUME NEW k \in Links, NEW n \in 1..Len(wire'[k])
        PROVE  wire'[k][n].at <= now'
    <2>1. CASE wire'[k][n].at = now
      BY <1>1, <2>1
    <2>2. CASE n \in 1..Len(wire[k]) /\ wire'[k][n].at = wire[k][n].at
      BY <1>1, <1>2, <2>2 DEF TimeSound
    <2> QED
      BY <2>1, <2>2 DEF Later
  <1>6. ASSUME NEW k \in Links, call'[k].stage = "stamped"
        PROVE  /\ call'[k].stamp <= now' /\ LastCall(k)'.at <= call'[k].stamp
               /\ \A i \in 1..Len(log') : log'[i].stamp <= call'[k].stamp
    <2>1. call'[k] = call[k] /\ call[k].stage = "stamped" /\ LastCall(k)'.at = LastCall(k).at
      BY <1>6 DEF Later, LastCall
    <2>2. /\ call[k].stamp <= now /\ LastCall(k).at <= call[k].stamp
          /\ \A i \in 1..Len(log) : log[i].stamp <= call[k].stamp
      BY <1>1, <2>1 DEF TimeSound
    <2>3. call[k].stamp \in Nat
      BY DEF BusInv, BusTypeOK, Call
    <2> QED
      BY <1>1, <1>3, <2>1, <2>2, <2>3
  <1> QED
    BY <1>4, <1>5, <1>6 DEF TimeSound

LEMMA LinkStepTime ==
  ASSUME BusInv, NEW l \in Links, LinkStep(l), BusTypeOK'
  PROVE  TimeSound'
  <1> USE DEF costVars, linkVars, fileVars
  <1>1. /\ BusTypeOK /\ TimeSound /\ now \in Nat /\ now >= now /\ CallSound(l)
        /\ call \in [Links -> Call]
    <2>1. BusTypeOK /\ TimeSound /\ CallSound(l)
      BY DEF BusInv
    <2>2. now \in Nat /\ call \in [Links -> Call]
      BY <2>1 DEF BusTypeOK
    <2>3. now >= now
      BY <2>2
    <2> QED
      BY <2>1, <2>2, <2>3
  <1>2. /\ Len(log) \in Nat /\ \A i \in 1..Len(log) : log[i].stamp \in Nat
        /\ \A k \in Links : /\ Len(wire[k]) \in Nat
                            /\ \A n \in 1..Len(wire[k]) : wire[k][n].at \in Nat
    BY LogTyped DEF BusInv
  <1>3. ASSUME ResetCounters(l) \/ \E name \in TestNames[l] : SetTest(l, name)
        PROVE  TimeSound'
    <2>1. call' = call /\ wire' = wire /\ now' = now /\ log' = log
      BY <1>3 DEF ResetCounters, SetTest
    <2>2. \A k \in Links : Later(k)
      BY <2>1 DEF Later
    <2> QED
      BY <1>1, <2>1, <2>2, TimeKept
  <1>4. ASSUME NEW op \in Ops, NEW words \in Nat, NEW reached \in 0..words,
               Access(l, op, words, reached)
        PROVE  TimeSound'
    <2>1. now' = now /\ log' = log
      BY <1>4 DEF Access
    <2>2. \A k \in Links \ {l} : call'[k] = call[k] /\ wire'[k] = wire[k]
      BY <1>1, <1>4, AccessEffect
    <2>3. /\ Len(wire'[l]) = Len(wire[l]) + 1 /\ wire'[l][Len(wire'[l])].at = now
          /\ \A n \in 1..Len(wire[l]) : wire'[l][n] = wire[l][n]
      BY <1>1, <1>4, AccessEffect
    <2>4. call'[l].stage # "stamped"
      <3>1. call'[l] = IF reached = words THEN [Idle EXCEPT !.stage = "access"] ELSE Idle
        BY <1>1, <1>4, AccessEffect
      <3> QED
        BY <3>1 DEF Idle
    <2>5. Later(l)
      BY <1>2, <2>3, <2>4 DEF Later
    <2>6. \A k \in Links \ {l} : Later(k)
      BY <2>2 DEF Later
    <2> QED
      BY <1>1, <2>1, <2>5, <2>6, TimeKept
  <1>5. ASSUME Lock(l) PROVE TimeSound'
    <2>1. /\ wire' = wire /\ now' = now /\ log' = log
          /\ call' = [call EXCEPT ![l] = [call[l] EXCEPT !.stage = "locked"]]
      BY <1>5 DEF Lock
    <2>2. call'[l].stage = "locked" /\ \A k \in Links \ {l} : call'[k] = call[k]
      BY <1>1, <2>1 DEF Call
    <2>3. \A k \in Links : Later(k)
      BY <2>1, <2>2 DEF Later
    <2> QED
      BY <1>1, <2>1, <2>3, TimeKept
  <1>6. ASSUME Stamp(l) PROVE TimeSound'
    <2>1. /\ wire' = wire /\ now' = now /\ log' = log /\ call[l].stage = "locked"
          /\ call' = [call EXCEPT ![l] = [stage |-> "stamped", stamp |-> now]]
      BY <1>6 DEF Stamp
    <2>2. call'[l].stamp = now /\ \A k \in Links \ {l} : call'[k] = call[k]
      BY <1>1, <2>1
    <2>3. Len(wire[l]) \in 1..Len(wire[l])
      BY <1>1, <1>2, <2>1 DEF CallSound, Idle
    <2>4. LastCall(l).at <= now
      BY <1>1, <2>3 DEF TimeSound, LastCall
    <2> QED
      BY <1>1, <2>1, <2>2, <2>4 DEF TimeSound, LastCall
  <1>7. ASSUME Push(l) \/ PushFails(l) PROVE TimeSound'
    <2>1. call[l].stage = "stamped" /\ \E outcome \in {"logged", "unrecorded"} : Ends(l, outcome)
      BY <1>7 DEF Push, PushFails
    <2>2. Len(wire[l]) > 0
      BY <1>1, <2>1 DEF CallSound, Idle
    <2>3. /\ call'[l] = Idle /\ SameCalls(wire'[l], wire[l])
          /\ \A k \in Links \ {l} : call'[k] = call[k] /\ wire'[k] = wire[k]
      BY <1>1, <2>1, <2>2, EndsEffect
    <2>4. now' = now
      BY <1>7 DEF Push, PushFails
    <2>5. Later(l)
      BY <2>3 DEF Later, SameCalls, Idle
    <2>6. \A k \in Links \ {l} : Later(k)
      BY <2>3 DEF Later
    <2>7. CASE PushFails(l)
      <3>1. log' = log
        BY <2>7 DEF PushFails
      <3> QED
        BY <1>1, <2>4, <2>5, <2>6, <3>1, TimeKept
    <2>8. CASE Push(l)
      <3>1. /\ Len(log') = Len(log) + 1 /\ log'[Len(log) + 1].stamp = call[l].stamp
            /\ \A i \in 1..Len(log) : log'[i] = log[i]
        <4>1. Len(log') = Len(log) + 1 /\ log'[Len(log) + 1] = NewRecord(l)
          BY <2>8, PushEffect
        <4>2. \A i \in 1..Len(log) : log'[i] = log[i]
          BY <2>8, PushEffect
        <4> QED
          BY <4>1, <4>2 DEF NewRecord
      <3>2. \A i \in 1..Len(log') : log'[i].stamp <= now'
        BY <1>1, <1>2, <2>1, <2>4, <3>1 DEF TimeSound
      <3>3. \A k \in Links : \A n \in 1..Len(wire'[k]) : wire'[k][n].at <= now'
        <4> TAKE k \in Links
        <4> TAKE n \in 1..Len(wire'[k])
        <4>1. Later(k)
          BY <2>5, <2>6
        <4> QED
          BY <1>1, <2>4, <4>1 DEF Later, TimeSound
      <3>4. \A k \in Links : call'[k].stage # "stamped"
        <4>1. call'[l].stage # "stamped"
          BY <2>3 DEF Idle
        <4>2. ASSUME NEW k \in Links \ {l} PROVE call'[k].stage # "stamped"
          BY <1>1, <2>1, <2>3 DEF BusInv, CallSound
        <4> QED
          BY <4>1, <4>2
      <3> QED
        BY <3>2, <3>3, <3>4 DEF TimeSound
    <2> QED
      BY <1>7, <2>7, <2>8
  <1> QED
    BY <1>3, <1>4, <1>5, <1>6, <1>7 DEF LinkStep, AnyAccess, RecordStep

LEMMA BusStepTime ==
  ASSUME BusInv, BusStep, BusTypeOK'
  PROVE  TimeSound'
  <1> USE DEF costVars, linkVars, fileVars
  <1>1. now \in Nat
    BY DEF BusInv, BusTypeOK
  <1>2. ASSUME Clear PROVE TimeSound'
    <2>1. call' = call /\ now' = now /\ now' >= now /\ log' = <<>>
      BY <1>1, <1>2 DEF Clear
    <2>2. ASSUME NEW k \in Links PROVE Later(k)
      <3>1. wire'[k] = Forgotten(wire[k]) /\ wire[k] \in Seq(WireCall)
        BY <1>2, LogTyped DEF Clear, BusInv
      <3>2. SameCalls(wire'[k], wire[k])
        BY <3>1, ForgottenEffect
      <3>3. call'[k].stage = "stamped" => Len(wire[k]) \in 1..Len(wire[k])
        <4>1. Len(wire[k]) \in Nat /\ CallSound(k)
          BY LogTyped DEF BusInv
        <4> QED
          BY <2>1, <4>1 DEF CallSound, Idle
      <3> QED
        BY <2>1, <3>2, <3>3 DEF SameCalls, Later
    <2> QED
      BY <2>1, <2>2, TimeKept
  <1>3. ASSUME Snapshot \/ WriteFile \/ OpenFails \/ TimePasses PROVE TimeSound'
    <2>1. call' = call /\ now' >= now /\ log' = log /\ wire' = wire
      BY <1>1, <1>3 DEF Snapshot, WriteFile, OpenFails, TimePasses
    <2>2. \A k \in Links : Later(k)
      BY <2>1 DEF Later
    <2> QED
      BY <2>1, <2>2, TimeKept
  <1> QED
    BY <1>2, <1>3, LinkStepTime DEF BusStep, LogCall

------------------------------------------------------------------------------
(* The invariant holds *)

LEMMA BusInitInv == BusInit => BusInv
  <1> SUFFICES ASSUME BusInit PROVE BusInv
    OBVIOUS
  <1>1. /\ log = <<>> /\ copy = <<>> /\ mutex = Nobody /\ writer = "idle" /\ now = 0
        /\ test = [l \in Links |-> Unlabelled] /\ call = [l \in Links |-> Idle]
        /\ wire = [l \in Links |-> <<>>]
        /\ spent = [l \in Links |-> 0] /\ accesses = [l \in Links |-> 0]
        /\ billed = [l \in Links |-> 0] /\ ticks = [l \in Links |-> 0]
    BY DEF BusInit
  <1>2. left \in [Links -> Nat]
    BY BudgetsAssumption DEF BusInit
  <1>3. kind \in [Links -> {"emulated", "jtag", "i2c", "spi"}]
    <2>1. /\ kind \in [Links -> UNION {Kinds[l] : l \in Links}]
          /\ \A l \in Links : kind[l] \in Kinds[l]
      BY DEF BusInit
    <2>2. \A l \in Links : Kinds[l] \subseteq {"emulated", "jtag", "i2c", "spi"}
      BY KindsAssumption
    <2> QED
      BY <2>1, <2>2
  <1>4. BusTypeOK
    <2>1. call \in [Links -> Call] /\ wire \in [Links -> Seq(WireCall)]
      BY <1>1 DEF Call, Idle
    <2>2. log \in Records /\ copy \in Records /\ test \in [Links -> Label]
      BY <1>1 DEF Records, Label
    <2>3. /\ spent \in [Links -> Nat] /\ accesses \in [Links -> Nat]
          /\ billed \in [Links -> Nat] /\ ticks \in [Links -> Nat]
      BY <1>1
    <2>4. mutex \in Links \cup {Nobody} /\ writer \in {"idle", "open"} /\ now \in Nat
      BY <1>1
    <2> QED
      BY <1>2, <1>3, <2>1, <2>2, <2>3, <2>4 DEF BusTypeOK
  <1>5. 1..Len(log) = {} /\ \A l \in Links : 1..Len(wire[l]) = {}
    BY <1>1
  <1>6. \A l \in Links : CallSound(l)
    BY <1>1, LinksAssumption DEF CallSound, Idle
  <1>7. TimeSound
    BY <1>1, <1>5 DEF TimeSound, Idle
  <1>8. LogMatchesBus /\ StampsOrdered
    BY <1>5 DEF LogMatchesBus, StampsOrdered
  <1> QED
    BY <1>4, <1>6, <1>7, <1>8 DEF BusInv

LEMMA BusStepInv == BusInv /\ BusStep => BusInv'
  <1> SUFFICES ASSUME BusInv, BusStep PROVE BusInv'
    OBVIOUS
  <1>1. BusTypeOK'
    BY BusStepTyped
  <1>2. (\A k \in Links : CallSound(k))'
    BY <1>1, BusStepCalls
  <1>3. TimeSound' /\ LogMatchesBus' /\ StampsOrdered'
    BY <1>1, BusStepTime, BusStepLog
  <1> QED
    BY <1>1, <1>2, <1>3 DEF BusInv

LEMMA BusStays == BusInv /\ UNCHANGED busVars => BusInv'
  <1> SUFFICES ASSUME BusInv, UNCHANGED busVars PROVE BusInv'
    OBVIOUS
  <1> USE DEF busVars, costVars, linkVars, fileVars
  <1>1. BusTypeOK'
    BY DEF BusInv, BusTypeOK
  <1>2. (\A k \in Links : CallSound(k))'
    BY DEF BusInv, CallSound, LastCall
  <1>3. TimeSound'
    BY DEF BusInv, TimeSound, LastCall
  <1>4. LogMatchesBus' /\ StampsOrdered'
    BY DEF BusInv, LogMatchesBus, StampsOrdered, Tells
  <1> QED
    BY <1>1, <1>2, <1>3, <1>4 DEF BusInv

\* Whatever the callers ask for: the log holds exactly the calls that returned,
\* and its stamps never go back (txn_log.cpp: one mutex over NowNs and push_back).
THEOREM LogIsSound == BusSpec => [](BusTypeOK /\ LogMatchesBus /\ StampsOrdered)
  <1>1. BusInv /\ [BusNext]_busVars => BusInv'
    BY BusStepInv, BusStays, BusNextIsBusStep
  <1>2. BusInv => BusTypeOK /\ LogMatchesBus /\ StampsOrdered
    BY DEF BusInv
  <1> QED
    BY <1>1, <1>2, BusInitInv, PTL DEF BusSpec

------------------------------------------------------------------------------
(* The mutex makes Record one step *)

\* Link k has the same access to record as before, or still none.
Quiet(k) ==
  /\ (call'[k] = Idle) <=> (call[k] = Idle)
  /\ call[k] # Idle => Recorded(k)' = Recorded(k)

LEMMA SameRecorded ==
  ASSUME BusTypeOK, NEW k \in Links, Len(wire[k]) > 0, SameCalls(wire'[k], wire[k]),
         test'[k] = test[k]
  PROVE  Recorded(k)' = Recorded(k)
  <1>1. Len(wire[k]) \in 1..Len(wire[k]) /\ Len(wire'[k]) = Len(wire[k])
    BY LogTyped DEF SameCalls
  <1> QED
    BY <1>1 DEF Recorded, SameCalls

LEMMA UnloggedKept ==
  ASSUME \A k \in Links : Quiet(k)
  PROVE  Unlogged' = Unlogged
  <1>1. ASSUME NEW k \in Links
        PROVE  (IF call[k] = Idle THEN NoAccess ELSE Recorded(k))'
               = IF call[k] = Idle THEN NoAccess ELSE Recorded(k)
    BY DEF Quiet
  <1> QED
    BY <1>1 DEF Unlogged

LEMMA UnloggedGone ==
  ASSUME NEW l \in Links, call'[l] = Idle, \A k \in Links \ {l} : Quiet(k)
  PROVE  Unlogged' = [Unlogged EXCEPT ![l] = NoAccess]
  <1>1. ASSUME NEW k \in Links \ {l}
        PROVE  (IF call[k] = Idle THEN NoAccess ELSE Recorded(k))'
               = IF call[k] = Idle THEN NoAccess ELSE Recorded(k)
    BY DEF Quiet
  <1> QED
    BY <1>1 DEF Unlogged

\* The calls that change nothing a reader of the log can see.
LEMMA LinkStutters ==
  ASSUME BusInv, NEW l \in Links,
         \/ ResetCounters(l) \/ Lock(l) \/ Stamp(l)
         \/ \E name \in TestNames[l] : SetTest(l, name)
  PROVE  UNCHANGED <<Unlogged, log, copy, now>>
  <1> USE DEF costVars, linkVars, fileVars
  <1>1. wire' = wire /\ log' = log /\ copy' = copy /\ now' = now
    BY DEF ResetCounters, Lock, Stamp, SetTest
  <1>2. test \in [Links -> Label] /\ call \in [Links -> Call]
    BY DEF BusInv, BusTypeOK
  <1>3. ASSUME NEW k \in Links PROVE Quiet(k)
    <2>1. CASE ResetCounters(l)
      BY <2>1 DEF ResetCounters, Quiet, Recorded
    <2>2. ASSUME NEW name \in TestNames[l], SetTest(l, name) PROVE Quiet(k)
      <3>1. call' = call /\ call[l] = Idle /\ test' = [test EXCEPT ![l] = name]
        BY <2>2 DEF SetTest
      <3>2. k # l => test'[k] = test[k]
        BY <1>2, <3>1
      <3> QED
        BY <1>1, <3>1, <3>2 DEF Quiet, Recorded
    <2>3. CASE Lock(l) \/ Stamp(l)
      <3>1. /\ call[l] # Idle /\ test' = test
            /\ \/ call' = [call EXCEPT ![l] = [call[l] EXCEPT !.stage = "locked"]]
               \/ call' = [call EXCEPT ![l] = [stage |-> "stamped", stamp |-> now]]
        BY <2>3 DEF Lock, Stamp, Idle
      <3>2. call'[l] # Idle /\ (k # l => call'[k] = call[k])
        BY <1>2, <3>1 DEF Idle, Call
      <3> QED
        BY <1>1, <3>1, <3>2 DEF Quiet, Recorded
    <2> QED
      BY <2>1, <2>2, <2>3
  <1> QED
    BY <1>1, <1>3, UnloggedKept

LEMMA AccessFinishes ==
  ASSUME BusInv, BusInv', NEW l \in Links, NEW op \in Ops, NEW words \in Nat,
         NEW reached \in 0..words, Access(l, op, words, reached)
  PROVE  Abstract!Finish(l) \/ UNCHANGED <<Unlogged, log, copy, now>>
  <1>1. log' = log /\ copy' = copy /\ now' = now /\ test' = test
    BY DEF Access, fileVars
  <1>2. call[l] = Idle /\ \A k \in Links \ {l} : call'[k] = call[k] /\ wire'[k] = wire[k]
    BY AccessEffect DEF BusInv
  <1>3. ASSUME NEW k \in Links \ {l} PROVE Quiet(k)
    BY <1>1, <1>2 DEF Quiet, Recorded
  <1>4. CASE call'[l] = Idle
    <2>1. Quiet(l)
      BY <1>2, <1>4 DEF Quiet
    <2> QED
      BY <1>1, <1>3, <2>1, UnloggedKept
  <1>5. CASE call'[l] # Idle
    <2>1. Recorded(l)' \in LoggedAccess
      <3>1. BusTypeOK' /\ Len(wire'[l]) > 0
        BY <1>5 DEF BusInv, CallSound
      <3>2. LastCall(l)' \in WireCall /\ Len(wire'[l]) \in Nat \ {0} /\ test'[l] \in Label
        BY <3>1 DEF BusTypeOK, LastCall
      <3> QED
        BY <3>2 DEF WireCall, LoggedAccess, Recorded, LastCall
    <2>2. Unlogged'[l] = Recorded(l)' /\ Unlogged[l] = NoAccess
      BY <1>2, <1>5 DEF Unlogged
    <2>3. ASSUME NEW k \in Links \ {l}
          PROVE  (IF call[k] = Idle THEN NoAccess ELSE Recorded(k))'
                 = IF call[k] = Idle THEN NoAccess ELSE Recorded(k)
      BY <1>3 DEF Quiet
    <2>4. Unlogged' = [Unlogged EXCEPT ![l] = Unlogged'[l]]
      BY <2>3 DEF Unlogged
    <2> QED
      BY <1>1, <2>1, <2>2, <2>4 DEF Abstract!Finish
  <1> QED
    BY <1>4, <1>5

LEMMA PushRecords ==
  ASSUME BusInv, NEW l \in Links, Push(l)
  PROVE  Abstract!Record(l)
  <1>1. /\ call[l].stage = "stamped" /\ Len(wire[l]) > 0 /\ Ends(l, "logged")
        /\ Len(log) \in Nat /\ Len(log') = Len(log) + 1
        /\ log'[Len(log) + 1] = NewRecord(l)
    BY PushEffect
  <1>2. log' = Append(log, NewRecord(l)) /\ copy' = copy /\ now' = now /\ test' = test
    BY DEF Push, NewRecord, linkVars, fileVars
  <1>3. call'[l] = Idle /\ \A k \in Links \ {l} : call'[k] = call[k] /\ wire'[k] = wire[k]
    BY <1>1, EndsEffect DEF BusInv
  <1>4. \A k \in Links \ {l} : Quiet(k)
    BY <1>2, <1>3 DEF Quiet, Recorded
  <1>5. Unlogged' = [Unlogged EXCEPT ![l] = NoAccess]
    BY <1>3, <1>4, UnloggedGone
  <1>6. Unlogged[l] = Recorded(l) /\ Unlogged[l] # NoAccess
    <2>1. Recorded(l) \in LoggedAccess
      BY <1>1, RecordedTyped DEF BusInv
    <2>2. Recorded(l).nth # 0
      BY <2>1 DEF LoggedAccess
    <2> QED
      BY <1>1, <2>2 DEF Unlogged, NoAccess, Idle
  <1>7. log'[Len(log')].stamp = call[l].stamp /\ log' # <<>>
    BY <1>1 DEF NewRecord
  <1>8. /\ call[l].stamp <= now
        /\ log # <<>> => log[Len(log)].stamp <= call[l].stamp
    <2>1. /\ call[l].stamp <= now
          /\ \A i \in 1..Len(log) : log[i].stamp <= call[l].stamp
      BY <1>1 DEF BusInv, TimeSound
    <2>2. log # <<>> => Len(log) \in 1..Len(log)
      BY DEF BusInv, BusTypeOK, Records
    <2> QED
      BY <2>1, <2>2
  <1>9. log' = Append(log, [link |-> l, access |-> Unlogged[l], stamp |-> call[l].stamp])
    BY <1>2, <1>6 DEF NewRecord
  <1>10. Abstract!InOrder(call[l].stamp)
    BY <1>8 DEF Abstract!InOrder
  <1> QED
    BY <1>2, <1>5, <1>6, <1>7, <1>9, <1>10 DEF Abstract!Record

LEMMA FailLoses ==
  ASSUME BusInv, NEW l \in Links, PushFails(l)
  PROVE  Abstract!Lose(l)
  <1>1. call[l].stage = "stamped" /\ Ends(l, "unrecorded")
    BY DEF PushFails
  <1>2. Len(wire[l]) > 0
    BY <1>1 DEF BusInv, CallSound, Idle
  <1>3. log' = log /\ copy' = copy /\ now' = now /\ test' = test
    BY DEF PushFails, linkVars, fileVars
  <1>4. call'[l] = Idle /\ \A k \in Links \ {l} : call'[k] = call[k] /\ wire'[k] = wire[k]
    BY <1>1, <1>2, EndsEffect DEF BusInv
  <1>5. \A k \in Links \ {l} : Quiet(k)
    BY <1>3, <1>4 DEF Quiet, Recorded
  <1> QED
    BY <1>3, <1>4, <1>5, UnloggedGone DEF Abstract!Lose

LEMMA ClearClears ==
  ASSUME BusInv, Clear
  PROVE  Abstract!Clear
  <1>1. /\ log' = <<>> /\ copy' = copy /\ now' = now /\ call' = call /\ test' = test
        /\ \A k \in Links : wire'[k] = Forgotten(wire[k])
    BY DEF Clear, linkVars, fileVars
  <1>2. ASSUME NEW k \in Links PROVE Quiet(k)
    <2>1. call[k] # Idle => Len(wire[k]) > 0
      BY DEF BusInv, CallSound
    <2>2. SameCalls(wire'[k], wire[k])
      BY <1>1, LogTyped, ForgottenEffect DEF BusInv
    <2> QED
      BY <1>1, <2>1, <2>2, SameRecorded DEF BusInv, Quiet
  <1> QED
    BY <1>1, <1>2, UnloggedKept DEF Abstract!Clear

LEMMA BusStepImplements ==
  ASSUME BusInv, BusInv', BusStep
  PROVE  [Abstract!Next]_(Abstract!logVars)
  <1> USE DEF costVars, linkVars, fileVars
  <1>1. ASSUME NEW l \in Links, LinkStep(l)
        PROVE  Abstract!Next \/ UNCHANGED <<Unlogged, log, copy, now>>
    <2>1. CASE AnyAccess(l)
      <3>1. PICK op \in Ops, words \in Nat : \E reached \in 0..words : Access(l, op, words, reached)
        BY <2>1 DEF AnyAccess
      <3> QED
        BY <3>1, AccessFinishes DEF Abstract!Next
    <2>2. CASE Push(l)
      BY <2>2, PushRecords DEF Abstract!Next
    <2>3. CASE PushFails(l)
      BY <2>3, FailLoses DEF Abstract!Next
    <2>4. CASE \/ ResetCounters(l) \/ Lock(l) \/ Stamp(l)
               \/ \E name \in TestNames[l] : SetTest(l, name)
      BY <2>4, LinkStutters
    <2> QED
      BY <1>1, <2>1, <2>2, <2>3, <2>4 DEF LinkStep, RecordStep
  <1>2. ASSUME Snapshot \/ WriteFile \/ OpenFails \/ TimePasses
        PROVE  Abstract!Next \/ UNCHANGED <<Unlogged, log, copy, now>>
    <2>1. /\ call' = call /\ wire' = wire /\ test' = test /\ log' = log
      BY <1>2 DEF Snapshot, WriteFile, OpenFails, TimePasses
    <2>2. Unlogged' = Unlogged
      BY <2>1 DEF Unlogged, Recorded
    <2>3. CASE Snapshot
      BY <2>1, <2>2, <2>3 DEF Snapshot, Abstract!Snapshot, Abstract!Next
    <2>4. CASE WriteFile
      <3>1. Abstract!Truncate
        BY <2>1, <2>2, <2>4 DEF WriteFile, Abstract!Truncate
      <3> QED
        BY <3>1 DEF Abstract!Next
    <2>5. CASE OpenFails
      BY <2>1, <2>2, <2>5 DEF OpenFails
    <2>6. CASE TimePasses
      <3>1. now' >= now
        BY <2>6 DEF TimePasses, BusInv, BusTypeOK
      <3> QED
        BY <2>1, <2>2, <2>6, <3>1 DEF TimePasses, Abstract!TimePasses, Abstract!Next
    <2> QED
      BY <1>2, <2>3, <2>4, <2>5, <2>6
  <1>3. ASSUME Clear PROVE Abstract!Next
    BY <1>3, ClearClears DEF Abstract!Next
  <1> QED
    BY <1>1, <1>2, <1>3 DEF BusStep, LogCall, Abstract!logVars

\* Access, lock, stamp and push of LoggedTransport, for any links and calls:
\* to a reader of the log they are one step that appends one whole record.
THEOREM RecordIsAtomic == BusSpec => ImplementsLog
  <1>1. BusInit => Abstract!Init
    <2> SUFFICES ASSUME BusInit PROVE Abstract!Init
      OBVIOUS
    <2>1. Unlogged = [l \in Links |-> NoAccess] /\ log = <<>> /\ copy = <<>> /\ now \in Nat
      BY DEF BusInit, Unlogged
    <2> QED
      BY <2>1 DEF Abstract!Init
  <1>2. BusInv /\ BusInv' /\ [BusNext]_busVars => [Abstract!Next]_(Abstract!logVars)
    <2>1. ASSUME UNCHANGED busVars PROVE UNCHANGED Abstract!logVars
      BY <2>1 DEF busVars, costVars, linkVars, fileVars, Abstract!logVars, Unlogged, Recorded
    <2> QED
      BY <2>1, BusStepImplements, BusNextIsBusStep
  <1>3. BusInv /\ [BusNext]_busVars => BusInv'
    BY BusStepInv, BusStays, BusNextIsBusStep
  <1> QED
    BY <1>1, <1>2, <1>3, BusInitInv, PTL DEF BusSpec, ImplementsLog, Abstract!Spec

------------------------------------------------------------------------------
(* What is written to a file has no holes *)

Kept(c) == c.outcome \notin {"threw", "unrecorded"}

\* Only the call a link is in is under way, and Clear forgets from the front.
WireSettled(l) ==
  /\ \A n \in 1..Len(wire[l]) :
       wire[l][n].outcome = "underway" => n = Len(wire[l]) /\ call[l] # Idle
  /\ \A m, n \in 1..Len(wire[l]) :
       m < n /\ wire[l][m].outcome = "logged" => wire[l][n].outcome # "cleared"

CopyOnWire == \A i \in 1..Len(copy) : copy[i].access.nth <= Len(wire[copy[i].link])

FileInv == BusInv /\ (\A l \in Links : WireSettled(l)) /\ CopyOnWire /\ NoHolesInFile

\* The four things a step does to a link.
Rests(l) == wire'[l] = wire[l] /\ (call'[l] = Idle <=> call[l] = Idle)
Begins(l) ==
  /\ call[l] = Idle /\ Len(wire'[l]) = Len(wire[l]) + 1
  /\ \A n \in 1..Len(wire[l]) : wire'[l][n] = wire[l][n]
  /\ wire'[l][Len(wire[l]) + 1].outcome \in {"underway", "threw"}
  /\ wire'[l][Len(wire[l]) + 1].outcome = "underway" => call'[l] # Idle
Returns(l) ==
  /\ Len(wire[l]) > 0 /\ LastCall(l).outcome = "underway" /\ Len(wire'[l]) = Len(wire[l])
  /\ wire'[l][Len(wire[l])].outcome \in {"logged", "unrecorded"}
  /\ \A n \in 1..(Len(wire[l]) - 1) : wire'[l][n] = wire[l][n]
Forgets(l) ==
  /\ call'[l] = call[l] /\ Len(wire'[l]) = Len(wire[l])
  /\ \A n \in 1..Len(wire[l]) : wire'[l][n].outcome =
       IF wire[l][n].outcome = "logged" THEN "cleared" ELSE wire[l][n].outcome
Moves(l) == Rests(l) \/ Begins(l) \/ Returns(l) \/ Forgets(l)

LEMMA AccessMoves ==
  ASSUME BusTypeOK, NEW l \in Links, NEW op \in Ops, NEW words \in Nat,
         NEW reached \in 0..words, Access(l, op, words, reached)
  PROVE  \A k \in Links : Moves(k)
  <1>1. /\ call[l] = Idle /\ Len(wire'[l]) = Len(wire[l]) + 1
        /\ \A n \in 1..Len(wire[l]) : wire'[l][n] = wire[l][n]
        /\ call'[l] = IF reached = words THEN [Idle EXCEPT !.stage = "access"] ELSE Idle
        /\ wire'[l][Len(wire'[l])].outcome = IF reached = words THEN "underway" ELSE "threw"
    BY AccessEffect
  <1>2. [Idle EXCEPT !.stage = "access"] # Idle
    BY DEF Idle
  <1>3. Begins(l)
    BY <1>1, <1>2 DEF Begins
  <1>4. \A k \in Links \ {l} : Rests(k)
    <2>1. \A k \in Links \ {l} : call'[k] = call[k] /\ wire'[k] = wire[k]
      BY AccessEffect
    <2> QED
      BY <2>1 DEF Rests
  <1> QED
    BY <1>3, <1>4 DEF Moves

LEMMA EndMoves ==
  ASSUME BusInv, NEW l \in Links, Push(l) \/ PushFails(l)
  PROVE  \A k \in Links : Moves(k)
  <1>1. /\ Len(wire[l]) > 0 /\ LastCall(l).outcome = "underway"
    BY DEF BusInv, CallSound, Push, PushFails, Idle
  <1>2. PICK outcome \in {"logged", "unrecorded"} : Ends(l, outcome)
    BY DEF Push, PushFails
  <1>3. /\ \A k \in Links \ {l} : call'[k] = call[k] /\ wire'[k] = wire[k]
        /\ SameCalls(wire'[l], wire[l]) /\ wire'[l][Len(wire[l])].outcome = outcome
        /\ \A n \in 1..(Len(wire[l]) - 1) : wire'[l][n] = wire[l][n]
    BY <1>1, <1>2, EndsEffect DEF BusInv
  <1>4. Returns(l)
    BY <1>1, <1>3 DEF Returns, SameCalls
  <1> QED
    BY <1>3, <1>4 DEF Moves, Rests

LEMMA ClearMoves ==
  ASSUME BusTypeOK, Clear
  PROVE  \A k \in Links : Moves(k)
  <1> TAKE k \in Links
  <1>1. wire'[k] = Forgotten(wire[k]) /\ call' = call /\ wire[k] \in Seq(WireCall)
    BY LogTyped DEF Clear
  <1>2. /\ SameCalls(Forgotten(wire[k]), wire[k])
        /\ \A n \in 1..Len(wire[k]) : Forgotten(wire[k])[n].outcome =
             IF wire[k][n].outcome = "logged" THEN "cleared" ELSE wire[k][n].outcome
    BY <1>1, ForgottenEffect
  <1> QED
    BY <1>1, <1>2 DEF Moves, Forgets, SameCalls

LEMMA InnerMoves ==
  ASSUME BusTypeOK, NEW l \in Links, Lock(l) \/ Stamp(l)
  PROVE  \A k \in Links : Moves(k)
  <1>1. wire' = wire /\ call[l] # Idle /\ call'[l] # Idle
        /\ \A k \in Links \ {l} : call'[k] = call[k]
    <2>1. CASE Lock(l)
      BY <2>1 DEF Lock, Idle, BusTypeOK, Call
    <2>2. CASE Stamp(l)
      BY <2>2 DEF Stamp, Idle, BusTypeOK, Call
    <2> QED
      BY <2>1, <2>2
  <1> QED
    BY <1>1 DEF Moves, Rests

\* A step either leaves the file alone, or takes a snapshot, or cuts it short.
CopyMoves ==
  \/ copy' = copy
  \/ copy' = log /\ log' = log /\ wire' = wire
  \/ wire' = wire /\ \E n \in 0..Len(copy) : copy' = SubSeq(copy, 1, n)

LEMMA BusStepMoves ==
  ASSUME BusInv, BusStep
  PROVE  (\A k \in Links : Moves(k)) /\ CopyMoves
  <1> USE DEF costVars, linkVars, fileVars
  <1>1. BusTypeOK
    BY DEF BusInv
  <1>2. ASSUME wire' = wire, call' = call PROVE \A k \in Links : Moves(k)
    BY <1>2 DEF Moves, Rests
  <1>3. ASSUME NEW l \in Links, LinkStep(l)
        PROVE  (\A k \in Links : Moves(k)) /\ copy' = copy
    <2>1. CASE ResetCounters(l) \/ \E name \in TestNames[l] : SetTest(l, name)
      BY <1>2, <2>1 DEF ResetCounters, SetTest
    <2>2. CASE AnyAccess(l)
      BY <1>1, <2>2, AccessMoves DEF AnyAccess, Access
    <2>3. CASE Lock(l) \/ Stamp(l)
      BY <1>1, <2>3, InnerMoves DEF Lock, Stamp
    <2>4. CASE Push(l) \/ PushFails(l)
      BY <2>4, EndMoves DEF Push, PushFails
    <2> QED
      BY <1>3, <2>1, <2>2, <2>3, <2>4 DEF LinkStep, RecordStep
  <1>4. CASE Clear
    BY <1>1, <1>4, ClearMoves DEF Clear, CopyMoves
  <1>5. CASE Snapshot \/ WriteFile
    BY <1>2, <1>5 DEF Snapshot, WriteFile, CopyMoves
  <1>6. CASE OpenFails \/ TimePasses
    BY <1>2, <1>6 DEF OpenFails, TimePasses, CopyMoves
  <1> QED
    BY <1>3, <1>4, <1>5, <1>6 DEF BusStep, LogCall, CopyMoves

\* Wires only grow, and a call that has no record never gets one.
LEMMA MovesSettle ==
  ASSUME BusTypeOK, NEW l \in Links, WireSettled(l), Moves(l)
  PROVE  /\ WireSettled(l)' /\ Len(wire[l]) <= Len(wire'[l])
         /\ \A n \in 1..(Len(wire[l]) - 1) : Kept(wire'[l][n]) => Kept(wire[l][n])
  <1>1. Len(wire[l]) \in Nat
    BY LogTyped
  <1>2. CASE Rests(l)
    BY <1>1, <1>2 DEF Rests, WireSettled
  <1>3. CASE Begins(l)
    <2>1. \A n \in 1..Len(wire'[l]) : n \in 1..Len(wire[l]) \/ n = Len(wire'[l])
      BY <1>1, <1>3 DEF Begins
    <2>2. \A n \in 1..Len(wire[l]) : wire'[l][n] = wire[l][n] /\ wire[l][n].outcome # "underway"
      BY <1>3 DEF Begins, WireSettled
    <2>3. \A n \in 1..Len(wire'[l]) :
            wire'[l][n].outcome = "underway" => n = Len(wire'[l]) /\ call'[l] # Idle
      BY <1>3, <2>1, <2>2 DEF Begins
    <2>4. \A m, n \in 1..Len(wire'[l]) :
            m < n /\ wire'[l][m].outcome = "logged" => wire'[l][n].outcome # "cleared"
      BY <1>1, <1>3, <2>1, <2>2 DEF Begins, WireSettled
    <2> QED
      BY <1>1, <1>3, <2>2, <2>3, <2>4 DEF Begins, WireSettled
  <1>4. CASE Returns(l)
    <2>1. \A n \in 1..Len(wire[l]) : n \in 1..(Len(wire[l]) - 1) \/ n = Len(wire[l])
      BY <1>1
    <2>2. \A n \in 1..(Len(wire[l]) - 1) :
            wire'[l][n] = wire[l][n] /\ wire[l][n].outcome # "underway"
      BY <1>1, <1>4 DEF Returns, WireSettled
    <2>3. \A n \in 1..Len(wire'[l]) : wire'[l][n].outcome # "underway"
      BY <1>4, <2>1, <2>2 DEF Returns
    <2>4. \A m, n \in 1..Len(wire'[l]) :
            m < n /\ wire'[l][m].outcome = "logged" => wire'[l][n].outcome # "cleared"
      BY <1>1, <1>4, <2>1, <2>2 DEF Returns, WireSettled
    <2> QED
      BY <1>1, <1>4, <2>2, <2>3, <2>4 DEF Returns, WireSettled
  <1>5. CASE Forgets(l)
    <2>1. \A n \in 1..Len(wire[l]) :
            /\ wire'[l][n].outcome # "logged"
            /\ wire'[l][n].outcome = "underway" => wire[l][n].outcome = "underway"
            /\ Kept(wire'[l][n]) => Kept(wire[l][n])
      BY <1>5 DEF Forgets, Kept
    <2> QED
      BY <1>1, <1>5, <2>1 DEF Forgets, WireSettled
  <1> QED
    BY <1>2, <1>3, <1>4, <1>5 DEF Moves

\* NoHolesInFile of any records at all.
Gapless(records) ==
  \A i, j \in 1..Len(records) : i < j /\ records[i].link = records[j].link =>
    /\ records[i].access.nth < records[j].access.nth
    /\ \A n \in (records[i].access.nth + 1)..(records[j].access.nth - 1) :
         Kept(wire[records[i].link][n]) =>
           \E k \in (i + 1)..(j - 1) :
             records[k].link = records[i].link /\ records[k].access.nth = n

LEMMA NoHolesIsGapless == NoHolesInFile <=> Gapless(copy)
BY DEF NoHolesInFile, Gapless, Kept

\* Between two records of a link every kept call is logged, and in its place.
LEMMA LogGapless ==
  ASSUME BusInv, \A l \in Links : WireSettled(l)
  PROVE  Gapless(log)
  <1>1. /\ BusTypeOK /\ LogMatchesBus /\ Len(log) \in Nat
        /\ \A i \in 1..Len(log) : /\ log[i].link \in Links /\ log[i].access.nth \in Nat \ {0}
                                 /\ Tells(log[i])
    BY LogTyped DEF BusInv, LogMatchesBus
  <1>a. /\ \A i, j \in 1..Len(log) :
             i < j /\ log[i].link = log[j].link => log[i].access.nth < log[j].access.nth
        /\ \A l \in Links : \A n \in 1..Len(wire[l]) : wire[l][n].outcome = "logged" =>
             \E i \in 1..Len(log) : log[i].link = l /\ log[i].access.nth = n
    BY DEF BusInv, LogMatchesBus
  <1> SUFFICES ASSUME NEW i \in 1..Len(log), NEW j \in 1..Len(log), i < j,
                      log[i].link = log[j].link
               PROVE  /\ log[i].access.nth < log[j].access.nth
                      /\ \A n \in (log[i].access.nth + 1)..(log[j].access.nth - 1) :
                           Kept(wire[log[i].link][n]) =>
                             \E k \in (i + 1)..(j - 1) :
                               log[k].link = log[i].link /\ log[k].access.nth = n
    BY DEF Gapless
  <1>2. log[i].access.nth < log[j].access.nth
    BY <1>a
  <1>3. ASSUME NEW n \in (log[i].access.nth + 1)..(log[j].access.nth - 1),
               Kept(wire[log[i].link][n])
        PROVE  \E k \in (i + 1)..(j - 1) : log[k].link = log[i].link /\ log[k].access.nth = n
    <2> DEFINE l == log[i].link
               first == log[i].access.nth
               second == log[j].access.nth
    <2>1. /\ l \in Links /\ Len(wire[l]) \in Nat /\ wire[l] \in Seq(WireCall)
          /\ first \in 1..Len(wire[l]) /\ second \in 1..Len(wire[l])
          /\ wire[l][first].outcome = "logged"
      BY <1>1, LogTyped DEF Tells
    <2>b. n \in (first + 1)..(second - 1) /\ log[j].link = l /\ log[i].link = l
          /\ log[i].access.nth = first /\ log[j].access.nth = second
      BY <1>3
    <2> HIDE DEF l, first, second
    <2>2. n \in 1..Len(wire[l]) /\ n # Len(wire[l]) /\ first < n /\ n < second
      BY <2>1, <2>b
    <2>3. wire[l][n].outcome \notin {"underway", "cleared", "threw", "unrecorded"}
      <3>1. Kept(wire[l][n]) /\ WireSettled(l)
        BY <1>3, <2>1 DEF l
      <3> QED
        BY <2>1, <2>2, <3>1 DEF WireSettled, Kept
    <2>4. wire[l][n].outcome = "logged"
      <3>1. wire[l][n] \in WireCall
        BY <2>1, <2>2
      <3> QED
        BY <2>3, <3>1 DEF WireCall
    <2>5. PICK k \in 1..Len(log) : log[k].link = l /\ log[k].access.nth = n
      BY <1>a, <2>1, <2>2, <2>4
    <2>6. i < k
      <3>1. k < i => n < first
        BY <1>a, <2>5, <2>b
      <3> QED
        BY <1>1, <2>1, <2>2, <2>5, <2>b, <3>1
    <2>7. k < j
      <3>1. j < k => second < n
        BY <1>a, <2>5, <2>b
      <3> QED
        BY <1>1, <2>1, <2>2, <2>5, <2>b, <3>1
    <2> QED
      BY <2>5, <2>6, <2>7, <2>b
  <1> QED
    BY <1>2, <1>3

LEMMA CopyTyped ==
  ASSUME BusTypeOK
  PROVE  /\ copy \in Records /\ Len(copy) \in Nat
         /\ \A i \in 1..Len(copy) : copy[i].link \in Links /\ copy[i].access.nth \in Nat \ {0}
  <1> DEFINE R == [link : Links, access : LoggedAccess, stamp : Nat]
  <1>1. copy \in Seq(R)
    BY DEF BusTypeOK, Records
  <1>2. \A r \in R : r.link \in Links /\ r.access.nth \in Nat \ {0}
    BY DEF LoggedAccess
  <1> HIDE DEF R
  <1>3. Len(copy) \in Nat /\ \A i \in 1..Len(copy) : copy[i] \in R
    BY <1>1
  <1> QED
    BY <1>2, <1>3 DEF BusTypeOK

LEMMA FileStep ==
  ASSUME FileInv, BusStep
  PROVE  FileInv'
  <1>1. /\ BusInv /\ BusTypeOK /\ CopyOnWire /\ Gapless(copy)
        /\ \A l \in Links : WireSettled(l)
    BY NoHolesIsGapless DEF FileInv, BusInv
  <1>2. BusInv' /\ CopyMoves /\ \A l \in Links : Moves(l)
    BY <1>1, BusStepInv, BusStepMoves
  <1>3. \A l \in Links :
          /\ WireSettled(l)' /\ Len(wire[l]) <= Len(wire'[l]) /\ Len(wire[l]) \in Nat
          /\ Len(wire'[l]) \in Nat
          /\ \A n \in 1..(Len(wire[l]) - 1) : Kept(wire'[l][n]) => Kept(wire[l][n])
    <2> TAKE l \in Links
    <2>1. WireSettled(l) /\ Moves(l)
      BY <1>1, <1>2
    <2>2. /\ WireSettled(l)' /\ Len(wire[l]) <= Len(wire'[l])
          /\ \A n \in 1..(Len(wire[l]) - 1) : Kept(wire'[l][n]) => Kept(wire[l][n])
      BY <1>1, <2>1, MovesSettle
    <2>3. Len(wire[l]) \in Nat /\ Len(wire'[l]) \in Nat
      <3>1. wire \in [Links -> Seq(WireCall)] /\ wire' \in [Links -> Seq(WireCall)']
        BY <1>1, <1>2 DEF BusInv, BusTypeOK
      <3>2. wire[l] \in Seq(WireCall) /\ wire'[l] \in Seq(WireCall)'
        BY <3>1
      <3> QED
        BY <3>2
    <2> QED
      BY <2>2, <2>3
  <1>4. CopyOnWire' /\ Gapless(copy)'
    <2>1. CASE copy' = copy
      <3>1. CopyOnWire'
        BY <1>1, <1>3, <2>1, CopyTyped DEF CopyOnWire
      <3>2. Gapless(copy)'
        <4> SUFFICES ASSUME NEW i \in 1..Len(copy), NEW j \in 1..Len(copy), i < j,
                            copy[i].link = copy[j].link
                     PROVE  /\ copy[i].access.nth < copy[j].access.nth
                            /\ \A n \in (copy[i].access.nth + 1)..(copy[j].access.nth - 1) :
                                 Kept(wire'[copy[i].link][n]) =>
                                   \E k \in (i + 1)..(j - 1) :
                                     copy[k].link = copy[i].link /\ copy[k].access.nth = n
          BY <2>1 DEF Gapless, Kept
        <4>1. ASSUME NEW n \in (copy[i].access.nth + 1)..(copy[j].access.nth - 1),
                     Kept(wire'[copy[i].link][n])
              PROVE  Kept(wire[copy[i].link][n])
          <5>1. copy[i].link \in Links /\ copy[i].access.nth \in Nat \ {0}
                /\ copy[j].access.nth \in Nat /\ copy[j].access.nth <= Len(wire[copy[i].link])
            BY <1>1, CopyTyped DEF CopyOnWire
          <5>2. n \in 1..(Len(wire[copy[i].link]) - 1)
            BY <1>3, <4>1, <5>1
          <5> QED
            BY <1>3, <4>1, <5>1, <5>2
        <4> QED
          BY <1>1, <4>1 DEF Gapless
      <3> QED
        BY <3>1, <3>2
    <2>2. CASE copy' = log /\ log' = log /\ wire' = wire
      <3>1. Gapless(log)
        BY <1>1, LogGapless
      <3>2. \A i \in 1..Len(log) : log[i].access.nth <= Len(wire[log[i].link])
        BY <1>1, LogTyped DEF BusInv, LogMatchesBus, Tells
      <3> QED
        BY <2>2, <3>1, <3>2 DEF CopyOnWire, Gapless, Kept
    <2>3. ASSUME NEW m \in 0..Len(copy), wire' = wire, copy' = SubSeq(copy, 1, m)
          PROVE  CopyOnWire' /\ Gapless(copy)'
      <3>1. Len(copy) \in Nat /\ copy \in Records
        BY <1>1, CopyTyped
      <3>2. Len(copy') = m /\ \A i \in 1..m : copy'[i] = copy[i] /\ i \in 1..Len(copy)
        BY <2>3, <3>1 DEF Records
      <3>3. CopyOnWire'
        BY <1>1, <2>3, <3>2 DEF CopyOnWire
      <3>4. Gapless(copy)'
        <4> SUFFICES ASSUME NEW i \in 1..m, NEW j \in 1..m, i < j, copy'[i].link = copy'[j].link
                     PROVE  /\ copy'[i].access.nth < copy'[j].access.nth
                            /\ \A n \in (copy'[i].access.nth + 1)..(copy'[j].access.nth - 1) :
                                 Kept(wire[copy'[i].link][n]) =>
                                   \E k \in (i + 1)..(j - 1) :
                                     copy'[k].link = copy'[i].link /\ copy'[k].access.nth = n
          <5>1. wire' = wire /\ Len(copy') = m
            BY <2>3, <3>2
          <5> QED
            BY <5>1 DEF Gapless, Kept
        <4>2. copy'[i] = copy[i] /\ copy'[j] = copy[j] /\ i \in 1..Len(copy) /\ j \in 1..Len(copy)
          BY <3>2
        <4>1. \A k \in (i + 1)..(j - 1) : copy'[k] = copy[k]
          BY <3>2
        <4> QED
          BY <1>1, <4>1, <4>2 DEF Gapless
      <3> QED
        BY <3>3, <3>4
    <2> QED
      BY <1>2, <2>1, <2>2, <2>3 DEF CopyMoves
  <1>5. NoHolesInFile'
    BY <1>4 DEF NoHolesInFile, Gapless, Kept
  <1> QED
    BY <1>2, <1>3, <1>4, <1>5 DEF FileInv

LEMMA FileStays == FileInv /\ UNCHANGED busVars => FileInv'
  <1> SUFFICES ASSUME FileInv, UNCHANGED busVars PROVE FileInv'
    OBVIOUS
  <1>1. wire' = wire /\ copy' = copy /\ call' = call
    BY DEF busVars, fileVars
  <1>2. BusInv'
    BY BusStays DEF FileInv
  <1> QED
    BY <1>1, <1>2 DEF FileInv, WireSettled, CopyOnWire, NoHolesInFile

LEMMA FileInitInv == BusInit => FileInv
  <1> SUFFICES ASSUME BusInit PROVE FileInv
    OBVIOUS
  <1>1. BusInv /\ copy = <<>> /\ \A l \in Links : wire[l] = <<>>
    BY BusInitInv DEF BusInit
  <1>2. 1..Len(copy) = {} /\ \A l \in Links : 1..Len(wire[l]) = {}
    BY <1>1
  <1> QED
    BY <1>1, <1>2 DEF FileInv, WireSettled, CopyOnWire, NoHolesInFile

\* Between two lines of one link a file lacks only calls that threw, also when
\* the log was cleared before and the disk was full (TransactionLog::WriteCsv).
THEOREM FilesHaveNoHoles == BusSpec => []NoHolesInFile
  <1>1. FileInv /\ [BusNext]_busVars => FileInv'
    BY FileStep, FileStays, BusNextIsBusStep
  <1>2. FileInv => NoHolesInFile
    BY DEF FileInv
  <1> QED
    BY <1>1, <1>2, FileInitInv, PTL DEF BusSpec

------------------------------------------------------------------------------
(* The bill *)

\* EveryCallBilled of one link, and the reset it counts from is on the wire.
BillSound(l) ==
  /\ billed[l] \in 0..Len(wire[l])
  /\ kind[l] # "emulated" =>
       /\ accesses[l] = Len(wire[l]) - billed[l]
       /\ spent[l] = SumFunctionOnSet(Price(l), (billed[l] + 1)..Len(wire[l]))

BillInv == BusInv /\ \A l \in Links : BillSound(l)

LEMMA SumAppended ==
  ASSUME NEW n \in Nat, NEW b \in 0..n, NEW p, NEW q,
         \A i \in 1..n : p[i] \in Nat /\ q[i] = p[i], q[n + 1] \in Nat
  PROVE  SumFunctionOnSet(q, (b + 1)..(n + 1)) = SumFunctionOnSet(p, (b + 1)..n) + q[n + 1]
  <1> DEFINE S == (b + 1)..n
  <1>1. /\ (b + 1)..(n + 1) = S \cup {n + 1} /\ n + 1 \notin S
        /\ \A i \in S : i \in 1..n
    OBVIOUS
  <1>2. IsFiniteSet(S)
    BY FS_Interval
  <1>3. /\ \A i \in S : p[i] \in Nat /\ q[i] = p[i]
        /\ \A i \in S \cup {n + 1} : q[i] \in Nat
    BY <1>1
  <1> HIDE DEF S
  <1>4. SumFunctionOnSet(q, S \cup {n + 1}) = SumFunctionOnSet(q, S) + q[n + 1]
    BY <1>1, <1>2, <1>3, SumAdd
  <1>5. SumFunctionOnSet(q, S) = SumFunctionOnSet(p, S)
    BY <1>2, <1>3, SumCongruent
  <1> QED
    BY <1>1, <1>4, <1>5 DEF S

\* A step that makes no call on l and leaves its counters alone.
LEMMA BillKept ==
  ASSUME BusTypeOK, NEW l \in Links, BillSound(l),
         kind'[l] = kind[l], billed'[l] = billed[l], spent'[l] = spent[l],
         accesses'[l] = accesses[l], SameCalls(wire'[l], wire[l])
  PROVE  BillSound(l)'
  <1>1. Len(wire'[l]) = Len(wire[l])
        /\ \A n \in 1..Len(wire[l]) : /\ wire'[l][n].op = wire[l][n].op
                                     /\ wire'[l][n].words = wire[l][n].words
    BY DEF SameCalls
  <1>2. Price(l)' = Price(l)
    BY <1>1 DEF Price
  <1> QED
    BY <1>1, <1>2 DEF BillSound

LEMMA SameCallsSame ==
  ASSUME BusTypeOK, NEW l \in Links, wire'[l] = wire[l]
  PROVE  SameCalls(wire'[l], wire[l])
  BY DEF SameCalls

LEMMA AccessBilled ==
  ASSUME BusTypeOK, NEW l \in Links, BillSound(l), NEW op \in Ops, NEW words \in Nat,
         NEW reached \in 0..words, Access(l, op, words, reached)
  PROVE  BillSound(l)'
  <1> DEFINE n == Len(wire[l])
             w == wire[l]
             v == wire'[l]
  <1>1. /\ w \in Seq(WireCall) /\ n \in Nat /\ billed[l] \in 0..n
        /\ kind' = kind /\ billed' = billed
    BY DEF BusTypeOK, BillSound, Access
  <1>2. Len(v) = n + 1 /\ \A i \in 1..n : v[i] = w[i]
    BY AccessEffect
  <1>3. v[n + 1].op = op /\ v[n + 1].words = words
    <2>1. wire \in [Links -> Seq(WireCall)]
      BY DEF BusTypeOK
    <2> QED
      BY <2>1 DEF Access
  <1>4. CASE kind[l] = "emulated"
    BY <1>1, <1>2, <1>4 DEF BillSound
  <1>5. CASE kind[l] # "emulated"
    <2>1. kind[l] \in {"jtag", "i2c", "spi"}
      BY <1>5 DEF BusTypeOK
    <2>2. \A i \in 1..n : w[i].words \in Nat
      <3>1. \A c \in WireCall : c.words \in Nat
        BY DEF WireCall
      <3>2. \A i \in 1..n : w[i] \in WireCall
        BY <1>1
      <3> QED
        BY <3>1, <3>2
    <2>3. \A i \in 1..n : Price(l)[i] \in Nat /\ Price(l)'[i] = Price(l)[i]
      BY <1>1, <1>2, <2>1, <2>2, CostTyped DEF Price
    <2>4. Price(l)'[n + 1] = Cost(kind[l], op, words) /\ Cost(kind[l], op, words) \in Nat
      BY <1>1, <1>2, <1>3, <2>1, CostTyped DEF Price
    <2>5. SumFunctionOnSet(Price(l)', (billed[l] + 1)..(n + 1))
            = SumFunctionOnSet(Price(l), (billed[l] + 1)..n) + Price(l)'[n + 1]
      <3> DEFINE p == Price(l)
                 q == Price(l)'
                 b == billed[l]
                 m == Len(wire[l])
      <3>1. /\ m \in Nat /\ b \in 0..m /\ q[m + 1] \in Nat
            /\ \A i \in 1..m : p[i] \in Nat /\ q[i] = p[i]
        BY <1>1, <2>3, <2>4
      <3> HIDE DEF p, q, b, m
      <3>2. SumFunctionOnSet(q, (b + 1)..(m + 1)) = SumFunctionOnSet(p, (b + 1)..m) + q[m + 1]
        BY <3>1, SumAppended
      <3> QED
        BY <3>2 DEF p, q, b, m
    <2>6. spent'[l] = spent[l] + Cost(kind[l], op, words) /\ accesses'[l] = accesses[l] + 1
      BY <1>5 DEF Access, Bill, BusTypeOK
    <2>7. /\ accesses[l] = n - billed[l]
          /\ spent[l] = SumFunctionOnSet(Price(l), (billed[l] + 1)..n)
      BY <1>5 DEF BillSound
    <2>8. accesses'[l] = Len(v) - billed'[l] /\ billed'[l] \in 0..Len(v)
      <3>1. accesses[l] = n - billed[l] /\ accesses'[l] = accesses[l] + 1 /\ billed'[l] = billed[l]
        BY <1>1, <2>6, <2>7
      <3>2. Len(v) = n + 1 /\ n \in Nat /\ billed[l] \in 0..n
        BY <1>1, <1>2
      <3> HIDE DEF n, v
      <3>3. accesses'[l] = (n + 1) - billed[l] /\ billed[l] \in 0..(n + 1)
        BY <3>1, <3>2
      <3> QED
        BY <3>1, <3>2, <3>3
    <2>9. spent'[l] = SumFunctionOnSet(Price(l)', (billed'[l] + 1)..Len(v))
      BY <1>1, <1>2, <2>4, <2>5, <2>6, <2>7
    <2> QED
      BY <2>8, <2>9 DEF BillSound
  <1> QED
    BY <1>4, <1>5

LEMMA ResetBilled ==
  ASSUME BusTypeOK, NEW l \in Links, ResetCounters(l)
  PROVE  BillSound(l)'
  <1>1. /\ spent'[l] = 0 /\ accesses'[l] = 0 /\ billed'[l] = Len(wire[l])
        /\ wire' = wire /\ Len(wire[l]) \in Nat
    BY DEF ResetCounters, BusTypeOK
  <1>2. (Len(wire[l]) + 1)..Len(wire[l]) = {}
    BY <1>1
  <1>3. SumFunctionOnSet(Price(l)', {}) = 0
    BY SumEmpty
  <1> QED
    BY <1>1, <1>2, <1>3 DEF BillSound

LEMMA LinkStepBilled ==
  ASSUME BillInv, NEW l \in Links, LinkStep(l), NEW k \in Links
  PROVE  BillSound(k)'
  <1> USE DEF costVars, linkVars, fileVars
  <1>1. BusInv /\ BusTypeOK /\ BillSound(k) /\ BillSound(l)
    BY DEF BillInv, BusInv
  <1>2. CASE ResetCounters(l)
    <2>1. CASE k = l
      BY <1>1, <1>2, <2>1, ResetBilled
    <2>2. CASE k # l
      <3>1. /\ kind'[k] = kind[k] /\ billed'[k] = billed[k] /\ spent'[k] = spent[k]
            /\ accesses'[k] = accesses[k] /\ wire'[k] = wire[k]
        BY <1>1, <1>2, <2>2 DEF ResetCounters, BusTypeOK
      <3> QED
        BY <1>1, <3>1, BillKept, SameCallsSame
    <2> QED
      BY <2>1, <2>2
  <1>3. ASSUME NEW op \in Ops, NEW words \in Nat, NEW reached \in 0..words,
               Access(l, op, words, reached)
        PROVE  BillSound(k)'
    <2>1. CASE k = l
      BY <1>1, <1>3, <2>1, AccessBilled
    <2>2. CASE k # l
      <3>1. kind'[k] = kind[k] /\ billed'[k] = billed[k]
        BY <1>3 DEF Access
      <3>2. spent'[k] = spent[k] /\ accesses'[k] = accesses[k]
        BY <1>1, <1>3, <2>2 DEF Access, Bill, BusTypeOK
      <3>3. wire'[k] = wire[k]
        BY <1>1, <1>3, <2>2, AccessEffect
      <3> QED
        BY <1>1, <3>1, <3>2, <3>3, BillKept, SameCallsSame
    <2> QED
      BY <2>1, <2>2
  <1>4. CASE (\E name \in TestNames[l] : SetTest(l, name)) \/ Lock(l) \/ Stamp(l)
    <2>1. UNCHANGED <<kind, billed, spent, accesses, wire>>
      BY <1>4 DEF SetTest, Lock, Stamp
    <2> QED
      BY <1>1, <2>1, BillKept, SameCallsSame
  <1>5. CASE Push(l) \/ PushFails(l)
    <2>1. UNCHANGED <<kind, billed, spent, accesses>>
      BY <1>5 DEF Push, PushFails
    <2>2. Len(wire[l]) > 0
      BY <1>1, <1>5 DEF BusInv, CallSound, Push, PushFails, Idle
    <2>3. PICK outcome \in {"logged", "unrecorded"} : Ends(l, outcome)
      BY <1>5 DEF Push, PushFails
    <2>4. SameCalls(wire'[k], wire[k])
      BY <1>1, <2>2, <2>3, EndsEffect, SameCallsSame
    <2> QED
      BY <1>1, <2>1, <2>4, BillKept
  <1> QED
    BY <1>2, <1>3, <1>4, <1>5 DEF LinkStep, AnyAccess, RecordStep

LEMMA BillStep ==
  ASSUME BillInv, BusStep
  PROVE  BillInv'
  <1> USE DEF costVars, linkVars, fileVars
  <1>1. BusTypeOK /\ \A l \in Links : BillSound(l)
    BY DEF BillInv, BusInv
  <1>2. BusInv'
    BY BusStepInv DEF BillInv
  <1>3. CASE Clear
    <2> SUFFICES ASSUME NEW l \in Links PROVE BillSound(l)'
      BY <1>2 DEF BillInv
    <2>1. wire'[l] = Forgotten(wire[l]) /\ wire[l] \in Seq(WireCall)
      BY <1>1, <1>3 DEF Clear, BusTypeOK
    <2>2. SameCalls(wire'[l], wire[l])
      BY <2>1, ForgottenEffect
    <2>3. UNCHANGED <<kind, billed, spent, accesses>>
      BY <1>3 DEF Clear
    <2> QED
      BY <1>1, <2>2, <2>3, BillKept
  <1>4. CASE Snapshot \/ WriteFile \/ OpenFails \/ TimePasses
    <2>1. UNCHANGED <<kind, billed, spent, accesses, wire>>
      BY <1>4 DEF Snapshot, WriteFile, OpenFails, TimePasses
    <2> QED
      BY <1>1, <1>2, <2>1, BillKept, SameCallsSame DEF BillInv
  <1>5. ASSUME NEW l \in Links, LinkStep(l) PROVE BillInv'
    BY <1>2, <1>5, LinkStepBilled DEF BillInv
  <1> QED
    BY <1>3, <1>4, <1>5 DEF BusStep, LogCall

LEMMA BillStays == BillInv /\ UNCHANGED busVars => BillInv'
  <1> SUFFICES ASSUME BillInv, UNCHANGED busVars PROVE BillInv'
    OBVIOUS
  <1>1. BusInv'
    BY BusStays DEF BillInv
  <1>2. UNCHANGED <<kind, billed, spent, accesses, wire>>
    BY DEF busVars, costVars, linkVars
  <1> QED
    BY <1>1, <1>2, BillKept, SameCallsSame DEF BillInv, BusInv

LEMMA BillInitInv == BusInit => BillInv
  <1> SUFFICES ASSUME BusInit PROVE BillInv
    OBVIOUS
  <1>1. ASSUME NEW l \in Links PROVE BillSound(l)
    <2>1. billed[l] = 0 /\ spent[l] = 0 /\ accesses[l] = 0 /\ Len(wire[l]) = 0
      BY DEF BusInit
    <2>2. (0 + 1)..0 = {}
      OBVIOUS
    <2>3. SumFunctionOnSet(Price(l), {}) = 0
      BY SumEmpty
    <2> QED
      BY <2>1, <2>2, <2>3 DEF BillSound
  <1> QED
    BY <1>1, BusInitInv DEF BillInv

LEMMA BillInvBills == BillInv => EveryCallBilled
  BY DEF BillInv, BillSound, EveryCallBilled

\* A protocol's accesses() and simulated_ns() are the number and the price of
\* all calls since ResetCounters, those that threw with them, for any calls on
\* any links (ProtocolTransport::Account).
THEOREM CallsAreBilled == BusSpec => []EveryCallBilled
  <1>1. BillInv /\ [BusNext]_busVars => BillInv'
    BY BillStep, BillStays, BusNextIsBusStep
  <1> QED
    BY <1>1, BillInitInv, BillInvBills, PTL DEF BusSpec

\* Every link, call and record stays in its type.
THEOREM BusTypeCorrect == BusSpec => []BusTypeOK
  <1>1. BusInv => BusTypeOK
    BY DEF BusInv
  <1>2. BusInv /\ [BusNext]_busVars => BusInv'
    BY BusStepInv, BusStays, BusNextIsBusStep
  <1> QED
    BY <1>1, <1>2, BusInitInv, PTL DEF BusSpec
==============================================================================
