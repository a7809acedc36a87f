---------------------------- MODULE StorageProofs ----------------------------
(***************************************************************************)
(* Proofs about what the gateway keeps in its stores: the batched request  *)
(* log (LogBatch), the slots in Redis (RedisCounter), prices and logged    *)
(* costs (CostLedger).  They hold for any records, ids, flushes, channel   *)
(* capacity and batch size, whether or not inserts fail; for any number of *)
(* requests and faults, any cap and time to live; for any feed, price      *)
(* file, edits, traffic, windows, filters and page size.                   *)
(*                                                                         *)
(* The three components share no state: a theorem is about the             *)
(* specification it names (LogSpec, SlotSpec, Spec of CostLedger).         *)
(***************************************************************************)
EXTENDS LogBatch, RedisCounter, CostLedger, FiniteSums, TLAPS

----------------------------------------------------------------------------
(* The batched log                                                         *)

Commands == Records \cup Flushers

\* The variables the argument uses keep their types; what a flush remembers was
\* appended.
BatchTyped ==
  /\ channel \in Seq(Commands)
  /\ buf \in Seq(Records)
  /\ acking \in Flushers \cup {None}
  /\ table \subseteq Records /\ appended \subseteq Records
  /\ full \subseteq Records /\ failed \subseteq Records
  /\ flusher \in [Flushers -> {"idle", "sending", "waiting", "returned"}]
  /\ before \in [Flushers -> SUBSET appended]

\* A command is in the channel once, and a record in one place only.
Once ==
  /\ \A i, j \in 1..Len(channel) : channel[i] = channel[j] => i = j
  /\ Range(channel) \cap Range(buf) = {}
  /\ InTransit \cap table = {}

\* A flush in the channel is waiting, and behind it is nothing it waits for.
Queued ==
  \A i \in 1..Len(channel) : channel[i] \in Flushers =>
    /\ flusher[channel[i]] = "waiting"
    /\ \A j \in 1..Len(channel) : j > i => channel[j] \notin before[channel[i]]

\* A flush the worker has taken waits for records of the buffer only.
Taken ==
  acking \in Flushers =>
    /\ flusher[acking] = "waiting"
    /\ acking \notin Range(channel)
    /\ before[acking] \cap Range(channel) = {}

\* NothingElseLost and FlushDurable are not inductive: a batch that fails must
\* not hold a record that is elsewhere too, and a flush is answered for what was
\* ahead of it in the channel.
BatchInv == BatchTyped /\ Once /\ Queued /\ Taken /\ NothingElseLost /\ FlushDurable

----------------------------------------------------------------------------
\* The elements of a sequence, by index.
LEMMA RangeFacts ==
  ASSUME NEW S, NEW s \in Seq(S)
  PROVE  /\ Len(s) \in Nat
         /\ \A i \in 1..Len(s) : s[i] \in S /\ s[i] \in Range(s)
         /\ \A x \in Range(s) : \E i \in 1..Len(s) : s[i] = x
         /\ Range(s) \subseteq S
BY DEF Range

\* Append adds one element at the end.
LEMMA AppendFacts ==
  ASSUME NEW S, NEW s \in Seq(S), NEW x \in S
  PROVE  /\ Append(s, x) \in Seq(S)
         /\ Len(Append(s, x)) = Len(s) + 1
         /\ \A i \in 1..Len(s) : Append(s, x)[i] = s[i]
         /\ Append(s, x)[Len(s) + 1] = x
         /\ Range(Append(s, x)) = Range(s) \cup {x}
<1>1. /\ Append(s, x) \in Seq(S) /\ Len(Append(s, x)) = Len(s) + 1
      /\ \A i \in 1..Len(s) : Append(s, x)[i] = s[i]
      /\ Append(s, x)[Len(s) + 1] = x
  OBVIOUS
<1>2. Range(Append(s, x)) \subseteq Range(s) \cup {x}
  BY DEF Range
<1>3. Range(s) \cup {x} \subseteq Range(Append(s, x))
  <2>1. \A i \in 1..(Len(s) + 1) : Append(s, x)[i] \in Range(Append(s, x))
    BY <1>1, RangeFacts
  <2>2. \A y \in Range(s) : \E i \in 1..Len(s) : s[i] = y
    BY RangeFacts
  <2>3. Len(s) \in Nat
    OBVIOUS
  <2>4. QED
    BY <1>1, <2>1, <2>2, <2>3
<1>4. QED
  BY <1>1, <1>2, <1>3

\* Tail takes the first element away.
LEMMA TailFacts ==
  ASSUME NEW S, NEW s \in Seq(S), s # <<>>
  PROVE  /\ Tail(s) \in Seq(S) /\ Head(s) = s[1] /\ Head(s) \in S
         /\ Len(s) \in Nat /\ Len(s) >= 1 /\ Len(Tail(s)) = Len(s) - 1
         /\ \A i \in 1..(Len(s) - 1) : Tail(s)[i] = s[i + 1]
         /\ Range(s) = Range(Tail(s)) \cup {Head(s)}
<1>1. /\ Tail(s) \in Seq(S) /\ Head(s) = s[1] /\ Head(s) \in S
      /\ Len(s) \in Nat /\ Len(s) >= 1 /\ Len(Tail(s)) = Len(s) - 1
      /\ \A i \in 1..(Len(s) - 1) : Tail(s)[i] = s[i + 1]
  OBVIOUS
<1>2. ASSUME NEW y \in Range(s) PROVE y \in Range(Tail(s)) \cup {Head(s)}
  <2>1. PICK i \in 1..Len(s) : s[i] = y
    BY RangeFacts
  <2>2. CASE i = 1
    BY <1>1, <2>1, <2>2
  <2>3. CASE i # 1
    <3>1. i - 1 \in 1..(Len(s) - 1) /\ Tail(s)[i - 1] = y
      BY <1>1, <2>1, <2>3
    <3>2. QED
      BY <1>1, <3>1, RangeFacts
  <2>4. QED
    BY <2>2, <2>3
<1>3. ASSUME NEW y \in Range(Tail(s)) PROVE y \in Range(s)
  <2>0. \E i \in 1..Len(Tail(s)) : Tail(s)[i] = y
    BY <1>1, RangeFacts
  <2>1. PICK i \in 1..(Len(s) - 1) : Tail(s)[i] = y
    BY <1>1, <2>0
  <2>2. i + 1 \in 1..Len(s) /\ s[i + 1] = y
    BY <1>1, <2>1
  <2>3. QED
    BY <2>2, RangeFacts
<1>4. Head(s) \in Range(s)
  BY <1>1, RangeFacts
<1>5. QED
  BY <1>1, <1>2, <1>3, <1>4

LEMMA EmptyRange == Range(<<>>) = {}
BY DEF Range

\* The first command leaves the channel: what is said of the others stays true,
\* and it is not among them.
LEMMA Received ==
  ASSUME BatchTyped, Once, Queued, channel # <<>>
  PROVE  LET rest == Tail(channel)
             first == Head(channel)
         IN /\ rest \in Seq(Commands) /\ first \in Commands
            /\ Range(channel) = Range(rest) \cup {first} /\ first \notin Range(rest)
            /\ \A i, j \in 1..Len(rest) : rest[i] = rest[j] => i = j
            /\ \A i \in 1..Len(rest) : rest[i] \in Flushers =>
                 /\ flusher[rest[i]] = "waiting"
                 /\ \A j \in 1..Len(rest) : j > i => rest[j] \notin before[rest[i]]
            /\ first \in Flushers =>
                 flusher[first] = "waiting" /\ before[first] \cap Range(rest) = {}
<1> DEFINE rest == Tail(channel)
           first == Head(channel)
<1>1. /\ rest \in Seq(Commands) /\ first = channel[1] /\ first \in Commands
      /\ Len(channel) \in Nat /\ Len(channel) >= 1 /\ Len(rest) = Len(channel) - 1
      /\ \A i \in 1..(Len(channel) - 1) : rest[i] = channel[i + 1]
      /\ Range(channel) = Range(rest) \cup {first}
  BY TailFacts DEF BatchTyped
<1> HIDE DEF rest, first
<1>2. \A x \in Range(rest) : \E i \in 1..(Len(channel) - 1) : channel[i + 1] = x
  BY <1>1, RangeFacts
<1>3. first \notin Range(rest)
  BY <1>1, <1>2 DEF Once
<1>4. \A i, j \in 1..Len(rest) : rest[i] = rest[j] => i = j
  BY <1>1 DEF Once
<1>5. ASSUME NEW i \in 1..Len(rest), rest[i] \in Flushers
      PROVE  /\ flusher[rest[i]] = "waiting"
             /\ \A j \in 1..Len(rest) : j > i => rest[j] \notin before[rest[i]]
  <2>1. i + 1 \in 1..Len(channel) /\ channel[i + 1] = rest[i]
    BY <1>1
  <2>2. /\ flusher[rest[i]] = "waiting"
        /\ \A j \in 1..Len(channel) : j > i + 1 => channel[j] \notin before[rest[i]]
    BY <1>5, <2>1 DEF Queued
  <2>3. ASSUME NEW j \in 1..Len(rest), j > i PROVE rest[j] \notin before[rest[i]]
    <3>1. j + 1 \in 1..Len(channel) /\ j + 1 > i + 1 /\ rest[j] = channel[j + 1]
      BY <1>1, <2>3
    <3>2. QED
      BY <2>2, <3>1
  <2>4. QED
    BY <2>2, <2>3
<1>6. ASSUME first \in Flushers
      PROVE  flusher[first] = "waiting" /\ before[first] \cap Range(rest) = {}
  <2>1. 1 \in 1..Len(channel)
    BY <1>1
  <2>2. /\ flusher[first] = "waiting"
        /\ \A j \in 1..Len(channel) : j > 1 => channel[j] \notin before[first]
    BY <1>1, <1>6, <2>1 DEF Queued
  <2>3. ASSUME NEW x \in Range(rest) PROVE x \notin before[first]
    <3>1. PICK i \in 1..(Len(channel) - 1) : channel[i + 1] = x
      BY <1>2
    <3>2. QED
      BY <1>1, <2>2, <3>1
  <2>4. QED
    BY <2>2, <2>3
<1>7. QED
  BY <1>1, <1>3, <1>4, <1>5, <1>6 DEF rest, first

----------------------------------------------------------------------------
\* The invariant holds before anything was appended.
LEMMA InitBatch == LogInit => BatchInv
<1> SUFFICES ASSUME LogInit PROVE BatchInv
  OBVIOUS
<1>1. channel = <<>> /\ buf = <<>> /\ Range(channel) = {} /\ Range(buf) = {} /\ Len(channel) = 0
  BY EmptyRange DEF LogInit
<1>2. BatchTyped
  BY <1>1 DEF LogInit, BatchTyped
<1>3. Once /\ Queued
  BY <1>1 DEF LogInit, Once, Queued, InTransit
<1>4. Taken
  BY LogBatchAssumption DEF LogInit, Taken
<1>5. NothingElseLost /\ FlushDurable
  BY <1>1 DEF LogInit, NothingElseLost, FlushDurable, InTransit
<1>6. QED
  BY <1>2, <1>3, <1>4, <1>5 DEF BatchInv

\* A record enters the channel behind every flush, or is dropped.
LEMMA AppendInv ==
  ASSUME BatchInv, NEW r \in Records, DoAppend(r)
  PROVE  BatchInv'
<1> USE DEF BatchInv
<1>0. /\ r \notin appended /\ appended' = appended \cup {r}
      /\ UNCHANGED <<buf, acking, table, flusher, failed, before>>
      /\ r \notin Flushers
  BY LogBatchAssumption DEF DoAppend
<1>1. r \notin Range(channel) \cup Range(buf) \cup table \cup full \cup failed
  BY <1>0 DEF NothingElseLost, InTransit
<1>2. before' \in [Flushers -> SUBSET appended'] /\ \A f \in Flushers : r \notin before[f]
  BY <1>0 DEF BatchTyped
<1>3. CASE Room
  <2>1. channel' = Append(channel, r) /\ full' = full
    BY <1>3 DEF DoAppend
  <2>2. /\ channel' \in Seq(Commands) /\ Len(channel') = Len(channel) + 1
        /\ \A i \in 1..Len(channel) : channel'[i] = channel[i]
        /\ channel'[Len(channel) + 1] = r
        /\ Range(channel') = Range(channel) \cup {r}
        /\ Len(channel) \in Nat /\ \A i \in 1..Len(channel) : channel[i] \in Range(channel)
    BY <2>1, AppendFacts, RangeFacts DEF BatchTyped, Commands
  <2>3. InTransit' = InTransit \cup {r}
    BY <1>0, <2>2 DEF InTransit
  <2>4. BatchTyped'
    BY <1>0, <1>2, <2>1, <2>2 DEF BatchTyped
  <2>5. Once'
    <3>1. \A i, j \in 1..Len(channel') : channel'[i] = channel'[j] => i = j
      BY <1>1, <2>2 DEF Once
    <3>2. QED
      BY <1>0, <1>1, <2>2, <2>3, <3>1 DEF Once
  <2>6. Queued'
    <3> SUFFICES ASSUME NEW i \in 1..Len(channel'), channel'[i] \in Flushers
                 PROVE  /\ flusher[channel'[i]] = "waiting"
                        /\ \A j \in 1..Len(channel') : j > i => channel'[j] \notin before[channel'[i]]
      BY <1>0 DEF Queued
    <3>1. i \in 1..Len(channel) /\ channel'[i] = channel[i]
      BY <1>0, <2>2
    <3>2. QED
      BY <1>2, <2>2, <3>1 DEF Queued
  <2>7. Taken'
    BY <1>0, <1>2, <2>2 DEF Taken
  <2>8. NothingElseLost'
    BY <1>0, <1>1, <2>1, <2>3 DEF NothingElseLost
  <2>9. FlushDurable'
    BY <1>0, <1>2, <2>3 DEF FlushDurable
  <2>10. QED
    BY <2>4, <2>5, <2>6, <2>7, <2>8, <2>9
<1>4. CASE ~Room
  <2>1. channel' = channel /\ full' = full \cup {r}
    BY <1>4 DEF DoAppend
  <2>2. InTransit' = InTransit
    BY <1>0, <2>1 DEF InTransit
  <2>3. BatchTyped'
    BY <1>0, <1>2, <2>1 DEF BatchTyped
  <2>4. Once' /\ Queued' /\ Taken' /\ FlushDurable'
    BY <1>0, <2>1, <2>2 DEF Once, Queued, Taken, FlushDurable
  <2>5. NothingElseLost'
    BY <1>0, <1>1, <2>1, <2>2 DEF NothingElseLost, InTransit
  <2>6. QED
    BY <2>3, <2>4, <2>5
<1>5. QED
  BY <1>3, <1>4

\* flush is called: it waits for what was appended by then.
LEMMA CallInv ==
  ASSUME BatchInv, NEW f \in Flushers, CallFlush(f)
  PROVE  BatchInv'
<1> USE DEF BatchInv
<1>0. /\ flusher[f] = "idle" /\ flusher' = [flusher EXCEPT ![f] = "sending"]
      /\ before' = [before EXCEPT ![f] = appended]
      /\ UNCHANGED <<channel, buf, acking, table, appended, full, failed>>
  BY DEF CallFlush
<1>1. InTransit' = InTransit
  BY <1>0 DEF InTransit
<1>2. BatchTyped'
  BY <1>0 DEF BatchTyped
<1>3. Once' /\ NothingElseLost'
  BY <1>0, <1>1 DEF Once, NothingElseLost
<1>4. Queued'
  BY <1>0 DEF Queued, BatchTyped
<1>5. Taken'
  BY <1>0 DEF Taken, BatchTyped
<1>6. FlushDurable'
  BY <1>0, <1>1 DEF FlushDurable, BatchTyped
<1>7. QED
  BY <1>2, <1>3, <1>4, <1>5, <1>6

\* flush enters the channel behind what it waits for.
LEMMA SendInv ==
  ASSUME BatchInv, NEW f \in Flushers, SendFlush(f)
  PROVE  BatchInv'
<1> USE DEF BatchInv
<1>0. /\ flusher[f] = "sending" /\ flusher' = [flusher EXCEPT ![f] = "waiting"]
      /\ channel' = Append(channel, f)
      /\ UNCHANGED <<buf, acking, table, appended, full, failed, before>>
      /\ f \notin Records
  BY LogBatchAssumption DEF SendFlush
<1>1. /\ channel' \in Seq(Commands) /\ Len(channel') = Len(channel) + 1
      /\ \A i \in 1..Len(channel) : channel'[i] = channel[i]
      /\ channel'[Len(channel) + 1] = f
      /\ Range(channel') = Range(channel) \cup {f}
      /\ Len(channel) \in Nat
  <2>1. channel \in Seq(Commands) /\ f \in Commands
    BY DEF BatchTyped, Commands
  <2>2. QED
    BY <1>0, <2>1, AppendFacts, RangeFacts
<1>2. \A i \in 1..Len(channel) : channel[i] # f
  BY <1>0 DEF Queued
<1>3. InTransit' = InTransit
  BY <1>0, <1>1 DEF InTransit
<1>4. Range(buf) \subseteq Records /\ \A g \in Flushers : before[g] \subseteq Records
  BY RangeFacts DEF BatchTyped
<1>5. BatchTyped'
  BY <1>0, <1>1 DEF BatchTyped
<1>6. Once'
  <2>1. \A i, j \in 1..Len(channel') : channel'[i] = channel'[j] => i = j
    BY <1>1, <1>2 DEF Once
  <2>2. QED
    BY <1>0, <1>1, <1>3, <1>4, <2>1 DEF Once
<1>7. Queued'
  <2> SUFFICES ASSUME NEW i \in 1..Len(channel'), channel'[i] \in Flushers
               PROVE  /\ flusher'[channel'[i]] = "waiting"
                      /\ \A j \in 1..Len(channel') : j > i => channel'[j] \notin before[channel'[i]]
    BY <1>0 DEF Queued
  <2>1. CASE i = Len(channel) + 1
    BY <1>0, <1>1, <2>1 DEF BatchTyped
  <2>2. CASE i # Len(channel) + 1
    <3>1. i \in 1..Len(channel) /\ channel'[i] = channel[i]
      BY <1>1, <2>2
    <3>2. flusher[channel[i]] = "waiting" /\ flusher'[channel[i]] = "waiting"
      BY <1>0, <3>1 DEF Queued, BatchTyped
    <3>3. ASSUME NEW j \in 1..Len(channel'), j > i PROVE channel'[j] \notin before[channel[i]]
      <4>1. CASE j = Len(channel) + 1
        BY <1>0, <1>1, <1>4, <3>1, <4>1
      <4>2. CASE j # Len(channel) + 1
        <5>1. j \in 1..Len(channel) /\ channel'[j] = channel[j]
          BY <1>1, <4>2
        <5>2. QED
          BY <3>1, <3>3, <5>1 DEF Queued
      <4>3. QED
        BY <4>1, <4>2
    <3>4. QED
      BY <3>1, <3>2, <3>3
  <2>3. QED
    BY <2>1, <2>2
<1>8. Taken'
  BY <1>0, <1>1, <1>4 DEF Taken, BatchTyped
<1>9. NothingElseLost'
  BY <1>0, <1>3 DEF NothingElseLost
<1>10. FlushDurable'
  BY <1>0, <1>3 DEF FlushDurable, BatchTyped
<1>11. QED
  BY <1>5, <1>6, <1>7, <1>8, <1>9, <1>10

\* The worker moves a record from the channel to the buffer.
LEMMA RecvRecordInv == ASSUME BatchInv, RecvRecord PROVE BatchInv'
<1> USE DEF BatchInv
<1> DEFINE rest == Tail(channel)
           r == Head(channel)
<1>0. /\ channel # <<>> /\ r \in Records /\ channel' = rest /\ buf' = Append(buf, r)
      /\ UNCHANGED <<acking, table, flusher, appended, full, failed, before>>
  BY DEF RecvRecord
<1>1. /\ rest \in Seq(Commands)
      /\ Range(channel) = Range(rest) \cup {r} /\ r \notin Range(rest)
      /\ \A i, j \in 1..Len(rest) : rest[i] = rest[j] => i = j
      /\ \A i \in 1..Len(rest) : rest[i] \in Flushers =>
           /\ flusher[rest[i]] = "waiting"
           /\ \A j \in 1..Len(rest) : j > i => rest[j] \notin before[rest[i]]
  BY <1>0, Received
<1> HIDE DEF rest, r
<1>2. buf' \in Seq(Records) /\ Range(buf') = Range(buf) \cup {r}
  BY <1>0, AppendFacts DEF BatchTyped
<1>3. InTransit' = InTransit
  BY <1>0, <1>1, <1>2 DEF InTransit
<1>4. BatchTyped'
  BY <1>0, <1>1, <1>2 DEF BatchTyped
<1>5. Once'
  <2>1. Range(channel') \cap Range(buf') = {}
    BY <1>0, <1>1, <1>2 DEF Once
  <2>2. QED
    BY <1>0, <1>1, <1>3, <2>1 DEF Once
<1>6. Queued'
  BY <1>0, <1>1 DEF Queued
<1>7. Taken'
  BY <1>0, <1>1 DEF Taken
<1>8. NothingElseLost' /\ FlushDurable'
  BY <1>0, <1>3 DEF NothingElseLost, FlushDurable
<1>9. QED
  BY <1>4, <1>5, <1>6, <1>7, <1>8

\* The worker takes a flush: it answers it at once or after the next insert.
LEMMA RecvFlushInv ==
  ASSUME BatchInv, NEW f \in Flushers, RecvFlush(f)
  PROVE  BatchInv'
<1> USE DEF BatchInv
<1> DEFINE rest == Tail(channel)
<1>0. /\ channel # <<>> /\ Head(channel) = f /\ channel' = rest /\ f \notin Records
      /\ UNCHANGED <<buf, table, appended, full, failed, before>>
  BY LogBatchAssumption DEF RecvFlush
<1>1. /\ rest \in Seq(Commands)
      /\ Range(channel) = Range(rest) \cup {f} /\ f \notin Range(rest)
      /\ \A i, j \in 1..Len(rest) : rest[i] = rest[j] => i = j
      /\ \A i \in 1..Len(rest) : rest[i] \in Flushers =>
           /\ flusher[rest[i]] = "waiting"
           /\ \A j \in 1..Len(rest) : j > i => rest[j] \notin before[rest[i]]
      /\ flusher[f] = "waiting" /\ before[f] \cap Range(rest) = {}
  BY <1>0, Received
<1> HIDE DEF rest
<1>2. InTransit' = InTransit
  BY <1>0, <1>1 DEF InTransit
<1>3. Once'
  BY <1>0, <1>1, <1>2 DEF Once
<1>4. NothingElseLost'
  BY <1>0, <1>2 DEF NothingElseLost
<1>5. \A i \in 1..Len(rest) : rest[i] # f
  BY <1>1, RangeFacts
<1>6. CASE buf = <<>>
  <2>1. flusher' = [flusher EXCEPT ![f] = "returned"] /\ UNCHANGED acking
    BY <1>6 DEF RecvFlush, Answer
  <2>2. BatchTyped'
    BY <1>0, <1>1, <2>1 DEF BatchTyped
  <2>3. Queued'
    BY <1>0, <1>1, <1>5, <2>1 DEF Queued, BatchTyped
  <2>4. acking # f
    BY <1>1 DEF Taken
  <2>5. Taken'
    BY <1>0, <1>1, <2>1, <2>4 DEF Taken, BatchTyped
  <2>6. before[f] \cap InTransit' = {}
    BY <1>0, <1>1, <1>6, EmptyRange DEF InTransit
  <2>7. FlushDurable'
    BY <1>0, <1>2, <2>1, <2>6 DEF FlushDurable, BatchTyped
  <2>8. QED
    BY <1>3, <1>4, <2>2, <2>3, <2>5, <2>7
<1>7. CASE buf # <<>>
  <2>1. acking' = f /\ UNCHANGED flusher
    BY <1>7 DEF RecvFlush
  <2>2. BatchTyped'
    BY <1>0, <1>1, <2>1 DEF BatchTyped
  <2>3. Queued'
    BY <1>0, <1>1, <2>1 DEF Queued
  <2>4. Taken'
    BY <1>0, <1>1, <2>1 DEF Taken
  <2>5. FlushDurable'
    BY <1>0, <1>2, <2>1 DEF FlushDurable
  <2>6. QED
    BY <1>3, <1>4, <2>2, <2>3, <2>4, <2>5
<1>8. QED
  BY <1>6, <1>7

\* The buffer is stored or lost as a whole, and the flush taken is answered: what
\* it waits for was in the buffer.
LEMMA FlushBatchInv ==
  ASSUME BatchInv, NEW fails \in BOOLEAN, FlushBatch(fails)
  PROVE  BatchInv'
<1> USE DEF BatchInv
<1>0. /\ buf' = <<>> /\ acking' = None /\ UNCHANGED <<channel, appended, full, before>>
      /\ Range(buf') = {} /\ None \notin Flushers
  BY EmptyRange, LogBatchAssumption DEF FlushBatch
<1>1. Range(buf) \subseteq Records
  BY RangeFacts DEF BatchTyped
<1>2. InTransit = InTransit' \cup Range(buf) /\ InTransit' \cap Range(buf) = {}
  BY <1>0 DEF InTransit, Once
<1>3. \/ table' = table \cup Range(buf) /\ failed' = failed
      \/ failed' = failed \cup Range(buf) /\ table' = table
  BY DEF FlushBatch
<1>4. flusher' = IF acking = None THEN flusher ELSE [flusher EXCEPT ![acking] = "returned"]
  BY DEF FlushBatch
<1>5. /\ table' \subseteq Records /\ failed' \subseteq Records
      /\ InTransit' \cap table' = {}
  BY <1>1, <1>2, <1>3 DEF BatchTyped, Once
<1>6. NothingElseLost'
  BY <1>0, <1>2, <1>3 DEF NothingElseLost, Once
<1>7. BatchTyped'
  <2>1. buf' \in Seq(Records)
    BY <1>0
  <2>2. flusher' \in [Flushers -> {"idle", "sending", "waiting", "returned"}]
    BY <1>4 DEF BatchTyped
  <2>3. QED
    BY <1>0, <1>5, <2>1, <2>2 DEF BatchTyped
<1>8. Once'
  BY <1>0, <1>5 DEF Once
<1>9. Taken'
  BY <1>0 DEF Taken
<1>10. Queued' /\ FlushDurable'
  <2>1. CASE acking = None
    BY <1>0, <1>2, <1>4, <2>1 DEF Queued, FlushDurable
  <2>2. CASE acking # None
    <3>1. /\ acking \in Flushers /\ acking \notin Range(channel)
          /\ before[acking] \cap Range(channel) = {}
      BY <2>2 DEF Taken, BatchTyped
    <3>2. flusher' = [flusher EXCEPT ![acking] = "returned"]
      BY <1>4, <2>2
    <3>3. \A i \in 1..Len(channel) : channel[i] # acking
      BY <3>1, RangeFacts DEF BatchTyped
    <3>4. Queued'
      BY <1>0, <3>2, <3>3 DEF Queued, BatchTyped
    <3>5. before[acking] \cap InTransit' = {}
      BY <1>0, <3>1 DEF InTransit
    <3>6. FlushDurable'
      BY <1>0, <1>2, <3>2, <3>5 DEF FlushDurable, BatchTyped
    <3>7. QED
      BY <3>4, <3>6
  <2>3. QED
    BY <2>1, <2>2
<1>11. QED
  BY <1>6, <1>7, <1>8, <1>9, <1>10

\* Steps that change only the worker or the senders.
LEMMA OtherInv ==
  ASSUME BatchInv,
         UNCHANGED <<channel, buf, acking, table, flusher, appended, full, failed, before>>
  PROVE  BatchInv'
BY DEF BatchInv, BatchTyped, Once, Queued, Taken, NothingElseLost, FlushDurable, InTransit

\* Every step keeps the invariant.
LEMMA StepBatch == BatchInv /\ [LogNext]_logVars => BatchInv'
<1> SUFFICES ASSUME BatchInv, [LogNext]_logVars PROVE BatchInv'
  OBVIOUS
<1>1. CASE Tick \/ Drain \/ Close \/ Exit \/ Stopped \/ UNCHANGED logVars
  <2>1. UNCHANGED <<channel, buf, acking, table, flusher, appended, full, failed, before>>
    BY <1>1 DEF Tick, Drain, Close, Exit, Stopped, logVars
  <2>2. QED
    BY <2>1, OtherInv
<1>2. ASSUME NEW fails \in InsertFails, FlushBatch(fails) PROVE BatchInv'
  BY <1>2, FlushBatchInv, LogBatchAssumption
<1>3. QED
  BY <1>1, <1>2, AppendInv, CallInv, SendInv, RecvRecordInv, RecvFlushInv DEF LogNext, WorkerStep

\* A record is lost only in the two ways the code knows of: the channel was full
\* or the insert of its batch failed.
THEOREM NoOtherLoss == LogSpec => []NothingElseLost
<1>1. BatchInv => NothingElseLost
  BY DEF BatchInv
<1>2. QED
  BY <1>1, InitBatch, StepBatch, PTL DEF LogSpec

\* When flush returns, nothing that was appended before the call is in transit:
\* recompute_costs may rely on it.
THEOREM FlushIsDurable == LogSpec => []FlushDurable
<1>1. BatchInv => FlushDurable
  BY DEF BatchInv
<1>2. QED
  BY <1>1, InitBatch, StepBatch, PTL DEF LogSpec

----------------------------------------------------------------------------
(* Slots in Redis                                                          *)

Places == {"idle", "expire", "compare", "rollback", "held", "release"}

\* The variables the argument uses keep their types.
CounterTyped ==
  /\ count \in Int \cup {None}
  /\ pc \in [Requests -> Places]
  /\ v \in [Requests -> Int]
  /\ rivals \in [Requests -> Nat]
  /\ drifted \in BOOLEAN

\* The requests that hold a slot, or will get one when they compare.
Winners ==
  {r \in Requests : pc[r] = "held" \/ (pc[r] \in {"expire", "compare"} /\ v[r] <= MaxSlots)}

\* What INCR returned is one more than the slots that were counted.
Fresh ==
  \A r \in Requests : pc[r] \in {"expire", "compare"} =>
    v[r] = rivals[r] + 1 /\ rivals[r] < Cardinality(Requests)

\* SlotsExact is not inductive: a request that has incremented and not compared
\* yet is already as good as granted, or as good as denied.
Exact ==
  /\ Value = Cardinality(Counted)
  /\ Cardinality(Winners) <= MaxSlots
  /\ Fresh
  /\ \A r \in Requests : pc[r] = "rollback" => rivals[r] >= MaxSlots

CounterInv == CounterTyped /\ (~drifted => Exact)

----------------------------------------------------------------------------
\* A count below 2^32 is what it is as a u32.
LEMMA Truncation ==
  ASSUME NEW n \in Nat, n < U32
  PROVE  OverCount(n) <=> n > MaxSlots
<1>1. n % U32 = n
  BY RedisAssumption
<1>2. QED
  BY <1>1 DEF OverCount

\* Sets of requests are finite.
LEMMA FiniteParts ==
  ASSUME NEW S \in SUBSET Requests
  PROVE  /\ IsFiniteSet(S) /\ Cardinality(S) \in Nat
         /\ Cardinality(S) <= Cardinality(Requests)
BY RedisAssumption, FS_Subset, FS_CardinalityType

\* The cardinality of a part of a set of requests.
LEMMA SmallerPart ==
  ASSUME NEW S \in SUBSET Requests, NEW T \in SUBSET S
  PROVE  Cardinality(T) <= Cardinality(S)
BY FiniteParts, FS_Subset

LEMMA Sets ==
  Counted \in SUBSET Requests /\ Winners \in SUBSET Counted /\ Held \in SUBSET Winners
BY DEF Counted, Winners, Held

\* The counter as a number.
LEMMA ValueType == ASSUME CounterTyped PROVE Value \in Int
BY DEF CounterTyped, Value

\* The invariant holds at the start: there is no key and no request.
LEMMA InitCounter == SlotInit => CounterInv
<1> SUFFICES ASSUME SlotInit PROVE CounterInv
  OBVIOUS
<1>1. CounterTyped
  <2>1. drifted \in BOOLEAN
    BY DEF SlotInit
  <2>2. /\ count \in Int \cup {None} /\ pc \in [Requests -> Places]
        /\ v \in [Requests -> Int] /\ rivals \in [Requests -> Nat]
    BY DEF SlotInit, Places
  <2>3. QED
    BY <2>1, <2>2 DEF CounterTyped
<1>2. Counted = {} /\ Winners = {}
  BY DEF SlotInit, Counted, Winners
<1>3. Value = 0 /\ MaxSlots \in Nat
  BY RedisAssumption DEF SlotInit, Value
<1>4. Fresh /\ \A r \in Requests : pc[r] # "rollback"
  BY DEF SlotInit, Fresh
<1>5. QED
  BY <1>1, <1>2, <1>3, <1>4, FS_EmptySet DEF CounterInv, Exact

\* INCR counts the request; if the new value is within the cap, so are all that
\* are counted, and otherwise the request will not win.
LEMMA IncrInv ==
  ASSUME CounterInv, NEW r \in Requests, Incr(r)
  PROVE  CounterInv'
<1> USE DEF CounterInv
<1>1. /\ pc[r] = "idle" /\ pc' = [pc EXCEPT ![r] = "expire"]
      /\ count' = Value + 1 /\ v' = [v EXCEPT ![r] = Value + 1]
      /\ rivals' = [rivals EXCEPT ![r] = Cardinality(Counted)]
      /\ drifted' = drifted
  BY DEF Incr, Goto
<1>2. Cardinality(Counted) \in Nat /\ IsFiniteSet(Counted) /\ Value \in Int
  BY Sets, FiniteParts, ValueType
<1>3. CounterTyped'
  BY <1>1, <1>2 DEF CounterTyped, Places
<1>4. Counted' = Counted \cup {r} /\ r \notin Counted
  BY <1>1 DEF Counted, CounterTyped
<1>5. Cardinality(Counted') = Cardinality(Counted) + 1
  BY <1>2, <1>4, FS_AddElement
<1>6. ASSUME ~drifted' PROVE Exact'
  <2>1. Exact
    BY <1>1, <1>6
  <2>2. Value' = Cardinality(Counted')
    BY <1>1, <1>2, <1>5, <2>1, RedisAssumption DEF Exact, Value
  <2>3. Cardinality(Counted') <= Cardinality(Requests) /\ Cardinality(Requests) \in Nat
    <3>1. Counted \cup {r} \in SUBSET Requests
      BY Sets
    <3>2. QED
      BY <1>4, <3>1, FiniteParts
  <2>4. Fresh'
    BY <1>1, <1>2, <1>5, <2>1, <2>3 DEF Exact, Fresh, CounterTyped
  <2>5. Cardinality(Winners') <= MaxSlots
    <3>1. CASE Value + 1 <= MaxSlots
      <4>1. Winners' \in SUBSET (Counted \cup {r})
        BY <1>1 DEF Winners, Counted, CounterTyped
      <4>2. Cardinality(Winners') <= Cardinality(Counted \cup {r})
        <5>1. Counted \cup {r} \in SUBSET Requests
          BY Sets
        <5>2. QED
          BY <4>1, <5>1, SmallerPart
      <4>3. Cardinality(Winners') \in Nat
        <5>1. Winners' \in SUBSET Requests
          BY DEF Winners
        <5>2. QED
          BY <5>1, FiniteParts
      <4>4. QED
        BY <1>2, <1>4, <1>5, <2>1, <3>1, <4>2, <4>3, RedisAssumption DEF Exact
    <3>2. CASE ~(Value + 1 <= MaxSlots)
      <4>1. Winners' = Winners
        BY <1>1, <3>2 DEF Winners, CounterTyped
      <4>2. QED
        BY <2>1, <4>1 DEF Exact
    <3>3. QED
      BY <3>1, <3>2
  <2>6. \A q \in Requests : pc'[q] = "rollback" => rivals'[q] >= MaxSlots
    BY <1>1, <2>1 DEF Exact, CounterTyped
  <2>7. QED
    BY <2>2, <2>4, <2>5, <2>6 DEF Exact
<1>7. QED
  BY <1>3, <1>6

\* The comparison grants exactly those that were going to win.
LEMMA CompareInv ==
  ASSUME CounterInv, NEW r \in Requests, Compare(r)
  PROVE  CounterInv'
<1> USE DEF CounterInv
<1>1. pc[r] = "compare" /\ UNCHANGED <<count, drifted>>
  BY DEF Compare
<1>2. \/ /\ OverCount(v[r])
         /\ pc' = [pc EXCEPT ![r] = "rollback"] /\ UNCHANGED <<v, rivals>>
      \/ /\ ~OverCount(v[r])
         /\ pc' = [pc EXCEPT ![r] = "held"]
         /\ v' = [v EXCEPT ![r] = 0] /\ rivals' = [rivals EXCEPT ![r] = 0]
  BY DEF Compare, Goto, Return
<1>3. CounterTyped'
  BY <1>1, <1>2 DEF CounterTyped, Places
<1>4. ASSUME ~drifted PROVE Exact'
  <2>0. Exact
    BY <1>4
  <2>1. v[r] = rivals[r] + 1 /\ v[r] \in Nat /\ v[r] < U32 /\ rivals[r] \in Nat
    <3>1. Cardinality(Requests) \in Nat /\ Cardinality(Requests) < U32 /\ U32 \in Nat
      BY RedisAssumption, FiniteParts
    <3>2. v[r] = rivals[r] + 1 /\ rivals[r] < Cardinality(Requests) /\ rivals[r] \in Nat
      BY <1>1, <2>0 DEF Exact, Fresh, CounterTyped
    <3>3. QED
      BY <3>1, <3>2
  <2>2. OverCount(v[r]) <=> v[r] > MaxSlots
    BY <2>1, Truncation
  <2>3. Counted' = Counted
    BY <1>1, <1>2 DEF Counted, CounterTyped
  <2>4. Value' = Value
    BY <1>1 DEF Value
  <2>5. Winners' = Winners
    <3>1. CASE v[r] > MaxSlots
      BY <1>1, <1>2, <2>1, <2>2, <3>1, RedisAssumption DEF Winners, CounterTyped
    <3>2. CASE ~(v[r] > MaxSlots)
      BY <1>1, <1>2, <2>1, <2>2, <3>2, RedisAssumption DEF Winners, CounterTyped
    <3>3. QED
      BY <3>1, <3>2
  <2>6. Fresh'
    BY <1>1, <1>2, <2>0 DEF Exact, Fresh, CounterTyped
  <2>7. \A q \in Requests : pc'[q] = "rollback" => rivals'[q] >= MaxSlots
    <3>1. CASE v[r] > MaxSlots
      BY <1>1, <1>2, <2>0, <2>1, <2>2, <3>1, RedisAssumption DEF Exact, CounterTyped
    <3>2. CASE ~(v[r] > MaxSlots)
      BY <1>1, <1>2, <2>0, <2>1, <2>2, <3>2, RedisAssumption DEF Exact, CounterTyped
    <3>3. QED
      BY <3>1, <3>2
  <2>8. QED
    BY <2>0, <2>3, <2>4, <2>5, <2>6, <2>7 DEF Exact
<1>5. QED
  BY <1>1, <1>3, <1>4

\* A call or a permit ends and its increment is taken back.
LEMMA TakenBack ==
  ASSUME CounterInv, NEW r \in Requests, r \in Counted,
         count' = Value - 1, Return(r, "idle"), UNCHANGED drifted
  PROVE  CounterInv'
<1> USE DEF CounterInv
<1>1. /\ pc' = [pc EXCEPT ![r] = "idle"] /\ v' = [v EXCEPT ![r] = 0]
      /\ rivals' = [rivals EXCEPT ![r] = 0]
  BY DEF Return, Goto
<1>2. Value \in Int /\ IsFiniteSet(Counted) /\ Cardinality(Counted) \in Nat
  BY Sets, FiniteParts, ValueType
<1>3. CounterTyped'
  BY <1>1, <1>2 DEF CounterTyped, Places
<1>4. Counted' = Counted \ {r}
  BY <1>1 DEF Counted, CounterTyped
<1>5. Cardinality(Counted') = Cardinality(Counted) - 1
  BY <1>2, <1>4, FS_RemoveElement
<1>6. ASSUME ~drifted PROVE Exact'
  <2>0. Exact
    BY <1>6
  <2>1. Value' = Cardinality(Counted')
    BY <1>2, <1>5, <2>0, RedisAssumption DEF Exact, Value
  <2>2. Cardinality(Winners') <= MaxSlots
    <3>1. Winners' \in SUBSET Winners /\ Winners \in SUBSET Requests
      BY <1>1 DEF Winners, CounterTyped
    <3>2. Cardinality(Winners') <= Cardinality(Winners)
      BY <3>1, SmallerPart
    <3>3. Cardinality(Winners') \in Nat /\ Cardinality(Winners) \in Nat
      BY <3>1, FiniteParts
    <3>4. QED
      BY <2>0, <3>2, <3>3, RedisAssumption DEF Exact
  <2>3. Fresh' /\ \A q \in Requests : pc'[q] = "rollback" => rivals'[q] >= MaxSlots
    BY <1>1, <2>0 DEF Exact, Fresh, CounterTyped
  <2>4. QED
    BY <2>1, <2>2, <2>3 DEF Exact
<1>7. QED
  BY <1>3, <1>6

\* EXPIRE and the drop of a permit change nobody's standing.
LEMMA StandingInv ==
  ASSUME CounterInv, NEW r \in Requests, Expire(r) \/ Drop(r)
  PROVE  CounterInv'
<1> USE DEF CounterInv
<1>1. /\ UNCHANGED <<count, v, drifted, rivals>>
      /\ \/ pc[r] = "expire" /\ pc' = [pc EXCEPT ![r] = "compare"]
         \/ pc[r] = "held" /\ pc' = [pc EXCEPT ![r] = "release"]
  BY DEF Expire, Drop, Goto
<1>2. CounterTyped'
  BY <1>1 DEF CounterTyped, Places
<1>3. Counted' = Counted /\ Value' = Value
  BY <1>1 DEF Counted, Value, CounterTyped
<1>4. ASSUME ~drifted PROVE Exact'
  <2>0. Exact
    BY <1>4
  <2>1. Winners' \in SUBSET Winners /\ Winners \in SUBSET Requests
    BY <1>1 DEF Winners, CounterTyped
  <2>2. Cardinality(Winners') <= Cardinality(Winners)
    BY <2>1, SmallerPart
  <2>3. Cardinality(Winners') \in Nat /\ Cardinality(Winners) \in Nat
    BY <2>1, FiniteParts
  <2>4. Cardinality(Winners') <= MaxSlots
    BY <2>0, <2>2, <2>3, RedisAssumption DEF Exact
  <2>5. Fresh' /\ \A q \in Requests : pc'[q] = "rollback" => rivals'[q] >= MaxSlots
    BY <1>1, <2>0 DEF Exact, Fresh, CounterTyped
  <2>6. QED
    BY <1>3, <2>0, <2>4, <2>5 DEF Exact
<1>5. QED
  BY <1>1, <1>2, <1>4

\* A step that leaves the counter wrong says so.
LEMMA DriftInv ==
  ASSUME CounterInv, NEW r \in Requests,
         ExpireFails(r) \/ Die(r) \/ (DecrFails(r) /\ drifted')
           \/ (IncrFails(r) /\ drifted')
  PROVE  CounterInv'
<1> USE DEF CounterInv
<1>0. drifted' \in BOOLEAN
  BY DEF ExpireFails, Die, DecrFails, IncrFails, CounterTyped
<1>1. count' \in Int \cup {None}
  BY ValueType DEF ExpireFails, Die, DecrFails, IncrFails, Decr, CounterTyped
<1>2. pc' \in [Requests -> Places] /\ v' \in [Requests -> Int] /\ rivals' \in [Requests -> Nat]
  BY DEF ExpireFails, Die, DecrFails, IncrFails, Return, Goto, CounterTyped, Places
<1>3. drifted'
  BY DEF ExpireFails, Die
<1>4. QED
  BY <1>0, <1>1, <1>2, <1>3 DEF CounterTyped

\* Nothing the invariant is about changes.
LEMMA StutterInv ==
  ASSUME CounterInv, UNCHANGED <<count, pc, v, drifted, rivals>>
  PROVE  CounterInv'
BY DEF CounterInv, CounterTyped, Exact, Value, Counted, Winners, Fresh

\* The end of the key's life forgives everything if nothing is in flight.
LEMMA TtlTickInv == ASSUME CounterInv, TtlTick PROVE CounterInv'
<1> USE DEF CounterInv
<1>1. CASE ttl # 1
  BY <1>1, StutterInv DEF TtlTick
<1>2. CASE ttl = 1
  <2>1. count' = None /\ drifted' = (Counted # {}) /\ UNCHANGED <<pc, v, rivals>>
    BY <1>2 DEF TtlTick
  <2>2. CounterTyped'
    BY <2>1 DEF CounterTyped
  <2>3. ASSUME Counted = {} PROVE Exact'
    <3>1. Counted' = {} /\ Winners' = {}
      BY <2>1, <2>3 DEF Counted, Winners
    <3>2. \A q \in Requests : pc'[q] \notin {"expire", "compare", "rollback"}
      BY <3>1 DEF Counted
    <3>3. QED
      BY <2>1, <3>1, <3>2, FS_EmptySet, RedisAssumption DEF Exact, Fresh, Value
  <2>4. QED
    BY <2>1, <2>2, <2>3
<1>3. QED
  BY <1>1, <1>2

----------------------------------------------------------------------------
\* Every step keeps the invariant.
LEMMA StepCounter == CounterInv /\ [SlotNext]_slotVars => CounterInv'
<1> SUFFICES ASSUME CounterInv, [SlotNext]_slotVars PROVE CounterInv'
  OBVIOUS
<1>1. ASSUME NEW r \in Requests, Acquire(r) \/ Drop(r) \/ Release(r) PROVE CounterInv'
  <2>1. CASE Rollback(r) \/ Release(r)
    <3>1. r \in Counted
      BY <2>1 DEF Rollback, Release, Counted
    <3>2. count' = Value - 1 /\ Return(r, "idle") /\ UNCHANGED drifted
      BY <2>1 DEF Rollback, Release, Decr
    <3>3. QED
      BY <3>1, <3>2, TakenBack
  <2>2. QED
    BY <1>1, <2>1, IncrInv, CompareInv, StandingInv DEF Acquire
<1>2. ASSUME NEW r \in Requests, DecrFails(r) PROVE CounterInv'
  <2>1. CASE drifted'
    BY <1>2, <2>1, DriftInv
  <2>2. CASE ~drifted'
    <3>1. r \in Counted
      BY <1>2 DEF DecrFails, Counted
    <3>2. count' = Value - 1 /\ Return(r, "idle") /\ UNCHANGED drifted
      BY <1>2, <2>2 DEF DecrFails, Decr
    <3>3. QED
      BY <3>1, <3>2, TakenBack
  <2>3. QED
    BY <2>1, <2>2
<1>3. ASSUME NEW r \in Requests, IncrFails(r) PROVE CounterInv'
  <2>1. CASE drifted'
    BY <1>3, <2>1, DriftInv
  <2>2. CASE ~drifted'
    BY <1>3, <2>2, StutterInv DEF IncrFails
  <2>3. QED
    BY <2>1, <2>2
<1>4. ASSUME NEW r \in Requests, ExpireFails(r) \/ Die(r) PROVE CounterInv'
  BY <1>4, DriftInv
<1>5. CASE UNCHANGED slotVars
  BY <1>5, StutterInv DEF slotVars
<1>6. QED
  BY <1>1, <1>2, <1>3, <1>4, <1>5, TtlTickInv DEF SlotNext

\* While no command was lost and the key has not expired under a permit, the
\* Redis counter is the number of slots in use and the cap is never exceeded,
\* for any number of requests on any number of gateways.
THEOREM RedisSlotsExact == SlotSpec => []SlotsExact
<1>1. CounterInv => SlotsExact
  <2> SUFFICES ASSUME CounterInv, ~drifted PROVE Value = Cardinality(Counted) /\ Cardinality(Held) <= MaxSlots
    BY DEF SlotsExact
  <2>1. Cardinality(Held) <= Cardinality(Winners)
    BY Sets, SmallerPart
  <2>2. Cardinality(Held) \in Nat /\ Cardinality(Winners) \in Nat
    BY Sets, FiniteParts
  <2>3. QED
    BY <2>1, <2>2, RedisAssumption DEF CounterInv, Exact
<1>2. QED
  BY <1>1, InitCounter, StepCounter, PTL DEF SlotSpec

\* While the counter has not drifted a request is denied only at the cap.
THEOREM RedisDeniedAtCap == SlotSpec => []DeniedAtCap
<1>1. CounterInv => DeniedAtCap
  BY DEF CounterInv, Exact, DeniedAtCap
<1>2. QED
  BY <1>1, InitCounter, StepCounter, PTL DEF SlotSpec

----------------------------------------------------------------------------
(* Prices and costs                                                        *)

\* A set of numbers has a least one.
LEMMA LeastExists ==
  ASSUME NEW S \in SUBSET Nat, S # {}
  PROVE  \E x \in S : \A y \in S : x <= y
<1> DEFINE R == OpToRel(<, Nat)
<1>1. PICK x \in S : \A y \in S : ~(<<y, x>> \in R)
  <2>1. IsWellFoundedOn(R, Nat)
    BY NatLessThanWellFounded
  <2> HIDE DEF R
  <2>2. QED
    BY <2>1, WFMin
<1>2. ASSUME NEW y \in S PROVE x <= y
  <2>1. x \in Nat /\ y \in Nat
    OBVIOUS
  <2>2. ~(y < x)
    BY <1>1, <2>1 DEF OpToRel
  <2>3. QED
    BY <2>1, <2>2
<1>3. QED
  BY <1>2

----------------------------------------------------------------------------
(* The catalog in force                                                    *)

\* The rows an edit may store.
Rows == {RowOf(e) : e \in Edits}

AdminTyped ==
  /\ overrides \in SUBSET Rows /\ pricing \in SUBSET Rows
  /\ crossed \in BOOLEAN /\ fetched \in BOOLEAN
  /\ admin \in [Admins -> [pc : {"idle", "write", "list", "store", "done", "failed"},
                           edit : Opt(Edits), listed : SUBSET Rows]]
  /\ \A a \in Admins : At(a, "write") => admin[a].edit \in Edits

\* Unless something crossed, edits run one at a time.
OneEdit == ~crossed => \A a, b \in InEdit : a = b

\* What an edit that runs alone has listed is what is stored.
Refreshing == ~crossed => \A a \in Admins : At(a, "store") => admin[a].listed = overrides

CatalogInv == AdminTyped /\ OneEdit /\ Refreshing /\ CatalogCurrent

LEMMA AskCatalog ==
  ASSUME CatalogInv, NEW a \in Admins, NEW e \in Edits, Ask(a, e)
  PROVE  CatalogInv'
<1>1. AdminTyped'
  <2>1. PICK p \in {"write", "done"} : p = IF Valid(e) THEN "write" ELSE "done"
    OBVIOUS
  <2>2. /\ admin' = [admin EXCEPT ![a].pc = p, ![a].edit = e]
        /\ UNCHANGED <<overrides, fetched, pricing>> /\ crossed' \in BOOLEAN
    BY <2>1 DEF Ask, CatalogInv, AdminTyped
  <2>3. admin' \in [Admins -> [pc : {"idle", "write", "list", "store", "done", "failed"},
                               edit : Opt(Edits), listed : SUBSET Rows]]
    BY <2>2 DEF CatalogInv, AdminTyped, Opt
  <2>4. \A b \in Admins : b # a => admin'[b] = admin[b]
    BY <2>2 DEF CatalogInv, AdminTyped
  <2>5. admin'[a].edit = e
    BY <2>2 DEF CatalogInv, AdminTyped
  <2>6. \A b \in Admins : At(b, "write")' => admin'[b].edit \in Edits
    BY <2>4, <2>5 DEF CatalogInv, AdminTyped, At
  <2>7. QED
    BY <2>2, <2>3, <2>6 DEF CatalogInv, AdminTyped
<1>2. InEdit' = IF Valid(e) THEN InEdit \cup {a} ELSE InEdit
  BY DEF CatalogInv, AdminTyped, Ask, InEdit, At
<1>3. OneEdit' /\ CatalogCurrent'
  <2>1. CASE Valid(e)
    BY <1>2, <2>1 DEF CatalogInv, OneEdit, CatalogCurrent, Ask
  <2>2. CASE ~Valid(e)
    BY <1>2, <2>2 DEF CatalogInv, OneEdit, CatalogCurrent, Ask
  <2>3. QED
    BY <2>1, <2>2
<1>4. Refreshing'
  <2>1. \A b \in Admins : At(b, "store")' => At(b, "store") /\ b \in InEdit
    BY DEF CatalogInv, AdminTyped, Ask, At, InEdit
  <2>2. \A b \in Admins : admin'[b].listed = admin[b].listed
    BY DEF CatalogInv, AdminTyped, Ask
  <2>3. CASE Valid(e)
    BY <2>1, <2>3 DEF Refreshing, Ask
  <2>4. CASE ~Valid(e)
    BY <2>1, <2>2, <2>4 DEF CatalogInv, Refreshing, Ask
  <2>5. QED
    BY <2>3, <2>4
<1>5. QED
  BY <1>1, <1>3, <1>4 DEF CatalogInv

LEMMA EditCatalog ==
  ASSUME CatalogInv, NEW a \in Admins, Write(a) \/ List(a) \/ Store(a)
  PROVE  CatalogInv'
<1>1. CASE Write(a)
  <2>1. RowOf(admin[a].edit) \in Rows
    BY <1>1 DEF CatalogInv, AdminTyped, Write, Rows
  <2>2. CASE /\ overrides' = Others(admin[a].edit)
                    \cup (IF admin[a].edit.op = "upsert" THEN {RowOf(admin[a].edit)} ELSE {})
             /\ admin' = [admin EXCEPT ![a].pc = "list"] /\ UNCHANGED crossed
    <3>1. AdminTyped'
      BY <1>1, <2>1, <2>2 DEF CatalogInv, AdminTyped, Write, Others, At
    <3>2. /\ InEdit' = InEdit /\ a \in InEdit
          /\ \A b \in Admins : At(b, "store")' => At(b, "store") /\ b \in InEdit /\ b # a
      BY <1>1, <2>2 DEF CatalogInv, AdminTyped, Write, At, InEdit
    <3>3. QED
      BY <2>2, <3>1, <3>2 DEF CatalogInv, OneEdit, Refreshing, CatalogCurrent
  <2>3. CASE /\ admin' = [admin EXCEPT ![a].pc = "failed"]
             /\ crossed' = (crossed \/ pricing # overrides) /\ UNCHANGED overrides
    <3>1. AdminTyped'
      BY <1>1, <2>3 DEF CatalogInv, AdminTyped, Write, At
    <3>2. /\ InEdit' \subseteq InEdit /\ UNCHANGED pricing
          /\ \A b \in Admins : At(b, "store")' => At(b, "store")
          /\ \A b \in Admins : admin'[b].listed = admin[b].listed
      BY <1>1, <2>3 DEF CatalogInv, AdminTyped, Write, At, InEdit
    <3>3. QED
      BY <2>3, <3>1, <3>2 DEF CatalogInv, OneEdit, Refreshing, CatalogCurrent
  <2>4. QED
    BY <1>1, <2>2, <2>3 DEF Write
<1>2. CASE List(a)
  <2>1. AdminTyped'
    <3>1. CASE admin' = [admin EXCEPT ![a].pc = "store", ![a].listed = overrides]
      BY <1>2, <3>1 DEF CatalogInv, AdminTyped, List, At
    <3>2. CASE admin' = [admin EXCEPT ![a].pc = "failed"]
      BY <1>2, <3>2 DEF CatalogInv, AdminTyped, List, At
    <3>3. QED
      BY <1>2, <3>1, <3>2 DEF List
  <2>2. /\ \A b \in Admins : b # a => admin'[b] = admin[b]
        /\ a \in InEdit /\ UNCHANGED <<overrides, pricing>>
        /\ \/ admin'[a].pc = "store" /\ admin'[a].listed = overrides /\ crossed' = crossed
           \/ admin'[a].pc = "failed" /\ crossed'
    BY <1>2 DEF CatalogInv, AdminTyped, List, InEdit, At
  <2>3. InEdit' \subseteq InEdit
    BY <2>2 DEF InEdit
  <2>4. crossed' \/ a \in InEdit'
    BY <2>2 DEF InEdit
  <2>5. OneEdit' /\ CatalogCurrent'
    BY <2>2, <2>3, <2>4 DEF CatalogInv, OneEdit, CatalogCurrent
  <2>6. Refreshing'
    BY <2>2 DEF CatalogInv, Refreshing, At
  <2>7. QED
    BY <2>1, <2>5, <2>6 DEF CatalogInv
<1>3. CASE Store(a)
  <2>1. AdminTyped'
    BY <1>3 DEF CatalogInv, AdminTyped, Store, At
  <2>2. /\ \A b \in Admins : b # a => admin'[b] = admin[b]
        /\ a \in InEdit /\ UNCHANGED <<overrides, crossed>>
        /\ admin'[a].pc = "done" /\ pricing' = admin[a].listed /\ At(a, "store")
    BY <1>3 DEF CatalogInv, AdminTyped, Store, InEdit, At
  <2>3. InEdit' = InEdit \ {a}
    BY <2>2 DEF InEdit
  <2>4. ~crossed => pricing' = overrides /\ InEdit = {a}
    BY <2>2 DEF CatalogInv, OneEdit, Refreshing
  <2>5. OneEdit' /\ CatalogCurrent'
    BY <2>2, <2>3, <2>4 DEF OneEdit, CatalogCurrent
  <2>6. Refreshing'
    BY <2>2, <2>4 DEF CatalogInv, Refreshing, At, InEdit
  <2>7. QED
    BY <2>1, <2>5, <2>6 DEF CatalogInv
<1>4. QED
  BY <1>1, <1>2, <1>3

LEMMA RestartCatalog ==
  ASSUME CatalogInv, Restart
  PROVE  CatalogInv'
<1>1. \A a \in Admins :
        /\ admin'[a].pc = IF At(a, "idle") THEN "idle" ELSE "done"
        /\ admin'[a] \in [pc : {"idle", "write", "list", "store", "done", "failed"},
                          edit : Opt(Edits), listed : SUBSET Rows]
  BY DEF CatalogInv, AdminTyped, Restart, At
<1>2. AdminTyped'
  BY <1>1 DEF CatalogInv, AdminTyped, Restart, At
<1>3. InEdit' = {}
  BY <1>1 DEF InEdit
<1>4. QED
  BY <1>1, <1>2, <1>3 DEF CatalogInv, OneEdit, Refreshing, CatalogCurrent, Restart, At

LEMMA StepCatalog == CatalogInv /\ [Next]_vars => CatalogInv'
<1> SUFFICES ASSUME CatalogInv, [Next]_vars PROVE CatalogInv'
  OBVIOUS
<1>1. CASE UNCHANGED prices
  BY <1>1 DEF prices, CatalogInv, AdminTyped, OneEdit, Refreshing, CatalogCurrent, At, InEdit
<1>2. \/ UNCHANGED prices
      \/ \E a \in Admins : Edit(a)
      \/ Restart
  BY DEF Next, vars, prices, Submit, Persist, PersistFails, Sweep, SweepFlush, SweepLoad,
         SweepKeys, SweepEnds, SweepFails, SweepKey, WalkStart, WalkOn
<1>3. QED
  BY <1>1, <1>2, AskCatalog, EditCatalog, RestartCatalog DEF Edit

LEMMA InitCatalog == Init => CatalogInv
<1> SUFFICES ASSUME Init PROVE CatalogInv
  OBVIOUS
<1>1. IdleAdmin \in [pc : {"idle", "write", "list", "store", "done", "failed"},
                     edit : Opt(Edits), listed : SUBSET Rows]
  BY DEF IdleAdmin, Opt
<1>2. AdminTyped
  BY <1>1 DEF Init, AdminTyped, At, IdleAdmin
<1>3. QED
  BY <1>2 DEF Init, CatalogInv, OneEdit, Refreshing, CatalogCurrent, At, InEdit, IdleAdmin

\* CatalogCurrent holds: whenever no edit is under way, the catalog in force is the
\* base under the stored overrides, unless the last edits overlapped or the last one
\* could not refresh.
THEOREM CatalogFollowsTable == Spec => []CatalogCurrent
<1>1. CatalogInv => CatalogCurrent
  BY DEF CatalogInv
<1>2. QED
  BY <1>1, InitCatalog, StepCatalog, PTL DEF Spec

----------------------------------------------------------------------------
(* The costs in the log                                                    *)

\* The costs of r are those of its tokens at the price.
AtPrice(r, price) ==
  /\ r.would_have_cost_usd = apply(price, r.request.usage)
  /\ r.cost_usd = IF r.request.cached THEN 0 ELSE apply(price, r.request.usage)

LogTyped ==
  /\ log \in [Ids -> Opt(LogRecord)]
  /\ pending \in SUBSET Ids
  /\ \A id \in pending : log[id] # None

\* A record was answered by the provider it was priced with; if it is a success
\* its costs are those at its entry.
LogPriced ==
  \A id \in Ids : log[id] # None =>
    /\ log[id].last_attempt = PricedWith(log[id].request)
    /\ (/\ log[id].request.success /\ log[id].request.usage # None
        /\ log[id].entry # None)
         => AtPrice(log[id], log[id].entry)

CostKeys == {CostKey(r) : r \in LogRecord}

SweepTyped ==
  /\ sweep \in [pc : {"idle", "load", "keys", "rows", "done", "failed"},
                window : Opt(Windows), pricing : SUBSET Rows, keys : SUBSET CostKeys,
                covered : SUBSET Ids]
  /\ sweep.pc \in {"load", "keys", "rows", "done"} => sweep.window \in Windows

\* The price the sweep finds for a record.
SweepPrice(id) ==
  lookup(merged_catalog(sweep.pricing), resolve_provider(log[id]), log[id].request.model)

AtSweepPrice(id) == SweepPrice(id) # None => AtPrice(log[id], SweepPrice(id))

\* What was logged before a sweep is stored once flush returns, and its costs are
\* settled when its key has been dealt with.
SweepCovers ==
  /\ sweep.pc = "load" => \A id \in sweep.covered : log[id] # None
  /\ sweep.pc \in {"keys", "rows", "done"} => sweep.covered \subseteq Table
  /\ sweep.pc = "rows" =>
       \A id \in sweep.covered \cap Swept(sweep.window) :
         CostKey(log[id]) \in sweep.keys \/ AtSweepPrice(id)
  /\ sweep.pc = "done" => \A id \in sweep.covered \cap Swept(sweep.window) : AtSweepPrice(id)

LedgerInv == LogTyped /\ LogPriced /\ SweepTyped /\ SweepCovers

LEMMA FirstOfTwo ==
  ASSUME NEW a, NEW b
  PROVE  FirstOf(<<a, b>>) = IF a # None THEN a ELSE b
<1> DEFINE some == {i \in 1..2 : <<a, b>>[i] # None}
           Least(i) == i \in some /\ \A j \in some : i <= j
<1>1. FirstOf(<<a, b>>) = IF some = {} THEN None ELSE <<a, b>>[CHOOSE i \in some : \A j \in some : i <= j]
  BY DEF FirstOf
<1>2. CASE a # None
  <2>1. Least(1) /\ \A i : Least(i) => i = 1
    BY <1>2
  <2>2. (CHOOSE i \in some : \A j \in some : i <= j) = 1
    BY <2>1
  <2>3. QED
    BY <1>1, <1>2, <2>1, <2>2
<1>3. CASE a = None /\ b # None
  <2>1. some = {2}
    BY <1>3
  <2>2. (CHOOSE i \in some : \A j \in some : i <= j) = 2
    BY <2>1
  <2>3. QED
    BY <1>1, <1>3, <2>1, <2>2
<1>4. CASE a = None /\ b = None
  <2>1. some = {}
    BY <1>4
  <2>2. QED
    BY <1>1, <1>4, <2>1
<1>5. QED
  BY <1>2, <1>3, <1>4

\* The first of several is one of them.
LEMMA FirstOfAmong ==
  ASSUME NEW S, NEW n \in Nat, NEW s, DOMAIN s = 1..n, \A i \in 1..n : s[i] \in Opt(S)
  PROVE  FirstOf(s) \in Opt(S)
<1> DEFINE some == {i \in 1..n : s[i] # None}
<1>1. FirstOf(s) = IF some = {} THEN None ELSE s[CHOOSE i \in some : \A j \in some : i <= j]
  BY DEF FirstOf
<1>2. CASE some = {}
  BY <1>1, <1>2 DEF Opt
<1>3. CASE some # {}
  <2>1. \E i \in some : \A j \in some : i <= j
    <3>1. some \in SUBSET Nat
      OBVIOUS
    <3> HIDE DEF some
    <3>2. QED
      BY <1>3, <3>1, LeastExists
  <2>2. (CHOOSE i \in some : \A j \in some : i <= j) \in some
    BY <2>1
  <2>3. QED
    BY <1>1, <1>3, <2>2
<1>4. QED
  BY <1>2, <1>3

IsCatalog(c) ==
  c = [by_key |-> c.by_key, openrouter |-> c.openrouter, by_slug |-> c.by_slug,
       slugs |-> c.slugs, by_slug_model |-> c.by_slug_model, by_id_model |-> c.by_id_model]

\* A catalog whose entries are all in S.
PricesIn(c, S) ==
  /\ \A k \in DOMAIN c.by_key : c.by_key[k] \in S
  /\ \A id \in DOMAIN c.openrouter : c.openrouter[id] \in S

LEMMA OverridesIn ==
  ASSUME NEW c, IsCatalog(c), NEW S, PricesIn(c, S), NEW entries \in SUBSET S
  PROVE  /\ IsCatalog(with_overrides(c, entries)) /\ PricesIn(with_overrides(c, entries), S)
         /\ with_overrides(c, entries).openrouter = c.openrouter
<1> DEFINE keys == {KeyOf(e) : e \in entries}
           new == [k \in keys |-> CHOOSE e \in entries : KeyOf(e) = k]
<1>1. \A k \in keys : new[k] \in S
  OBVIOUS
<1>2. DOMAIN new = keys
  OBVIOUS
<1>3. with_overrides(c, entries) = [c EXCEPT !.by_key = Over(new, c.by_key)]
  BY DEF with_overrides
<1> HIDE DEF new
<1>4. PICK o : o = Over(new, c.by_key)
  OBVIOUS
<1>5. \A k \in DOMAIN o : o[k] \in S
  BY <1>1, <1>2, <1>4 DEF Over, PricesIn
<1>6. with_overrides(c, entries)
        = [by_key |-> o, openrouter |-> c.openrouter, by_slug |-> c.by_slug,
           slugs |-> c.slugs, by_slug_model |-> c.by_slug_model,
           by_id_model |-> c.by_id_model]
  BY <1>3, <1>4 DEF IsCatalog
<1>7. QED
  BY <1>5, <1>6 DEF IsCatalog, PricesIn

LEMMA BasePrices ==
  /\ IsCatalog(BaseCatalog(fetched)) /\ PricesIn(BaseCatalog(fetched), Prices)
<1>1. FilePrices \in SUBSET FilePrices
  OBVIOUS
<1>2. IsCatalog(EmptyCatalog) /\ PricesIn(EmptyCatalog, Prices)
  BY DEF IsCatalog, EmptyCatalog, PricesIn
<1>3. FilePrices \in SUBSET Prices
  BY DEF Prices
<1>4. IsCatalog(OfflineBase) /\ PricesIn(OfflineBase, Prices)
  BY <1>2, <1>3, OverridesIn DEF OfflineBase
<1>5. PICK c : c = parse_openrouter(Feed)
  OBVIOUS
<1>6. IsCatalog(c) /\ c.by_key = <<>>
  BY <1>5 DEF parse_openrouter, IsCatalog
<1>7. PICK All : All = {c.by_key[k] : k \in DOMAIN c.by_key}
                         \cup {c.openrouter[k] : k \in DOMAIN c.openrouter} \cup FilePrices
  OBVIOUS
<1>8. PricesIn(c, All) /\ FilePrices \in SUBSET All
  BY <1>7 DEF PricesIn
<1>9. OnlineBase.openrouter = c.openrouter /\ OnlineBase = with_overrides(c, FilePrices)
  BY <1>5, <1>6, <1>8, OverridesIn DEF OnlineBase
<1>10. PricesIn(c, Prices)
  BY <1>6, <1>9 DEF PricesIn, Prices
<1>11. IsCatalog(OnlineBase) /\ PricesIn(OnlineBase, Prices)
  BY <1>3, <1>6, <1>9, <1>10, OverridesIn
<1>12. QED
  BY <1>4, <1>11 DEF BaseCatalog

\* Whatever a lookup finds is one of the prices.
LEMMA LookupIn ==
  ASSUME NEW c, NEW S, PricesIn(c, S), NEW p, NEW m
  PROVE  lookup(c, p, m) \in Opt(S)
<1> DEFINE local(scope, name) == Get(c.by_key, <<scope, name>>)
           remote(id) == Get(c.openrouter, id)
<1>1. \A x, y : local(x, y) \in Opt(S)
  BY DEF PricesIn, Get, Opt
<1>2. \A x : remote(x) \in Opt(S)
  BY DEF PricesIn, Get, Opt
<1> HIDE DEF local, remote
<1>3. ASSUME NEW a, NEW b, NEW d, a \in Opt(S), b \in Opt(S), d \in Opt(S)
      PROVE  FirstOf(<<a, b, d>>) \in Opt(S)
  <2>1. PICK s : s = <<a, b, d>>
    OBVIOUS
  <2>2. DOMAIN s = 1..3 /\ \A i \in 1..3 : s[i] \in Opt(S)
    BY <1>3, <2>1
  <2>3. QED
    BY <2>1, <2>2, FirstOfAmong
<1>4. ASSUME NEW a, NEW b, NEW d, NEW e, a \in Opt(S), b \in Opt(S), d \in Opt(S), e \in Opt(S)
      PROVE  FirstOf(<<a, b, d, e>>) \in Opt(S)
  <2>1. PICK s : s = <<a, b, d, e>>
    OBVIOUS
  <2>2. DOMAIN s = 1..4 /\ \A i \in 1..4 : s[i] \in Opt(S)
    BY <1>4, <2>1
  <2>3. QED
    BY <2>1, <2>2, FirstOfAmong
<1>5. ASSUME NEW a, NEW b, NEW d, NEW e, NEW f,
             a \in Opt(S), b \in Opt(S), d \in Opt(S), e \in Opt(S), f \in Opt(S)
      PROVE  FirstOf(<<a, b, d, e, f>>) \in Opt(S)
  <2>1. PICK s : s = <<a, b, d, e, f>>
    OBVIOUS
  <2>2. DOMAIN s = 1..5 /\ \A i \in 1..5 : s[i] \in Opt(S)
    BY <1>5, <2>1
  <2>3. QED
    BY <2>1, <2>2, FirstOfAmong
<1> DEFINE entry == FirstOf(<<remote(FirstOf(<<Get(c.by_slug, m), Get(c.by_slug_model, m)>>)),
                              remote(m), remote(Get(c.by_id_model, m))>>)
           slug == c.slugs[entry.model]
           overridden == FirstOf(<<local(p, entry.model), local(p, slug),
                                   local("*", entry.model), local("*", slug), entry>>)
<1>6. entry \in Opt(S)
  BY <1>2, <1>3
<1> HIDE DEF entry
<1>7. overridden \in Opt(S)
  BY <1>1, <1>5, <1>6
<1> HIDE DEF overridden
<1>8. (IF entry = None THEN None ELSE overridden) \in Opt(S)
  BY <1>7 DEF Opt
<1>9. FirstOf(<<local(p, m), local(p, Undated[m]), local("*", m),
               IF entry = None THEN None ELSE overridden>>) \in Opt(S)
  BY <1>1, <1>4, <1>8
<1>10. QED
  BY <1>9, Zenon DEF lookup, local, remote, entry, overridden

LEMMA PricesFound ==
  ASSUME NEW rows \in SUBSET Rows, NEW p, NEW m
  PROVE  lookup(merged_catalog(rows), p, m) \in Opt(Prices)
<1>1. rows \in SUBSET Prices
  BY DEF Rows, Prices
<1>2. PICK c : c = BaseCatalog(fetched)
  OBVIOUS
<1>3. PricesIn(with_overrides(c, rows), Prices)
  BY <1>1, <1>2, BasePrices, OverridesIn
<1>4. QED
  BY <1>2, <1>3, LookupIn DEF merged_catalog

LEMMA FirstOfThree ==
  ASSUME NEW a, NEW b, NEW c, b # None
  PROVE  FirstOf(<<a, b, c>>) = IF a # None THEN a ELSE b
<1> DEFINE s == <<a, b, c>>
           some == {i \in 1..3 : s[i] # None}
<1>1. FirstOf(s) = s[CHOOSE i \in some : \A j \in some : i <= j]
  <2>1. some # {} /\ DOMAIN s = 1..3
    OBVIOUS
  <2>2. QED
    BY <2>1 DEF FirstOf
<1>2. CASE a # None
  <2>1. 1 \in some /\ \A i \in some : (\A j \in some : i <= j) => i = 1
    BY <1>2
  <2>2. \A j \in some : 1 <= j
    OBVIOUS
  <2>3. (CHOOSE i \in some : \A j \in some : i <= j) = 1
    BY <2>1, <2>2
  <2>4. QED
    BY <1>1, <1>2, <2>3
<1>3. CASE a = None
  <2>1. 2 \in some /\ \A i \in some : (\A j \in some : i <= j) => i = 2
    BY <1>3
  <2>2. \A j \in some : 2 <= j
    BY <1>3
  <2>3. (CHOOSE i \in some : \A j \in some : i <= j) = 2
    BY <2>1, <2>2
  <2>4. QED
    BY <1>1, <1>3, <2>3
<1>4. QED
  BY <1>2, <1>3

\* The provider a request is priced with, when it ends and in a sweep.
LEMMA PricedWithType ==
  ASSUME NEW t \in Traffic
  PROVE  /\ PricedWith(t) \in Providers /\ PricedWith(t) # None
         /\ PricedWith(t) = IF t.fallback_used # None THEN t.fallback_used ELSE t.primary
<1>1. t \in TrafficType
  BY LedgerAssumption
<1>2. t.fallback_used \in Opt(Providers) /\ t.primary \in Providers /\ None \notin Providers
  BY <1>1, CatalogAssumption DEF TrafficType
<1>3. PricedWith(t) = IF t.fallback_used # None THEN t.fallback_used ELSE t.primary
  BY FirstOfTwo DEF PricedWith
<1>4. QED
  BY <1>2, <1>3 DEF Opt

LEMMA SameProvider ==
  ASSUME NEW r, r.request \in Traffic, r.last_attempt = PricedWith(r.request)
  PROVE  resolve_provider(r) = PricedWith(r.request)
<1>1. PICK t \in Traffic : t = r.request
  OBVIOUS
<1>2. /\ PricedWith(t) # None
      /\ PricedWith(t) = IF t.fallback_used # None THEN t.fallback_used ELSE t.primary
  BY PricedWithType
<1>3. FirstOf(<<t.fallback_used, PricedWith(t), r.namespace>>)
        = IF t.fallback_used # None THEN t.fallback_used ELSE PricedWith(t)
  BY <1>2, FirstOfThree
<1>4. QED
  BY <1>1, <1>2, <1>3 DEF resolve_provider

LEMMA RecordType ==
  ASSUME AdminTyped, NEW t \in Traffic
  PROVE  /\ Record(t) \in LogRecord /\ Record(t) # None
         /\ Record(t).request = t
         /\ Record(t).last_attempt = PricedWith(t)
         /\ (t.success /\ t.usage # None /\ Record(t).entry # None)
              => AtPrice(Record(t), Record(t).entry)
<1>1. PICK usage : usage = FirstOf(<<t.usage, NoTokens>>)
  OBVIOUS
<1>2. usage = IF t.usage # None THEN t.usage ELSE NoTokens
  BY <1>1, FirstOfTwo
<1>3. NoTokens # None /\ None \notin LogRecord
  BY LedgerAssumption
<1>4. usage \in ({x.usage : x \in Traffic} \cup {NoTokens}) \ {None}
  BY <1>2, <1>3
<1>5. PICK entry : entry = lookup(Catalog, PricedWith(t), t.model)
  OBVIOUS
<1>6. entry \in Opt(Prices)
  BY <1>5, PricesFound DEF AdminTyped, Catalog
<1>7. PICK cost : cost = compute_cost(Catalog, PricedWith(t), t.model, usage)
  OBVIOUS
<1>8. cost = IF entry = None THEN None ELSE apply(entry, usage)
  BY <1>5, <1>7 DEF compute_cost
<1>9. cost \in Opt(Costs)
  BY <1>4, <1>6, <1>8 DEF Opt, Costs
<1>10. Record(t)
         = [request |-> t, last_attempt |-> PricedWith(t), namespace |-> Namespace,
            entry |-> entry,
            cost_usd |-> IF ~t.success THEN None ELSE IF t.cached THEN 0 ELSE cost,
            would_have_cost_usd |-> IF t.success THEN cost ELSE None]
  BY <1>1, <1>5, <1>7 DEF Record
<1>11. Record(t) \in LogRecord
  BY <1>6, <1>9, <1>10, PricedWithType DEF LogRecord, Opt
<1>12. QED
  BY <1>2, <1>3, <1>8, <1>10, <1>11 DEF AtPrice

\* The UPDATE computes what the gateway computes when a request ends.
LEMMA SqlAgrees ==
  ASSUME NEW price, NEW u \in [prompt : Nat, cached : Nat, completion : Nat]
  PROVE  sql_cost(price, u) = apply(price, u)
<1>1. Positive(u.cached) = u.cached /\ Positive(u.completion) = u.completion
  BY DEF Positive
<1>2. QED
  BY <1>1, Zenon DEF sql_cost, apply

LEMMA RepricedType ==
  ASSUME NEW r \in LogRecord, NEW price \in Prices, r.request.usage # None
  PROVE  /\ Repriced(r, price) \in LogRecord /\ Repriced(r, price) # None
         /\ Repriced(r, price).request = r.request
         /\ Repriced(r, price).last_attempt = r.last_attempt
         /\ Repriced(r, price).namespace = r.namespace
         /\ Repriced(r, price).entry = price
         /\ AtPrice(Repriced(r, price), price)
         /\ (AtPrice(r, price) /\ r.entry = price) => Repriced(r, price) = r
<1>1. r.request.usage \in [prompt : Nat, cached : Nat, completion : Nat]
  BY LedgerAssumption DEF LogRecord, TrafficType, Opt
<1>2. PICK cost : cost = apply(price, r.request.usage)
  OBVIOUS
<1>3. sql_cost(price, r.request.usage) = cost
  BY <1>1, <1>2, SqlAgrees
<1>4. cost \in Costs
  BY <1>2 DEF Costs, LogRecord
<1>5. Repriced(r, price)
        = [r EXCEPT !.entry = price, !.would_have_cost_usd = cost,
                    !.cost_usd = IF r.request.cached THEN 0 ELSE cost]
  BY <1>3 DEF Repriced
<1>6. r = [request |-> r.request, last_attempt |-> r.last_attempt, namespace |-> r.namespace,
           entry |-> r.entry, cost_usd |-> r.cost_usd,
           would_have_cost_usd |-> r.would_have_cost_usd]
  BY DEF LogRecord
<1>7. Repriced(r, price)
        = [request |-> r.request, last_attempt |-> r.last_attempt, namespace |-> r.namespace,
           entry |-> price, cost_usd |-> IF r.request.cached THEN 0 ELSE cost,
           would_have_cost_usd |-> cost]
  BY <1>5, <1>6
<1>8. Repriced(r, price) \in LogRecord
  BY <1>4, <1>7 DEF LogRecord, Opt
<1>9. None \notin LogRecord
  BY LedgerAssumption
<1>10. QED
  BY <1>2, <1>6, <1>7, <1>8, <1>9 DEF AtPrice

\* A step that leaves alone what AtSweepPrice is about.
LEMMA SweepPriceKept ==
  ASSUME NEW id, AtSweepPrice(id), log'[id] = log[id], sweep'.pricing = sweep.pricing,
         fetched' = fetched
  PROVE  AtSweepPrice(id)'
<1>1. SweepPrice(id)' = SweepPrice(id)
  BY DEF SweepPrice, merged_catalog, BaseCatalog, resolve_provider
<1>2. QED
  BY <1>1 DEF AtSweepPrice, AtPrice

LEMMA SubmitLedger ==
  ASSUME CatalogInv, LedgerInv, NEW id \in Ids, NEW t \in Traffic, Submit(id, t)
  PROVE  LedgerInv'
<1>1. /\ Record(t) \in LogRecord /\ Record(t) # None
      /\ Record(t).request = t
      /\ Record(t).last_attempt = PricedWith(t)
      /\ (t.success /\ t.usage # None /\ Record(t).entry # None)
           => AtPrice(Record(t), Record(t).entry)
  BY RecordType DEF CatalogInv
<1>2. /\ log' = [log EXCEPT ![id] = Record(t)] /\ log[id] = None
      /\ pending' = pending \cup {id} /\ sweep' = sweep /\ fetched' = fetched
  BY DEF Submit, prices
<1>3. PICK r : r = Record(t)
  OBVIOUS
<1>4. LogTyped'
  BY <1>1, <1>2 DEF LedgerInv, LogTyped, Opt
<1>5. LogPriced'
  BY <1>1, <1>2, <1>3 DEF LedgerInv, LogTyped, LogPriced
<1>6. SweepTyped'
  BY <1>2 DEF LedgerInv, SweepTyped
<1>7. Table' = Table /\ \A i \in Table : log'[i] = log[i]
  BY <1>1, <1>2 DEF LedgerInv, LogTyped, Table
<1>8. Swept(sweep.window)' = Swept(sweep.window)
  BY <1>2, <1>7 DEF Swept
<1>9. \A i \in Swept(sweep.window) : log'[i] = log[i]
  BY <1>7 DEF Swept
<1>10. SweepCovers'
  <2>1. \A i \in sweep.covered \cap Swept(sweep.window) : AtSweepPrice(i) => AtSweepPrice(i)'
    BY <1>2, <1>9, SweepPriceKept
  <2>2. \A i \in Swept(sweep.window) : CostKey(log[i])' = CostKey(log[i])
    BY <1>9 DEF CostKey, resolve_provider
  <2>3. \A i \in sweep.covered : i \in Ids
    BY DEF LedgerInv, SweepTyped
  <2>4. \A i \in Ids : log[i] # None => log'[i] # None
    BY <1>1, <1>2 DEF LedgerInv, LogTyped
  <2>5. QED
    BY <1>2, <1>7, <1>8, <2>1, <2>2, <2>3, <2>4 DEF LedgerInv, SweepCovers
<1>11. QED
  BY <1>4, <1>5, <1>6, <1>10 DEF LedgerInv

LEMMA PersistLedger ==
  ASSUME LedgerInv, Persist
  PROVE  LedgerInv'
<1>1. log' = log /\ pending' = {} /\ sweep' = sweep /\ fetched' = fetched
  BY DEF Persist, prices
<1>2. LogTyped' /\ LogPriced' /\ SweepTyped'
  BY <1>1 DEF LedgerInv, LogTyped, LogPriced, SweepTyped, AtPrice
<1>3. Table \subseteq Table'
  BY <1>1 DEF LedgerInv, Table
<1>4. \A i : i \in Swept(sweep.window)' /\ i \in Table => i \in Swept(sweep.window)
  BY <1>1 DEF Swept
<1>5. \A i \in Ids : AtSweepPrice(i) => AtSweepPrice(i)'
  BY <1>1, SweepPriceKept
<1>6. \A i : CostKey(log[i])' = CostKey(log[i])
  BY <1>1 DEF CostKey, resolve_provider
<1>7. \A i \in sweep.covered : i \in Ids
  BY DEF LedgerInv, SweepTyped
<1>8. SweepCovers'
  BY <1>1, <1>3, <1>4, <1>5, <1>6, <1>7 DEF LedgerInv, SweepCovers
<1>9. QED
  BY <1>2, <1>8 DEF LedgerInv

LEMMA PersistFailsLedger ==
  ASSUME LedgerInv, PersistFails
  PROVE  LedgerInv'
<1>1. /\ log' = [id \in Ids |-> IF id \in pending THEN None ELSE log[id]]
      /\ pending' = {} /\ sweep' = [sweep EXCEPT !.covered = @ \ pending]
      /\ fetched' = fetched
  BY DEF PersistFails, Unlogged, prices
<1>2. LogTyped'
  BY <1>1 DEF LedgerInv, LogTyped, Opt
<1>3. LogPriced'
  BY <1>1 DEF LedgerInv, LogTyped, LogPriced, AtPrice
<1>4. /\ SweepTyped' /\ sweep'.covered = sweep.covered \ pending
      /\ sweep'.pc = sweep.pc /\ sweep'.window = sweep.window
      /\ sweep'.keys = sweep.keys /\ sweep'.pricing = sweep.pricing
      /\ \A i \in sweep.covered : i \in Ids
  BY <1>1 DEF LedgerInv, SweepTyped
<1>5. Table' = Table /\ \A i \in Table : log'[i] = log[i]
  BY <1>1 DEF LedgerInv, Table
<1>6. Swept(sweep.window)' = Swept(sweep.window)
  BY <1>4, <1>5 DEF Swept
<1>7. \A i \in Swept(sweep.window) : log'[i] = log[i]
  BY <1>5 DEF Swept
<1>8. \A i \in Swept(sweep.window) : AtSweepPrice(i) => AtSweepPrice(i)'
  BY <1>1, <1>4, <1>7, SweepPriceKept
<1>9. \A i \in Swept(sweep.window) : CostKey(log[i])' = CostKey(log[i])
  BY <1>7 DEF CostKey, resolve_provider
<1>10. \A i \in sweep'.covered : i \in sweep.covered /\ log'[i] = log[i]
  BY <1>1, <1>4
<1>11. SweepCovers'
  BY <1>4, <1>5, <1>6, <1>8, <1>9, <1>10 DEF LedgerInv, SweepCovers
<1>12. QED
  BY <1>2, <1>3, <1>4, <1>11 DEF LedgerInv

\* Steps of others.
LEMMA OutsideLedger ==
  ASSUME LedgerInv, UNCHANGED <<log, pending, sweep, fetched>>
  PROVE  LedgerInv'
<1>1. LogTyped' /\ LogPriced' /\ SweepTyped'
  BY DEF LedgerInv, LogTyped, LogPriced, SweepTyped, AtPrice
<1>2. Table' = Table /\ Swept(sweep.window)' = Swept(sweep.window)
  BY DEF Table, Swept
<1>3. \A i \in Ids : AtSweepPrice(i) => AtSweepPrice(i)'
  BY SweepPriceKept
<1>4. \A i : CostKey(log[i])' = CostKey(log[i])
  BY DEF CostKey, resolve_provider
<1>5. \A i \in sweep.covered : i \in Ids
  BY DEF LedgerInv, SweepTyped
<1>6. SweepCovers'
  BY <1>2, <1>3, <1>4, <1>5 DEF LedgerInv, SweepCovers
<1>7. QED
  BY <1>1, <1>6 DEF LedgerInv

LEMMA RestartLedger ==
  ASSUME LedgerInv, Restart
  PROVE  LedgerInv'
<1>1. /\ log' = [id \in Ids |-> IF id \in pending THEN None ELSE log[id]]
      /\ pending' = {} /\ sweep' = IdleSweep
  BY DEF Restart, Unlogged
<1>2. LogTyped'
  BY <1>1 DEF LedgerInv, LogTyped, Opt
<1>3. LogPriced'
  BY <1>1 DEF LedgerInv, LogTyped, LogPriced, AtPrice
<1>4. SweepTyped' /\ SweepCovers'
  BY <1>1 DEF SweepTyped, SweepCovers, IdleSweep, Opt
<1>5. QED
  BY <1>2, <1>3, <1>4 DEF LedgerInv

LEMMA SweepStepLedger ==
  ASSUME CatalogInv, LedgerInv,
         \/ \E w \in Windows : SweepFlush(w)
         \/ SweepLoad \/ SweepKeys \/ SweepEnds \/ SweepFails
  PROVE  LedgerInv'
<1>1. log' = log /\ pending' = pending /\ fetched' = fetched
  BY DEF SweepFlush, SweepLoad, SweepKeys, SweepEnds, SweepFails, prices
<1>2. LogTyped' /\ LogPriced'
  BY <1>1 DEF LedgerInv, LogTyped, LogPriced, AtPrice
<1>3. Table' = Table
  BY <1>1 DEF Table
<1>4. \A w : Swept(w)' = Swept(w)
  BY <1>1, <1>3 DEF Swept
<1>5. \A i : CostKey(log[i])' = CostKey(log[i])
  BY <1>1 DEF CostKey, resolve_provider
<1>6. ASSUME NEW w \in Windows, SweepFlush(w) PROVE LedgerInv'
  <2>1. SweepTyped'
    BY <1>6 DEF LedgerInv, SweepTyped, SweepFlush, Opt
  <2>2. SweepCovers'
    BY <1>1, <1>6 DEF LedgerInv, SweepTyped, SweepCovers, SweepFlush
  <2>3. QED
    BY <1>2, <2>1, <2>2 DEF LedgerInv
<1>7. CASE SweepLoad
  <2>1. SweepTyped'
    BY <1>7 DEF CatalogInv, AdminTyped, LedgerInv, SweepTyped, SweepLoad
  <2>2. sweep.covered \subseteq Table
    BY <1>7 DEF LedgerInv, SweepTyped, SweepCovers, SweepLoad, Table
  <2>3. SweepCovers'
    BY <1>3, <1>7, <2>2 DEF LedgerInv, SweepTyped, SweepCovers, SweepLoad
  <2>4. QED
    BY <1>2, <2>1, <2>3 DEF LedgerInv
<1>8. CASE SweepKeys
  <2>1. distinct_cost_keys(sweep.window) \in SUBSET CostKeys
    BY DEF distinct_cost_keys, CostKeys, Swept, Table, LedgerInv, LogTyped, Opt
  <2>2. SweepTyped'
    BY <1>8, <2>1 DEF LedgerInv, SweepTyped, SweepKeys
  <2>3. /\ sweep'.pc = "rows" /\ sweep'.covered = sweep.covered
        /\ sweep'.window = sweep.window
        /\ sweep'.keys = distinct_cost_keys(sweep.window) /\ sweep.pc = "keys"
    BY <1>8 DEF LedgerInv, SweepTyped, SweepKeys
  <2>4. \A i \in Swept(sweep.window) : CostKey(log[i]) \in sweep'.keys
    BY <2>3 DEF distinct_cost_keys
  <2>5. Swept(sweep.window)' = Swept(sweep.window)
    BY <1>1, <1>3, <2>3 DEF Swept
  <2>6. SweepCovers'
    BY <1>3, <1>5, <2>3, <2>4, <2>5 DEF LedgerInv, SweepCovers
  <2>7. QED
    BY <1>2, <2>2, <2>6 DEF LedgerInv
<1>9. CASE SweepEnds
  <2>1. SweepTyped'
    BY <1>9 DEF LedgerInv, SweepTyped, SweepEnds
  <2>2. /\ sweep'.pc = "done" /\ sweep'.covered = sweep.covered
        /\ sweep'.window = sweep.window /\ sweep'.pricing = sweep.pricing
        /\ sweep.pc = "rows" /\ sweep.keys = {}
    BY <1>9 DEF LedgerInv, SweepTyped, SweepEnds
  <2>3. \A i \in Ids : AtSweepPrice(i) => AtSweepPrice(i)'
    BY <1>1, <2>2, SweepPriceKept
  <2>4. Swept(sweep.window)' = Swept(sweep.window)
    BY <1>1, <1>3, <2>2 DEF Swept
  <2>5. \A i \in sweep.covered : i \in Ids
    BY DEF LedgerInv, SweepTyped
  <2>6. SweepCovers'
    BY <1>3, <2>2, <2>3, <2>4, <2>5 DEF LedgerInv, SweepCovers
  <2>7. QED
    BY <1>2, <2>1, <2>6 DEF LedgerInv
<1>10. CASE SweepFails
  <2>1. SweepTyped' /\ SweepCovers'
    BY <1>10 DEF SweepFails, SweepTyped, SweepCovers, IdleSweep, Opt
  <2>2. QED
    BY <1>2, <2>1 DEF LedgerInv
<1>11. QED
  BY <1>6, <1>7, <1>8, <1>9, <1>10

\* What dealing with a key does to the log: the rows of the key are at the price the
\* sweep found, the others are as they were.
LEMMA KeyRepriced ==
  ASSUME LedgerInv, NEW key \in sweep.keys, SweepKey(key), NEW id \in Ids
  PROVE  \/ log'[id] = log[id]
         \/ /\ id \in Swept(sweep.window) /\ CostKey(log[id]) = key
            /\ SweepPrice(id) \in Prices \ {None}
            /\ log'[id] = Repriced(log[id], SweepPrice(id))
<1>1. PICK entry : entry = lookup(merged_catalog(sweep.pricing), key[1], key[2])
  OBVIOUS
<1>2. log' = IF entry = None THEN log ELSE recompute_costs(key, entry, sweep.window)
  BY <1>1 DEF SweepKey
<1>3. entry \in Opt(Prices)
  <2>1. sweep.pricing \in SUBSET Rows
    BY DEF LedgerInv, SweepTyped
  <2>2. QED
    BY <1>1, <2>1, PricesFound
<1>4. CostKey(log[id]) = key => SweepPrice(id) = entry
  BY <1>1 DEF CostKey, SweepPrice
<1>5. CASE entry = None
  BY <1>2, <1>5
<1>6. CASE entry # None
  <2>1. log'[id] = IF id \in Swept(sweep.window) /\ CostKey(log[id]) = key
                   THEN Repriced(log[id], entry) ELSE log[id]
    BY <1>2, <1>6 DEF recompute_costs
  <2>2. entry \in Prices
    BY <1>3, <1>6 DEF Opt
  <2>3. QED
    BY <1>4, <1>6, <2>1, <2>2
<1>7. QED
  BY <1>5, <1>6

\* Whatever is repriced is a record still, of the same request.
LEMMA KeyKeeps ==
  ASSUME LedgerInv, NEW key \in sweep.keys, SweepKey(key), NEW id \in Ids
  PROVE  /\ log'[id] \in Opt(LogRecord) /\ (log'[id] = None <=> log[id] = None)
         /\ log[id] # None =>
              /\ log'[id].request = log[id].request
              /\ log'[id].last_attempt = log[id].last_attempt
              /\ log'[id].namespace = log[id].namespace
              /\ \/ log'[id] = log[id]
                 \/ AtPrice(log'[id], log'[id].entry) /\ log'[id].entry = SweepPrice(id)
<1>1. log[id] \in Opt(LogRecord)
  BY DEF LedgerInv, LogTyped
<1>2. CASE log'[id] = log[id]
  BY <1>1, <1>2
<1>3. CASE /\ id \in Swept(sweep.window) /\ SweepPrice(id) \in Prices
           /\ log'[id] = Repriced(log[id], SweepPrice(id))
  <2>1. log[id] # None /\ log[id] \in LogRecord /\ log[id].request.usage # None
    BY <1>1, <1>3 DEF Swept, Table, Opt
  <2>2. PICK r \in LogRecord : r = log[id]
    BY <2>1
  <2>3. PICK price \in Prices : price = SweepPrice(id)
    BY <1>3
  <2>4. r.request.usage # None
    BY <2>1, <2>2
  <2>5. /\ Repriced(r, price) \in LogRecord /\ Repriced(r, price) # None
        /\ Repriced(r, price).request = r.request
        /\ Repriced(r, price).last_attempt = r.last_attempt
        /\ Repriced(r, price).namespace = r.namespace
        /\ Repriced(r, price).entry = price
        /\ AtPrice(Repriced(r, price), price)
    BY <2>4, RepricedType
  <2>6. log'[id] = Repriced(r, price)
    BY <1>3, <2>2, <2>3
  <2>7. QED
    BY <2>1, <2>2, <2>3, <2>5, <2>6 DEF Opt
<1>4. QED
  BY <1>2, <1>3, KeyRepriced

LEMMA SweepKeyLedger ==
  ASSUME LedgerInv, NEW key \in sweep.keys, SweepKey(key)
  PROVE  LedgerInv'
<1>1. /\ sweep' = [sweep EXCEPT !.keys = @ \ {key}] /\ pending' = pending
      /\ fetched' = fetched /\ sweep.pc = "rows" /\ DOMAIN log' = Ids
  BY DEF SweepKey, prices, recompute_costs, LedgerInv, LogTyped
<1>2. /\ sweep'.keys = sweep.keys \ {key} /\ sweep'.pc = "rows"
      /\ sweep'.window = sweep.window /\ sweep'.pricing = sweep.pricing
      /\ sweep'.covered = sweep.covered
  BY <1>1 DEF LedgerInv, SweepTyped
<1>3. LogTyped'
  <2>1. log' \in [Ids -> Opt(LogRecord)]
    <3>1. log' = [id \in Ids |-> log'[id]]
      BY DEF SweepKey, recompute_costs, LedgerInv, LogTyped
    <3>2. \A id \in Ids : log'[id] \in Opt(LogRecord)
      BY KeyKeeps
    <3>3. QED
      BY <3>1, <3>2
  <2>2. QED
    BY <1>1, <2>1, KeyKeeps DEF LedgerInv, LogTyped
<1>4. LogPriced'
  <2> SUFFICES ASSUME NEW id \in Ids, log'[id] # None
               PROVE  /\ log'[id].last_attempt = PricedWith(log'[id].request)
                      /\ (/\ log'[id].request.success /\ log'[id].request.usage # None
                          /\ log'[id].entry # None)
                           => AtPrice(log'[id], log'[id].entry)
    BY DEF LogPriced, AtPrice
  <2>1. log[id] # None
    BY KeyKeeps
  <2>2. log[id].last_attempt = PricedWith(log[id].request)
    BY <2>1 DEF LedgerInv, LogPriced
  <2>3. (/\ log[id].request.success /\ log[id].request.usage # None
         /\ log[id].entry # None) => AtPrice(log[id], log[id].entry)
    BY <2>1 DEF LedgerInv, LogPriced
  <2>4. QED
    BY <2>1, <2>2, <2>3, KeyKeeps
<1>5. SweepTyped'
  BY <1>1 DEF LedgerInv, SweepTyped
<1>6. SweepCovers'
  <2>1. Table' = Table
    BY <1>1, KeyKeeps DEF Table
  <2>2. Swept(sweep.window)' = Swept(sweep.window)
    <3>1. \A id \in Table : log'[id].request = log[id].request
      BY KeyKeeps DEF Table
    <3>2. QED
      BY <1>2, <2>1, <3>1 DEF Swept
  <2>3. ASSUME NEW id \in sweep.covered \cap Swept(sweep.window)
        PROVE  CostKey(log[id])' \in sweep'.keys \/ AtSweepPrice(id)'
    <3>1. id \in Ids /\ log[id] # None
      BY DEF Swept, Table
    <3>2. resolve_provider(log[id])' = resolve_provider(log[id])
      BY <3>1, KeyKeeps DEF resolve_provider
    <3>3. CostKey(log[id])' = CostKey(log[id]) /\ SweepPrice(id)' = SweepPrice(id)
      BY <1>1, <1>2, <3>1, <3>2, KeyKeeps
         DEF CostKey, SweepPrice, merged_catalog, BaseCatalog
    <3>4. CostKey(log[id]) \in sweep.keys \/ AtSweepPrice(id)
      BY <1>1 DEF LedgerInv, SweepCovers
    <3>5. CASE log'[id] = log[id] /\ AtSweepPrice(id)
      BY <1>1, <1>2, <3>5, SweepPriceKept
    <3>6. CASE log'[id] = log[id] /\ ~AtSweepPrice(id)
      <4>1. CostKey(log[id]) # key
        \* Otherwise the key has no price, or the row is repriced to itself.
        <5> SUFFICES ASSUME CostKey(log[id]) = key PROVE FALSE
          OBVIOUS
        <5>1. PICK price : price = SweepPrice(id)
          OBVIOUS
        <5>2. price # None
          BY <3>6, <5>1 DEF AtSweepPrice
        <5>3. log'[id] = Repriced(log[id], price)
          <6>1. price = lookup(merged_catalog(sweep.pricing), key[1], key[2])
            BY <5>1 DEF SweepPrice, CostKey
          <6>2. log' = recompute_costs(key, price, sweep.window)
            BY <5>2, <6>1 DEF SweepKey
          <6>3. QED
            BY <3>1, <6>2 DEF recompute_costs
        <5>4. price \in Prices
          <6>1. sweep.pricing \in SUBSET Rows
            BY DEF LedgerInv, SweepTyped
          <6>2. price \in Opt(Prices)
            BY <5>1, <6>1, PricesFound DEF SweepPrice
          <6>3. QED
            BY <5>2, <6>2 DEF Opt
        <5>5. log[id] \in LogRecord /\ log[id].request.usage # None
          BY <3>1 DEF LedgerInv, LogTyped, Swept, Opt
        <5>6. AtPrice(Repriced(log[id], price), price)
          <6>1. PICK r \in LogRecord : r = log[id]
            BY <5>5
          <6>2. r.request.usage # None
            BY <5>5, <6>1
          <6>3. AtPrice(Repriced(r, price), price)
            BY <5>4, <6>2, RepricedType
          <6>4. QED
            BY <6>1, <6>3
        <5>7. QED
          BY <3>6, <5>1, <5>3, <5>6 DEF AtSweepPrice
      <4>2. QED
        BY <1>2, <3>3, <3>4, <3>6, <4>1
    <3>7. CASE log'[id] # log[id]
      <4>1. AtPrice(log'[id], SweepPrice(id))
        BY <3>1, <3>7, KeyKeeps
      <4>2. QED
        BY <3>3, <4>1 DEF AtSweepPrice, AtPrice
    <3>8. QED
      BY <3>5, <3>6, <3>7
  <2>4. sweep.covered \subseteq Table
    BY <1>1 DEF LedgerInv, SweepCovers
  <2>5. QED
    BY <1>2, <2>1, <2>2, <2>3, <2>4 DEF SweepCovers
<1>7. QED
  BY <1>3, <1>4, <1>5, <1>6 DEF LedgerInv

LEMMA StepLedger == CatalogInv /\ LedgerInv /\ [Next]_vars => LedgerInv'
<1> SUFFICES ASSUME CatalogInv, LedgerInv, [Next]_vars PROVE LedgerInv'
  OBVIOUS
<1>1. \/ UNCHANGED <<log, pending, sweep, fetched>>
      \/ \E id \in Ids, t \in Traffic : Submit(id, t)
      \/ Persist \/ PersistFails \/ Restart \/ Sweep
  BY DEF Next, vars, prices, Edit, Ask, Write, List, Store, WalkStart, WalkOn
<1>2. CASE Sweep
  BY <1>2, SweepStepLedger, SweepKeyLedger DEF Sweep
<1>3. QED
  BY <1>1, <1>2, OutsideLedger, SubmitLedger, PersistLedger, PersistFailsLedger,
     RestartLedger

LEMMA InitLedger == Init => LedgerInv
<1> SUFFICES ASSUME Init PROVE LedgerInv
  OBVIOUS
<1>1. LogTyped /\ LogPriced
  BY DEF Init, LogTyped, LogPriced, Opt
<1>2. SweepTyped /\ SweepCovers
  BY DEF Init, SweepTyped, SweepCovers, IdleSweep, Opt
<1>3. QED
  BY <1>1, <1>2 DEF LedgerInv

\* Every record was priced with the provider that answered it, and what a sweep has
\* dealt with is at the price the sweep found.
THEOREM LedgerConsistent == Spec => [](CatalogInv /\ LedgerInv)
<1>1. Init => CatalogInv /\ LedgerInv
  BY InitCatalog, InitLedger
<1>2. CatalogInv /\ LedgerInv /\ [Next]_vars => (CatalogInv /\ LedgerInv)'
  BY StepCatalog, StepLedger
<1>3. QED
  BY <1>1, <1>2, PTL DEF Spec

LEMMA LedgerSettles == LedgerInv => RecomputeSettles
<1> SUFFICES ASSUME LedgerInv, sweep.pc = "done", sweep.pricing = pricing,
                    NEW id \in sweep.covered \cap Swept(sweep.window),
                    compute_cost(Catalog, PricedWith(log[id].request),
                                 log[id].request.model, log[id].request.usage) # None
             PROVE  LET cost == compute_cost(Catalog, PricedWith(log[id].request),
                                             log[id].request.model, log[id].request.usage)
                    IN /\ log[id].would_have_cost_usd = cost
                       /\ log[id].cost_usd = IF log[id].request.cached THEN 0 ELSE cost
  BY DEF RecomputeSettles
<1>1. id \in Ids /\ log[id] # None
  BY DEF Swept, Table
<1>2. log[id].request \in Traffic /\ log[id].last_attempt = PricedWith(log[id].request)
  BY <1>1 DEF LedgerInv, LogTyped, LogPriced, LogRecord, Opt
<1>3. resolve_provider(log[id]) = PricedWith(log[id].request)
  BY <1>2, SameProvider
<1>4. SweepPrice(id) = lookup(Catalog, PricedWith(log[id].request), log[id].request.model)
  BY <1>3 DEF SweepPrice, Catalog
<1>5. AtSweepPrice(id)
  BY DEF LedgerInv, SweepCovers
<1>6. QED
  BY <1>4, <1>5 DEF compute_cost, AtSweepPrice, AtPrice

\* RecomputeSettles holds: after a sweep the costs in its window are those at the
\* prices in force, if these are the ones it used.
THEOREM SweepSettlesCosts == Spec => []RecomputeSettles
BY LedgerConsistent, LedgerSettles, PTL

\* Only a sweep changes the costs of a record.
LEMMA ChangedBySweep ==
  ASSUME LedgerInv, [Next]_vars, NEW id \in Ids, log[id] # None, log'[id] # None,
         log'[id] # log[id]
  PROVE  \E key \in sweep.keys : SweepKey(key)
<1>1. \/ UNCHANGED log
      \/ \E i \in Ids, t \in Traffic : Submit(i, t)
      \/ Restart \/ PersistFails
      \/ \E key \in sweep.keys : SweepKey(key)
  BY DEF Next, vars, Edit, Ask, Write, List, Store, WalkStart, WalkOn, Persist, Sweep,
         SweepFlush, SweepLoad, SweepKeys, SweepEnds, SweepFails
<1>2. ASSUME NEW i \in Ids, NEW t \in Traffic, Submit(i, t) PROVE FALSE
  BY <1>2 DEF Submit, LedgerInv, LogTyped
<1>3. CASE Restart \/ PersistFails
  BY <1>3 DEF Restart, PersistFails, Unlogged
<1>4. QED
  BY <1>1, <1>2, <1>3

\* OnlyRepriced holds: a stored cost changes only in a sweep, within its window, and
\* not where the price that would be applied is the one the record has.
THEOREM CostsOnlyRepriced == Spec => OnlyRepriced
<1> DEFINE Kept ==
      \A id \in Ids :
        (log[id] # None /\ log'[id] # None /\ log'[id] # log[id]) =>
          LET t == log[id].request
          IN /\ sweep.pc = "rows" /\ id \in Swept(sweep.window)
             /\ log'[id].request = t
             /\ t.success =>
                  lookup(merged_catalog(sweep.pricing), PricedWith(t), t.model)
                    # log[id].entry
<1>1. LedgerInv /\ [Next]_vars => Kept
  <2> SUFFICES ASSUME LedgerInv, [Next]_vars, NEW id \in Ids,
                      log[id] # None, log'[id] # None, log'[id] # log[id]
               PROVE  /\ sweep.pc = "rows" /\ id \in Swept(sweep.window)
                      /\ log'[id].request = log[id].request
                      /\ log[id].request.success =>
                           lookup(merged_catalog(sweep.pricing), PricedWith(log[id].request),
                                  log[id].request.model) # log[id].entry
    OBVIOUS
  <2>1. PICK key \in sweep.keys : SweepKey(key)
    BY ChangedBySweep
  <2>2. /\ id \in Swept(sweep.window) /\ SweepPrice(id) \in Prices \ {None}
        /\ log'[id] = Repriced(log[id], SweepPrice(id))
    BY <2>1, KeyRepriced
  <2>3. sweep.pc = "rows" /\ log'[id].request = log[id].request
    BY <2>1, KeyKeeps DEF SweepKey
  <2>4. PICK r \in LogRecord : r = log[id]
    BY DEF LedgerInv, LogTyped, Opt
  <2>5. r.request \in Traffic /\ r.last_attempt = PricedWith(r.request) /\ r.request.usage # None
    BY <2>2, <2>4 DEF LedgerInv, LogPriced, LogRecord, Swept
  <2>6. resolve_provider(r) = PricedWith(r.request)
    BY <2>5, SameProvider
  <2>7. SweepPrice(id)
          = lookup(merged_catalog(sweep.pricing), PricedWith(log[id].request),
                   log[id].request.model)
    BY <2>4, <2>6 DEF SweepPrice
  <2>8. ASSUME r.request.success, SweepPrice(id) = r.entry PROVE FALSE
    <3>1. PICK price \in Prices : price = SweepPrice(id)
      BY <2>2
    <3>2. price # None
      BY <2>2, <3>1
    <3>3. AtPrice(r, price)
      BY <2>4, <2>5, <2>8, <3>1, <3>2 DEF LedgerInv, LogPriced
    <3>4. Repriced(r, price) = r
      BY <2>5, <2>8, <3>1, <3>3, RepricedType
    <3>5. QED
      BY <2>2, <2>4, <3>1, <3>4
  <2>9. QED
    BY <2>2, <2>3, <2>4, <2>7, <2>8
<1>2. QED
  BY <1>1, LedgerConsistent, PTL DEF OnlyRepriced, Spec

----------------------------------------------------------------------------
(* Pages                                                                   *)

Logged == {id \in Ids : log[id] # None}

WalkTyped ==
  /\ walk \in [pc : {"idle", "more", "done"}, filter : Opt(Filters), cursor : Opt(Ids),
               listed : Seq(Ids), present : SUBSET Ids]
  /\ walk.pc # "idle" => walk.filter \in Filters

\* The rows of the filter.
Filtered(f) == {id \in Table : Matches(id, f)}

\* What was listed is in order and is stored; what was there at first and is not listed
\* yet comes after the cursor, which is the last one listed.
WalkSound ==
  walk.pc # "idle" =>
    /\ walk.present \subseteq Filtered(walk.filter)
    /\ \A i \in DOMAIN walk.listed : walk.listed[i] \in Filtered(walk.filter)
    /\ \A i, j \in DOMAIN walk.listed : i < j => After(walk.listed[j], walk.listed[i])
    /\ walk.pc = "more" =>
         /\ Len(walk.listed) > 0 /\ walk.cursor = walk.listed[Len(walk.listed)]
         /\ \A id \in walk.present :
              After(id, walk.cursor) \/ \E i \in DOMAIN walk.listed : walk.listed[i] = id
    /\ walk.pc = "done" =>
         \A id \in walk.present : \E i \in DOMAIN walk.listed : walk.listed[i] = id

WalkInv == IsFiniteSet(Logged) /\ WalkTyped /\ WalkSound

\* The order of the log is a strict total order.
LEMMA AfterOrder ==
  ASSUME NEW S \in SUBSET Ids, \A id \in S : Ts(id) \in Nat
  PROVE  /\ \A x \in S : ~After(x, x)
         /\ \A x, y \in S : x = y \/ After(x, y) \/ After(y, x)
         /\ \A x, y, z \in S : After(x, y) /\ After(y, z) => After(x, z)
<1>1. \A id \in S : id \in Nat
  BY LedgerAssumption
<1>2. QED
  BY <1>1 DEF After

\* Rows are numbered by rank, in their order and without a gap.
LEMMA RankOrder ==
  ASSUME NEW rows \in SUBSET Ids, IsFiniteSet(rows), \A id \in rows : Ts(id) \in Nat
  PROVE  /\ Cardinality(rows) \in Nat
         /\ \A x \in rows : Rank(x, rows) \in 0..(Cardinality(rows) - 1)
         /\ \A x, y \in rows : Rank(y, rows) < Rank(x, rows) <=> After(x, y)
         /\ \A x, y \in rows : Rank(x, rows) = Rank(y, rows) => x = y
         /\ \A k \in 0..(Cardinality(rows) - 1) : \E x \in rows : Rank(x, rows) = k
<1> DEFINE ahead(x) == {r \in rows : After(x, r)}
           n == Cardinality(rows)
<1>1. n \in Nat
  BY FS_CardinalityType
<1>2. /\ \A x \in rows : ~After(x, x)
      /\ \A x, y \in rows : x = y \/ After(x, y) \/ After(y, x)
      /\ \A x, y, z \in rows : After(x, y) /\ After(y, z) => After(x, z)
  BY AfterOrder
<1>3. ASSUME NEW x \in rows
      PROVE  /\ IsFiniteSet(ahead(x)) /\ Rank(x, rows) = Cardinality(ahead(x))
             /\ Rank(x, rows) \in Nat /\ Rank(x, rows) < n
  <2>1. ahead(x) \in SUBSET rows /\ ahead(x) # rows
    BY <1>2
  <2>2. Rank(x, rows) = Cardinality(ahead(x))
    BY DEF Rank
  <2> HIDE DEF ahead
  <2>3. IsFiniteSet(ahead(x)) /\ Cardinality(ahead(x)) <= n /\ Cardinality(ahead(x)) # n
    BY <2>1, FS_Subset
  <2>4. Cardinality(ahead(x)) \in Nat
    BY <2>3, FS_CardinalityType
  <2>5. QED
    BY <1>1, <2>2, <2>3, <2>4
<1>4. ASSUME NEW x \in rows, NEW y \in rows, After(x, y)
      PROVE  Rank(y, rows) < Rank(x, rows)
  <2>1. ahead(y) \in SUBSET ahead(x) /\ ahead(y) # ahead(x)
    BY <1>2, <1>4
  <2>2. /\ IsFiniteSet(ahead(x)) /\ Rank(x, rows) = Cardinality(ahead(x))
        /\ Rank(y, rows) = Cardinality(ahead(y))
        /\ Rank(x, rows) \in Nat /\ Rank(y, rows) \in Nat
    BY <1>3
  <2> HIDE DEF ahead
  <2>3. Cardinality(ahead(y)) <= Cardinality(ahead(x))
        /\ Cardinality(ahead(y)) # Cardinality(ahead(x))
    BY <2>1, <2>2, FS_Subset
  <2>4. QED
    BY <2>2, <2>3
<1> HIDE DEF ahead, n
<1>5. \A x \in rows : Rank(x, rows) \in Nat /\ Rank(x, rows) < n
  BY <1>3
<1>6. \A x, y \in rows : Rank(y, rows) < Rank(x, rows) <=> After(x, y)
  BY <1>2, <1>4, <1>5
<1>7. \A x, y \in rows : Rank(x, rows) = Rank(y, rows) => x = y
  BY <1>2, <1>4, <1>5
<1>8. \A x \in rows : Rank(x, rows) \in 0..(n - 1)
  BY <1>1, <1>5
<1>9. \A k \in 0..(n - 1) : \E x \in rows : Rank(x, rows) = k
  <2> DEFINE f == [x \in rows |-> Rank(x, rows)]
  <2>1. IsFiniteSet(0..(n - 1)) /\ Cardinality(0..(n - 1)) = n
    BY <1>1, FS_Interval
  <2>2. f \in Injection(rows, 0..(n - 1))
    BY <1>7, <1>8 DEF Injection, IsInjective
  <2> HIDE DEF f
  <2>3. f \in Surjection(rows, 0..(n - 1))
    BY <2>1, <2>2, FS_Injection DEF n
  <2>4. QED
    BY <2>3 DEF Surjection, f
<1>10. QED
  BY <1>1, <1>6, <1>7, <1>8, <1>9 DEF n

LEMMA LimitType == Limit \in Nat /\ Limit > 0
BY LedgerAssumption DEF Limit

\* A page is the first of the rows, in order; what it leaves out comes after its last.
LEMMA PageSound ==
  ASSUME NEW f, NEW cursor, Remaining(f, cursor) \in SUBSET Ids,
         IsFiniteSet(Remaining(f, cursor)),
         \A id \in Remaining(f, cursor) : Ts(id) \in Nat
  PROVE  /\ Page(f, cursor) \in Seq(Remaining(f, cursor))
         /\ \A i, j \in DOMAIN Page(f, cursor) :
              i < j => After(Page(f, cursor)[j], Page(f, cursor)[i])
         /\ HasMore(f, cursor) =>
              /\ Len(Page(f, cursor)) > 0
              /\ \A id \in Remaining(f, cursor) :
                   \/ After(id, Page(f, cursor)[Len(Page(f, cursor))])
                   \/ \E i \in DOMAIN Page(f, cursor) : Page(f, cursor)[i] = id
         /\ ~HasMore(f, cursor) =>
              \A id \in Remaining(f, cursor) :
                \E i \in DOMAIN Page(f, cursor) : Page(f, cursor)[i] = id
<1>1. PICK rows : rows = Remaining(f, cursor)
  OBVIOUS
<1>2. PICK n : n = Cardinality(rows)
  OBVIOUS
<1>3. /\ n \in Nat
      /\ \A x \in rows : Rank(x, rows) \in 0..(n - 1)
      /\ \A x, y \in rows : Rank(y, rows) < Rank(x, rows) <=> After(x, y)
      /\ \A x, y \in rows : Rank(x, rows) = Rank(y, rows) => x = y
      /\ \A k \in 0..(n - 1) : \E x \in rows : Rank(x, rows) = k
  BY <1>1, <1>2, RankOrder
<1>4. PICK m : m = IF HasMore(f, cursor) THEN Limit ELSE n
  OBVIOUS
<1>5. HasMore(f, cursor) <=> n > Limit
  BY <1>1, <1>2 DEF HasMore
<1>6. m \in Nat /\ m <= n /\ (HasMore(f, cursor) => m > 0)
  BY <1>3, <1>4, <1>5, LimitType
<1>7. PICK p : p = Page(f, cursor)
  OBVIOUS
<1>8. p = [i \in 1..m |-> CHOOSE id \in rows : Rank(id, rows) = i - 1]
  BY <1>1, <1>2, <1>4, <1>7 DEF Page
<1>9. ASSUME NEW i \in 1..m PROVE p[i] \in rows /\ Rank(p[i], rows) = i - 1
  <2>1. i - 1 \in 0..(n - 1)
    BY <1>3, <1>6
  <2>2. \E x \in rows : Rank(x, rows) = i - 1
    BY <1>3, <2>1
  <2>3. p[i] = CHOOSE id \in rows : Rank(id, rows) = i - 1
    BY <1>8
  <2>4. QED
    BY <2>2, <2>3
<1>10. p \in Seq(rows) /\ Len(p) = m /\ DOMAIN p = 1..m
  <2>1. p \in [1..m -> rows]
    BY <1>8, <1>9
  <2>2. QED
    BY <1>6, <2>1
<1>11. \A i, j \in 1..m : i < j => After(p[j], p[i])
  <2> SUFFICES ASSUME NEW i \in 1..m, NEW j \in 1..m, i < j PROVE After(p[j], p[i])
    OBVIOUS
  <2>1. Rank(p[i], rows) < Rank(p[j], rows)
    BY <1>6, <1>9
  <2>2. QED
    BY <1>3, <1>9, <2>1
<1>12. \A id \in rows : Rank(id, rows) < m => \E i \in 1..m : p[i] = id
  <2> SUFFICES ASSUME NEW id \in rows, Rank(id, rows) < m PROVE \E i \in 1..m : p[i] = id
    OBVIOUS
  <2>1. PICK k : k = Rank(id, rows) + 1
    OBVIOUS
  <2>2. Rank(id, rows) \in 0..(n - 1)
    BY <1>3
  <2>3. k \in 1..m /\ Rank(id, rows) = k - 1
    BY <1>3, <1>6, <2>1, <2>2
  <2>4. p[k] \in rows /\ Rank(p[k], rows) = Rank(id, rows)
    BY <1>9, <2>3
  <2>5. QED
    BY <1>3, <2>3, <2>4
<1>13. ASSUME HasMore(f, cursor), NEW id \in rows
       PROVE  After(id, p[m]) \/ \E i \in 1..m : p[i] = id
  <2>1. CASE Rank(id, rows) < m
    BY <1>12, <2>1
  <2>2. CASE ~(Rank(id, rows) < m)
    <3>1. m \in 1..m
      BY <1>6, <1>13
    <3>2. p[m] \in rows /\ Rank(p[m], rows) = m - 1
      BY <1>9, <3>1
    <3>3. Rank(id, rows) \in 0..(n - 1)
      BY <1>3
    <3>4. Rank(p[m], rows) < Rank(id, rows)
      BY <1>3, <1>6, <2>2, <3>2, <3>3
    <3>5. QED
      BY <1>3, <3>2, <3>4
  <2>3. QED
    BY <2>1, <2>2
<1>14. ASSUME ~HasMore(f, cursor), NEW id \in rows
       PROVE  \E i \in 1..m : p[i] = id
  <2>1. Rank(id, rows) \in 0..(n - 1) /\ m = n
    BY <1>3, <1>4, <1>14
  <2>2. QED
    BY <1>3, <1>12, <2>1
<1>15. QED
  BY <1>1, <1>6, <1>7, <1>10, <1>11, <1>13, <1>14

LEMMA TableFacts ==
  ASSUME LedgerInv, IsFiniteSet(Logged)
  PROVE  /\ Table \in SUBSET Ids /\ \A id \in Table : Ts(id) \in Nat
         /\ \A S : S \subseteq Table => IsFiniteSet(S)
<1>1. \A id \in Table : id \in Ids /\ log[id] # None
  BY DEF Table
<1>2. ASSUME NEW id \in Table PROVE Ts(id) \in Nat
  <2>1. log[id].request \in TrafficType
    BY <1>1, LedgerAssumption DEF LedgerInv, LogTyped, LogRecord, Opt
  <2>2. QED
    BY <2>1 DEF Ts, TrafficType
<1>3. ASSUME NEW S, S \subseteq Table PROVE IsFiniteSet(S)
  <2>1. S \in SUBSET Logged
    BY <1>1, <1>3 DEF Logged
  <2>2. QED
    BY <2>1, FS_Subset
<1>4. QED
  BY <1>1, <1>2, <1>3

\* A page of rows that are stored, as PageSound has it.
LEMMA NextPage ==
  ASSUME LedgerInv, IsFiniteSet(Logged), NEW f, NEW cursor
  PROVE  /\ Page(f, cursor) \in Seq(Remaining(f, cursor))
         /\ \A i, j \in DOMAIN Page(f, cursor) :
              i < j => After(Page(f, cursor)[j], Page(f, cursor)[i])
         /\ HasMore(f, cursor) =>
              /\ Len(Page(f, cursor)) > 0
              /\ \A id \in Remaining(f, cursor) :
                   \/ After(id, Page(f, cursor)[Len(Page(f, cursor))])
                   \/ \E i \in DOMAIN Page(f, cursor) : Page(f, cursor)[i] = id
         /\ ~HasMore(f, cursor) =>
              \A id \in Remaining(f, cursor) :
                \E i \in DOMAIN Page(f, cursor) : Page(f, cursor)[i] = id
<1>1. Remaining(f, cursor) \subseteq Table
  BY DEF Remaining
<1>2. /\ Remaining(f, cursor) \in SUBSET Ids /\ IsFiniteSet(Remaining(f, cursor))
      /\ \A id \in Remaining(f, cursor) : Ts(id) \in Nat
  BY <1>1, TableFacts
<1>3. QED
  BY <1>2, PageSound

\* Rows stay and keep their requests.
RowsKept == Table \subseteq Table' /\ \A id \in Table : log'[id].request = log[id].request

\* Steps of others leave a walk sound.
LEMMA WalkKept ==
  ASSUME WalkTyped, WalkSound, walk' = walk, RowsKept
  PROVE  WalkTyped' /\ WalkSound'
<1>1. WalkTyped'
  BY DEF WalkTyped
<1>2. PICK f : f = walk.filter
  OBVIOUS
<1>3. \A id \in Table : Ts(id)' = Ts(id)
  BY DEF RowsKept, Ts
<1>4. \A x, y \in Table : After(x, y) => After(x, y)'
  BY <1>3 DEF After
<1>5. \A x \in Table : Matches(x, f) => Matches(x, f)'
  BY <1>3 DEF Matches, Within, RowsKept
<1>6. Filtered(f) \subseteq Table /\ Filtered(f) \subseteq Filtered(f)'
  BY <1>5 DEF Filtered, RowsKept
<1>7. WalkSound'
  <2> SUFFICES ASSUME walk.pc # "idle" PROVE WalkSound'
    BY DEF WalkSound
  <2>1. /\ walk.present \subseteq Filtered(f)
        /\ \A i \in DOMAIN walk.listed : walk.listed[i] \in Filtered(f)
        /\ \A i, j \in DOMAIN walk.listed : i < j => After(walk.listed[j], walk.listed[i])
    BY <1>2 DEF WalkSound
  <2>2. walk.pc = "more" =>
         /\ Len(walk.listed) > 0 /\ walk.cursor = walk.listed[Len(walk.listed)]
         /\ walk.cursor \in Filtered(f)
         /\ \A id \in walk.present :
              After(id, walk.cursor) \/ \E i \in DOMAIN walk.listed : walk.listed[i] = id
    <3>1. walk.listed \in Seq(Ids)
      BY DEF WalkTyped
    <3>2. walk.pc = "more" =>
           /\ Len(walk.listed) > 0 /\ walk.cursor = walk.listed[Len(walk.listed)]
           /\ \A id \in walk.present :
                After(id, walk.cursor) \/ \E i \in DOMAIN walk.listed : walk.listed[i] = id
      BY DEF WalkSound
    <3>3. Len(walk.listed) > 0 => Len(walk.listed) \in DOMAIN walk.listed
      BY <3>1
    <3>4. QED
      BY <2>1, <3>2, <3>3
  <2>3. walk.pc = "done" =>
          \A id \in walk.present : \E i \in DOMAIN walk.listed : walk.listed[i] = id
    BY DEF WalkSound
  <2>4. \A i, j \in DOMAIN walk.listed : i < j => After(walk.listed[j], walk.listed[i])'
    BY <1>4, <1>6, <2>1
  <2>5. walk.pc = "more" =>
         \A id \in walk.present :
           After(id, walk.cursor)' \/ \E i \in DOMAIN walk.listed : walk.listed[i] = id
    BY <1>4, <1>6, <2>1, <2>2
  <2>6. /\ walk.present \subseteq Filtered(f)'
        /\ \A i \in DOMAIN walk.listed : walk.listed[i] \in Filtered(f)'
    BY <1>6, <2>1
  <2>7. QED
    BY <1>2, <2>2, <2>3, <2>4, <2>5, <2>6 DEF WalkSound
<1>8. QED
  BY <1>1, <1>7

LEMMA WalkStartSound ==
  ASSUME LedgerInv, WalkInv, NEW f \in Filters, WalkStart(f)
  PROVE  WalkInv'
<1>1. log' = log /\ pending' = pending
  BY DEF WalkStart
<1>2. /\ Logged' = Logged /\ Filtered(f)' = Filtered(f)
      /\ \A x, y : After(x, y)' <=> After(x, y)
  BY <1>1 DEF Logged, Filtered, Table, Matches, Within, After, Ts
<1>3. Remaining(f, None) = Filtered(f) /\ Filtered(f) \subseteq Ids
  BY DEF Remaining, Filtered, PastCursor, Table
<1>4. PICK p : p = Page(f, None)
  OBVIOUS
<1>5. PICK more : more = HasMore(f, None)
  OBVIOUS
<1>6. /\ p \in Seq(Filtered(f))
      /\ \A i, j \in DOMAIN p : i < j => After(p[j], p[i])
      /\ more =>
           /\ Len(p) > 0
           /\ \A id \in Filtered(f) : After(id, p[Len(p)]) \/ \E i \in DOMAIN p : p[i] = id
      /\ ~more => \A id \in Filtered(f) : \E i \in DOMAIN p : p[i] = id
  BY <1>3, <1>4, <1>5, NextPage DEF WalkInv
<1>7. walk' = [pc |-> IF more THEN "more" ELSE "done", filter |-> f,
               cursor |-> IF more THEN p[Len(p)] ELSE None,
               listed |-> p, present |-> Filtered(f)]
  BY <1>4, <1>5 DEF WalkStart, Filtered, Last
<1>8. p \in Seq(Ids) /\ (more => p[Len(p)] \in Ids)
  BY <1>3, <1>6
<1>9. WalkTyped'
  BY <1>3, <1>7, <1>8 DEF WalkTyped, Opt
<1>10. \A i \in DOMAIN p : p[i] \in Filtered(f)
  BY <1>6
<1>11. WalkSound'
  BY <1>2, <1>6, <1>7, <1>10 DEF WalkSound
<1>12. QED
  BY <1>2, <1>9, <1>11 DEF WalkInv

LEMMA ConcatParts ==
  ASSUME NEW S, NEW l \in Seq(S), NEW p \in Seq(S)
  PROVE  /\ l \o p \in Seq(S) /\ Len(l \o p) = Len(l) + Len(p)
         /\ DOMAIN (l \o p) = 1..(Len(l) + Len(p))
         /\ \A i \in DOMAIN l : i \in DOMAIN (l \o p) /\ (l \o p)[i] = l[i]
         /\ \A i \in DOMAIN p : Len(l) + i \in DOMAIN (l \o p) /\ (l \o p)[Len(l) + i] = p[i]
         /\ \A i \in DOMAIN (l \o p) :
              \/ i \in DOMAIN l
              \/ i - Len(l) \in DOMAIN p /\ i = Len(l) + (i - Len(l)) /\ i > Len(l)
OBVIOUS

\* A sorted list, and a sorted one of rows after its last, make a sorted list.
LEMMA SortedConcat ==
  ASSUME NEW S \in SUBSET Ids, \A id \in S : Ts(id) \in Nat,
         NEW l \in Seq(S), NEW p \in Seq(S), Len(l) > 0,
         \A i, j \in DOMAIN l : i < j => After(l[j], l[i]),
         \A i, j \in DOMAIN p : i < j => After(p[j], p[i]),
         \A i \in DOMAIN p : After(p[i], l[Len(l)])
  PROVE  \A i, j \in DOMAIN (l \o p) : i < j => After((l \o p)[j], (l \o p)[i])
<1>1. PICK q : q = l \o p
  OBVIOUS
<1>2. PICK n \in Nat : n = Len(l)
  OBVIOUS
<1>3. /\ DOMAIN l = 1..n /\ n > 0
      /\ \A i \in 1..n : q[i] = l[i] /\ l[i] \in S
      /\ \A i \in DOMAIN p : q[n + i] = p[i] /\ p[i] \in S /\ i \in Nat
      /\ \A i \in DOMAIN q : i \in Nat /\ (i \in 1..n \/ \E k \in DOMAIN p : i = n + k)
  <2>1. /\ \A i \in DOMAIN l : (l \o p)[i] = l[i]
        /\ \A i \in DOMAIN p : (l \o p)[Len(l) + i] = p[i]
        /\ \A i \in DOMAIN (l \o p) :
             \/ i \in DOMAIN l
             \/ i - Len(l) \in DOMAIN p /\ i = Len(l) + (i - Len(l)) /\ i > Len(l)
        /\ DOMAIN (l \o p) = 1..(Len(l) + Len(p))
    OBVIOUS
  <2>2. DOMAIN l = 1..n /\ \A i \in 1..n : l[i] \in S
    BY <1>2
  <2>3. \A i \in DOMAIN p : p[i] \in S /\ i \in Nat
    OBVIOUS
  <2>4. \A i \in 1..n : q[i] = l[i]
    BY <1>1, <2>1, <2>2
  <2>5. \A i \in DOMAIN p : q[n + i] = p[i]
    BY <1>1, <1>2, <2>1
  <2>6. \A i \in DOMAIN q : i \in 1..n \/ \E k \in DOMAIN p : i = n + k
    BY <1>1, <1>2, <2>1, <2>2
  <2>7. \A i \in DOMAIN q : i \in Nat
    BY <1>1, <2>1
  <2>8. QED
    BY <1>2, <2>2, <2>3, <2>4, <2>5, <2>6, <2>7
<1>4. \A x, y, z \in S : After(x, y) /\ After(y, z) => After(x, z)
  BY AfterOrder
<1>5. ASSUME NEW i \in 1..n, NEW k \in DOMAIN p PROVE After(p[k], l[i])
  <2>1. n \in 1..n
    BY <1>3
  <2>2. l[i] \in S /\ p[k] \in S /\ l[n] \in S /\ After(p[k], l[n])
    BY <1>2, <1>3, <2>1
  <2>3. CASE i = n
    BY <2>2, <2>3
  <2>4. CASE i < n
    <3>1. After(l[n], l[i])
      BY <1>3, <2>1, <2>4
    <3>2. QED
      BY <1>4, <2>2, <3>1
  <2>5. QED
    BY <2>3, <2>4
<1>6. ASSUME NEW i \in DOMAIN q, NEW j \in DOMAIN q, i < j
      PROVE  After(q[j], q[i])
  <2>1. CASE i \in 1..n /\ j \in 1..n
    BY <1>3, <1>6, <2>1
  <2>2. CASE i \in 1..n /\ \E k \in DOMAIN p : j = n + k
    BY <1>3, <1>5, <2>2
  <2>3. CASE \E k \in DOMAIN p : i = n + k
    <3>1. PICK k \in DOMAIN p : i = n + k
      BY <2>3
    <3>2. j \notin 1..n
      BY <1>3, <1>6, <3>1
    <3>3. PICK m \in DOMAIN p : j = n + m
      BY <1>3, <3>2
    <3>4. k < m
      BY <1>3, <1>6, <3>1, <3>3
    <3>5. QED
      BY <1>3, <3>1, <3>3, <3>4
  <2>4. QED
    BY <1>3, <2>1, <2>2, <2>3
<1>7. QED
  BY <1>1, <1>6

LEMMA WalkOnSound ==
  ASSUME LedgerInv, WalkInv, WalkOn
  PROVE  WalkInv'
<1>1. log' = log /\ pending' = pending /\ walk.pc = "more"
  BY DEF WalkOn
<1>2. PICK f : f = walk.filter
  OBVIOUS
<1>3. PICK c : c = walk.cursor
  OBVIOUS
<1>4. PICK l : l = walk.listed
  OBVIOUS
<1>5. PICK present : present = walk.present
  OBVIOUS
<1>6. /\ Logged' = Logged /\ Filtered(f)' = Filtered(f)
      /\ \A x, y : After(x, y)' <=> After(x, y)
  BY <1>1 DEF Logged, Filtered, Table, Matches, Within, After, Ts
<1>7. /\ f \in Filters /\ l \in Seq(Ids) /\ present \subseteq Filtered(f)
      /\ \A i \in DOMAIN l : l[i] \in Filtered(f)
      /\ \A i, j \in DOMAIN l : i < j => After(l[j], l[i])
      /\ Len(l) > 0 /\ c = l[Len(l)]
      /\ \A id \in present : After(id, c) \/ \E i \in DOMAIN l : l[i] = id
  BY <1>1, <1>2, <1>3, <1>4, <1>5 DEF WalkInv, WalkTyped, WalkSound
<1>8. l \in Seq(Filtered(f)) /\ c \in Filtered(f)
  BY <1>7
<1>9. /\ Filtered(f) \in SUBSET Ids /\ Filtered(f) \subseteq Table
      /\ \A id \in Filtered(f) : Ts(id) \in Nat
  <2>1. Filtered(f) \subseteq Table
    BY DEF Filtered
  <2>2. QED
    BY <2>1, TableFacts DEF WalkInv
<1>10. Remaining(f, c) = {id \in Filtered(f) : After(id, c)}
  <2>1. c # None
    BY <1>8, <1>9, LedgerAssumption
  <2>2. QED
    BY <2>1 DEF Remaining, Filtered, PastCursor
<1>11. PICK p : p = Page(f, c)
  OBVIOUS
<1>12. PICK more : more = HasMore(f, c)
  OBVIOUS
<1>13. /\ p \in Seq(Remaining(f, c))
       /\ \A i, j \in DOMAIN p : i < j => After(p[j], p[i])
       /\ more =>
            /\ Len(p) > 0
            /\ \A id \in Remaining(f, c) : After(id, p[Len(p)]) \/ \E i \in DOMAIN p : p[i] = id
       /\ ~more => \A id \in Remaining(f, c) : \E i \in DOMAIN p : p[i] = id
  BY <1>11, <1>12, NextPage DEF WalkInv
<1>14. PICK q : q = l \o p
  OBVIOUS
<1>15. p \in Seq(Filtered(f)) /\ \A i \in DOMAIN p : After(p[i], c) /\ p[i] \in Remaining(f, c)
  BY <1>10, <1>13
<1>16. /\ q \in Seq(Filtered(f)) /\ Len(q) = Len(l) + Len(p)
       /\ \A i \in DOMAIN l : i \in DOMAIN q /\ q[i] = l[i]
       /\ \A i \in DOMAIN p : Len(l) + i \in DOMAIN q /\ q[Len(l) + i] = p[i]
  BY <1>8, <1>14, <1>15, ConcatParts
<1>17. \A i, j \in DOMAIN q : i < j => After(q[j], q[i])
  BY <1>7, <1>8, <1>9, <1>13, <1>14, <1>15, SortedConcat
<1>18. /\ walk'.pc = (IF more THEN "more" ELSE "done") /\ walk'.filter = f
       /\ walk'.cursor = (IF more THEN p[Len(p)] ELSE None)
       /\ walk'.listed = q /\ walk'.present = present
       /\ walk' \in [pc : {"idle", "more", "done"}, filter : Opt(Filters), cursor : Opt(Ids),
                     listed : Seq(Ids), present : SUBSET Ids]
  <2>1. walk' = [walk EXCEPT !.pc = IF more THEN "more" ELSE "done",
                             !.cursor = IF more THEN p[Len(p)] ELSE None,
                             !.listed = @ \o p]
    BY <1>2, <1>3, <1>11, <1>12 DEF WalkOn, Last
  <2>2. q \in Seq(Ids)
    BY <1>9, <1>16
  <2>3. more => p[Len(p)] \in Ids
    BY <1>9, <1>13, <1>15
  <2>4. QED
    BY <1>2, <1>4, <1>5, <1>14, <2>1, <2>2, <2>3 DEF WalkInv, WalkTyped, Opt
<1>19. WalkTyped'
  BY <1>7, <1>18 DEF WalkTyped
<1>20. more => Len(q) > 0 /\ p[Len(p)] = q[Len(q)]
  <2>1. more => Len(p) \in DOMAIN p
    BY <1>13
  <2>2. QED
    BY <1>7, <1>13, <1>16, <2>1
<1>21. \A id \in present :
         \/ \E i \in DOMAIN q : q[i] = id
         \/ more /\ After(id, q[Len(q)])
  <2> SUFFICES ASSUME NEW id \in present,
                      ~(\E i \in DOMAIN q : q[i] = id)
               PROVE  more /\ After(id, q[Len(q)])
    OBVIOUS
  <2>1. After(id, c)
    BY <1>7, <1>16
  <2>2. id \in Remaining(f, c)
    BY <1>7, <1>10, <2>1
  <2>3. ~(\E i \in DOMAIN p : p[i] = id)
    BY <1>16
  <2>4. QED
    BY <1>12, <1>13, <1>20, <2>2, <2>3
<1>22. \A i \in DOMAIN q : q[i] \in Filtered(f)
  BY <1>16
<1>23. WalkSound'
  BY <1>6, <1>7, <1>17, <1>18, <1>20, <1>21, <1>22 DEF WalkSound
<1>24. QED
  BY <1>6, <1>19, <1>23 DEF WalkInv

\* What the other steps do to the rows of the log.
LEMMA OthersKeepRows ==
  ASSUME CatalogInv, LedgerInv, [Next]_vars
  PROVE  \/ RowsKept /\ walk' = walk
         \/ \E f \in Filters : WalkStart(f)
         \/ WalkOn
         \/ Restart
<1>1. \/ UNCHANGED <<log, pending, walk>>
      \/ \E id \in Ids, t \in Traffic : Submit(id, t)
      \/ Persist \/ PersistFails
      \/ \E key \in sweep.keys : SweepKey(key)
      \/ \E f \in Filters : WalkStart(f)
      \/ WalkOn
      \/ Restart
  BY DEF Next, vars, Edit, Ask, Write, List, Store, Sweep, SweepFlush, SweepLoad, SweepKeys,
         SweepEnds, SweepFails
<1>2. CASE UNCHANGED <<log, pending, walk>>
  BY <1>2 DEF RowsKept, Table
<1>3. ASSUME NEW id \in Ids, NEW t \in Traffic, Submit(id, t) PROVE RowsKept /\ walk' = walk
  <2>1. /\ log' = [log EXCEPT ![id] = Record(t)] /\ log[id] = None
        /\ pending' = pending \cup {id} /\ walk' = walk
    BY <1>3 DEF Submit
  <2>2. \A i \in Table : i # id /\ log'[i] = log[i]
    BY <2>1 DEF LedgerInv, LogTyped, Table
  <2>3. QED
    BY <2>1, <2>2 DEF RowsKept, Table
<1>4. CASE Persist \/ PersistFails
  BY <1>4 DEF Persist, PersistFails, Unlogged, RowsKept, Table
<1>5. ASSUME NEW key \in sweep.keys, SweepKey(key) PROVE RowsKept /\ walk' = walk
  <2>1. pending' = pending /\ walk' = walk
    BY <1>5 DEF SweepKey
  <2>2. \A i \in Ids : log[i] # None => log'[i] # None /\ log'[i].request = log[i].request
    BY <1>5, KeyKeeps
  <2>3. QED
    BY <2>1, <2>2 DEF RowsKept, Table
<1>6. QED
  BY <1>1, <1>2, <1>3, <1>4, <1>5

\* A step logs at most one record.
LEMMA LoggedFinite ==
  ASSUME LedgerInv, IsFiniteSet(Logged), [Next]_vars
  PROVE  IsFiniteSet(Logged')
<1>1. \/ UNCHANGED log
      \/ \E id \in Ids, t \in Traffic : Submit(id, t)
      \/ \E key \in sweep.keys : SweepKey(key)
      \/ Restart \/ PersistFails
  BY DEF Next, vars, Edit, Ask, Write, List, Store, Sweep, SweepFlush, SweepLoad, SweepKeys,
         SweepEnds, SweepFails, Persist, WalkStart, WalkOn
<1>2. \E id : Logged' \in SUBSET (Logged \cup {id})
  <2>1. CASE UNCHANGED log
    BY <2>1 DEF Logged
  <2>2. ASSUME NEW id \in Ids, NEW t \in Traffic, Submit(id, t)
        PROVE  Logged' \in SUBSET (Logged \cup {id})
    BY <2>2 DEF Submit, Logged, LedgerInv, LogTyped
  <2>3. ASSUME NEW key \in sweep.keys, SweepKey(key) PROVE Logged' \subseteq Logged
    BY <2>3, KeyKeeps DEF Logged
  <2>4. CASE Restart \/ PersistFails
    BY <2>4 DEF Restart, PersistFails, Unlogged, Logged
  <2>5. QED
    BY <1>1, <2>1, <2>2, <2>3, <2>4
<1>3. PICK id : Logged' \in SUBSET (Logged \cup {id})
  BY <1>2
<1>4. IsFiniteSet(Logged \cup {id})
  BY FS_AddElement
<1>5. QED
  BY <1>3, <1>4, FS_Subset

LEMMA StepWalk ==
  ASSUME CatalogInv, LedgerInv, WalkInv, [Next]_vars
  PROVE  WalkInv'
<1>1. IsFiniteSet(Logged')
  BY LoggedFinite DEF WalkInv
<1>2. CASE RowsKept /\ walk' = walk
  BY <1>1, <1>2, WalkKept DEF WalkInv
<1>3. CASE Restart
  <2>1. walk' = IdleWalk
    BY <1>3 DEF Restart
  <2>2. WalkTyped' /\ WalkSound'
    BY <2>1 DEF WalkTyped, WalkSound, IdleWalk, Opt
  <2>3. QED
    BY <1>1, <2>2 DEF WalkInv
<1>4. QED
  BY <1>2, <1>3, OthersKeepRows, WalkStartSound, WalkOnSound

\* PagesComplete holds: a walk over the pages of the log lists every record that was
\* there when it began, in order and once, whatever is stored in the meantime.
THEOREM WalksAreComplete == Spec => []PagesComplete
<1>1. Init => WalkInv
  <2> SUFFICES ASSUME Init PROVE WalkInv
    OBVIOUS
  <2>1. Logged = {}
    BY DEF Init, Logged
  <2>2. IsFiniteSet(Logged)
    BY <2>1, FS_EmptySet
  <2>3. WalkTyped /\ WalkSound
    BY DEF Init, WalkTyped, WalkSound, IdleWalk, Opt
  <2>4. QED
    BY <2>2, <2>3 DEF WalkInv
<1>2. WalkInv => PagesComplete
  <2> SUFFICES ASSUME WalkInv, walk.pc = "done" PROVE PagesComplete
    BY DEF PagesComplete
  <2>1. /\ \A i \in DOMAIN walk.listed : walk.listed[i] \in Filtered(walk.filter)
        /\ \A i, j \in DOMAIN walk.listed : i < j => After(walk.listed[j], walk.listed[i])
        /\ \A id \in walk.present : \E i \in DOMAIN walk.listed : walk.listed[i] = id
    BY DEF WalkInv, WalkSound
  <2>2. \A id \in ToSet(walk.listed) : Matches(id, walk.filter)
    BY <2>1 DEF ToSet, Filtered
  <2>3. walk.present \subseteq ToSet(walk.listed)
    BY <2>1 DEF ToSet
  <2>4. QED
    BY <2>1, <2>2, <2>3 DEF PagesComplete
<1>3. CatalogInv /\ LedgerInv /\ WalkInv /\ [Next]_vars => WalkInv'
  BY StepWalk
<1>4. QED
  BY <1>1, <1>2, <1>3, LedgerConsistent, PTL DEF Spec
=============================================================================
