---------------------------- MODULE SessionLedger -----------------------------
(***************************************************************************)
(* The inductive invariant of NativeSession, for any number of threads,    *)
(* queries, calls and signals and every capacity of the event ring; the    *)
(* lemmas on the ledger and the ring; the effects that the steps of a      *)
(* scheduler call can have on the frame of its thread, the ledger, the     *)
(* tableau and the poison bit; and the effects of entering, draining,      *)
(* resetting, starting and leaving.                                        *)
(***************************************************************************)
EXTENDS NativeSession, TLAPS

\* The leaves are first-order: Zenon proves them, and SMT those that need arithmetic,
\* sequences, records or a wide case split.
USE Zenon

\* Where a scheduler call is: before the mutex, in a check, on the way out.
Waiting == {"busy", "lock", "start"}
Running == {"next", "install", "drive", "finish", "recover"}
PCs == {"idle", "unlock", "poison", "release"} \cup Waiting \cup Running

Checks == {"permanent", "query", "batch"}

Tableaux == [query : Subjects, base : {"loaded", "committed"}, atRoot : BOOLEAN]

\* The errors of a call, and how a call ends.
Errors == {"none", "timeout", "cancelled", "resource", "wire", "invariant", "panic", "finish"}
Outcomes == Errors \cup {"ok", "disposed", "poisoned", "busy"}

Frames == [pc : PCs, kind : Checks \cup {"reset", "drain", "close", "none"},
           todo : Seq(Subjects), done : Seq(Verdicts), total : Nat, id : Nat,
           checkpoint : Tableaux, verdict : Verdicts \cup {"none"},
           error : Errors, outcome : Outcomes, asked : Seq(Subjects), answers : Seq(Verdicts)]

EventKinds == {"started", "check", "reset", "completed", "aborted"}
Events == [sequence : Nat, operation : Nat, kind : EventKinds, completed : Nat,
           total : Nat, error : Errors]

Ledgers == [present : BOOLEAN, permanent : Verdicts \cup {"unknown"}, started : Nat,
            completed : Nat, aborted : Nat, events : Seq(Events), dropped : Nat,
            nextOperation : Nat, nextSequence : Nat]

Controls == [interrupted : BOOLEAN, expired : BOOLEAN, exceeded : BOOLEAN]

Stages == [at : {"outside", "slot", "body", "inside", "leave"}, request : SessionRequests,
           outcome : Outcomes, answers : Seq(Verdicts)]

\* The type invariant.
Typed ==
    /\ closed \in BOOLEAN /\ busy \in BOOLEAN /\ poisoned \in BOOLEAN
    /\ sessionClosed \in BOOLEAN /\ sessionBusy \in BOOLEAN /\ sessionPoisoned \in BOOLEAN
    /\ present \in BOOLEAN
    /\ gil \in Threads \cup {Nobody} /\ slot \in Threads \cup {Nobody}
    /\ mutex \in Threads \cup {Nobody}
    /\ owned \in Ledgers /\ tableau \in Tableaux /\ truth \in [Subjects -> Verdicts]
    /\ control \in Controls /\ drained \in Nat
    /\ frame \in [Threads -> Frames] /\ stage \in [Threads -> Stages]

\* One thread at a time is in the session, and holds its mutex; a scheduler call is
\* made from inside; a closed session is entered by nobody, and a poisoned one runs
\* nothing any more.
Alone ==
    /\ \A t, u \in Threads : stage[t].at # "outside" /\ stage[u].at # "outside" => t = u
    /\ \A t \in Threads :
          /\ stage[t].at # "outside" => sessionBusy
          /\ stage[t].at \in {"body", "inside", "leave"} <=> slot = t
          /\ stage[t].at \in {"body", "inside"} => stage[t].request.kind # "close"
          /\ stage[t].at = "inside" => stage[t].request.kind # "delta"
          /\ sessionClosed => stage[t].at \in {"outside", "leave"}
          /\ frame[t].pc # "idle" => stage[t].at = "inside"
          /\ frame[t].pc \in Waiting \cup Running => ~poisoned
    /\ ~closed /\ owned.present /\ (present <=> ~sessionClosed)

\* The answers are the verdicts of the ontology for the queries.
Answer(answers, queries) ==
    /\ Len(answers) = Len(queries)
    /\ \A i \in 1 .. Len(queries) : answers[i] = truth[queries[i]]

\* The queries done have been answered rightly, the others are still to do.
Progress(f) ==
    /\ Len(f.done) + Len(f.todo) = Len(f.asked)
    /\ \A i \in 1 .. Len(f.done) : f.done[i] = truth[f.asked[i]]
    /\ \A i \in 1 .. Len(f.todo) : f.todo[i] = f.asked[Len(f.done) + i]

\* The frame of a scheduler call is about the request of the thread.
AboutRequest(t) ==
    /\ frame[t].kind = stage[t].request.kind /\ frame[t].asked = stage[t].request.queries
    /\ frame[t].total = IF frame[t].kind = "reset" THEN 1 ELSE Len(frame[t].asked)

\* A tableau without an overlay and without a half-finished run.
AtRoot(b) == b.query = Permanent /\ b.atRoot

\* What is known of a call at every place of it.
Threaded(t) ==
    /\ frame[t].pc # "idle" => AboutRequest(t)
    /\ frame[t].pc \in Waiting =>
          frame[t].todo = frame[t].asked /\ frame[t].done = <<>> /\ frame[t].error = "none"
    /\ frame[t].pc \in Running =>
          /\ frame[t].kind \in Checks /\ Progress(frame[t])
          /\ frame[t].id + 1 = owned.nextOperation
    /\ frame[t].pc \in Running \ {"recover"} => frame[t].error = "none"
    /\ frame[t].pc \in Running \ {"next"} =>
          frame[t].todo # <<>> /\ AtRoot(frame[t].checkpoint)
    /\ frame[t].pc = "finish" => frame[t].verdict = truth[Head(frame[t].todo)]
    /\ /\ stage[t].at = "inside" /\ frame[t].pc \notin Waiting \cup Running
       /\ frame[t].outcome = "ok" /\ stage[t].request.kind \in Checks
       => Answer(frame[t].answers, stage[t].request.queries)
    /\ stage[t].at = "leave" /\ stage[t].outcome = "ok" /\ stage[t].request.kind \in Checks
       => Answer(stage[t].answers, stage[t].request.queries)

\* Between operations, whoever is on the way in or out of one.
Resting(t) ==
    \/ frame[t].pc \in {"idle", "release"} \cup Waiting
    \/ frame[t].pc = "unlock" /\ frame[t].error # "panic"

Booked == owned.started = owned.completed + owned.aborted

\* The tableau is left as it was found and the ledger closes; only a poisoned session
\* may be left otherwise.
Tidy ==
    /\ (\A t \in Threads : Resting(t)) /\ ~poisoned => AtRoot(tableau) /\ Booked
    /\ \A t \in Threads :
          /\ frame[t].pc \in Running => owned.started = owned.completed + owned.aborted + 1
          /\ frame[t].pc = "next" => AtRoot(tableau)

\* The cached verdict is the computed one; an inconsistent ontology entails all.
Cached ==
    /\ owned.permanent \in {"unknown", truth[Permanent]}
    /\ truth[Permanent] = "unsat" => \A q \in Queries : truth[q] = "unsat"

\* Two events that follow each other in the ring.
Follows(a, b) ==
    IF a.kind \in {"completed", "aborted"}
    THEN b.kind = "started" /\ b.operation > a.operation
    ELSE /\ b.kind # "started" /\ b.operation = a.operation
         /\ b.completed \in {a.completed, a.completed + 1, 0}

\* A part of the stream that ends with a terminal event.
Chained(e) ==
    /\ \A i \in 1 .. Len(e) - 1 : Follows(e[i], e[i + 1])
    /\ e # <<>> => e[Len(e)].kind \in {"completed", "aborted"}

\* The ring of a ledger is a suffix of the stream, of which d events are drained.
Stream(o, d) ==
    /\ Len(o.events) <= EventCapacity /\ o.nextSequence >= 1
    /\ d + o.dropped + Len(o.events) = o.nextSequence - 1
    /\ \A i \in 1 .. Len(o.events) :
          o.events[i].sequence = o.nextSequence - 1 - Len(o.events) + i
    /\ Chained(o.events)

\* The operations in the ring are older than operation n.
Older(o, n) == \A i \in 1 .. Len(o.events) : o.events[i].operation < n

\* What the ring holds is older than the operation that runs.
Ring ==
    /\ Stream(owned, drained) /\ Older(owned, owned.nextOperation)
    /\ \A t \in Threads : frame[t].pc \in Running => Older(owned, frame[t].id)

\* The inductive invariant.
IInv ==
    /\ Typed /\ Alone /\ (\A t \in Threads : Threaded(t)) /\ Tidy /\ Cached /\ Ring

-----------------------------------------------------------------------------
(***************************************************************************)
(* The ledger and the ring.                                                *)
(***************************************************************************)
\* The fields push_event leaves alone.
SameLedger(o, p) ==
    /\ p.present = o.present /\ p.permanent = o.permanent /\ p.started = o.started
    /\ p.completed = o.completed /\ p.aborted = o.aborted /\ p.nextOperation = o.nextOperation

\* The events of operation n, from "started" to a terminal event.
Block(values, n) ==
    /\ Len(values) >= 1 /\ values[1].kind = "started" /\ Chained(values)
    /\ \A i \in 1 .. Len(values) : values[i].operation = n

\* An event that push_event numbers.
LEMMA NumberedFields ==
    ASSUME NEW v \in Events, NEW n \in Nat
    PROVE  /\ Numbered(v, n) \in Events /\ Numbered(v, n).sequence = n
           /\ Numbered(v, n).operation = v.operation /\ Numbered(v, n).kind = v.kind
           /\ Numbered(v, n).completed = v.completed
BY DEF Numbered, Events

\* push_event numbers the new events and appends them; the oldest of a full ring are
\* lost and counted.
LEMMA PushFields ==
    ASSUME NEW o \in Ledgers, NEW values \in Seq(Events)
    PROVE  /\ PushEvents(o, values) \in Ledgers /\ SameLedger(o, PushEvents(o, values))
           /\ PushEvents(o, values).nextSequence = o.nextSequence + Len(values)
           /\ Len(PushEvents(o, values).events) <= EventCapacity
           /\ \E lost \in 0 .. Len(o.events) + Len(values) :
                 /\ PushEvents(o, values).dropped = o.dropped + lost
                 /\ Len(PushEvents(o, values).events) = Len(o.events) + Len(values) - lost
                 /\ \A i \in 1 .. Len(o.events) + Len(values) - lost :
                       PushEvents(o, values).events[i] =
                          IF lost + i <= Len(o.events) THEN o.events[lost + i]
                          ELSE Numbered(values[lost + i - Len(o.events)],
                                        o.nextSequence + (lost + i - Len(o.events)) - 1)
<1> DEFINE numbered == [i \in 1 .. Len(values) |-> Numbered(values[i], o.nextSequence + i - 1)]
           pushed   == o.events \o numbered
           lost     == IF Len(pushed) > EventCapacity THEN Len(pushed) - EventCapacity ELSE 0
           kept     == SubSeq(pushed, lost + 1, Len(pushed))
<1>1. /\ o.events \in Seq(Events) /\ o.nextSequence \in Nat /\ o.dropped \in Nat
      /\ EventCapacity \in Nat
  BY SchedulerAssumption DEF Ledgers
<1>2. numbered \in Seq(Events) /\ Len(numbered) = Len(values)
  <2>1. \A i \in 1 .. Len(values) : values[i] \in Events /\ o.nextSequence + i - 1 \in Nat
    BY <1>1, SMT
  <2>2. \A i \in 1 .. Len(values) : Numbered(values[i], o.nextSequence + i - 1) \in Events
    BY <2>1, NumberedFields
  <2>3. QED  BY <2>2, SMT
<1>3. pushed \in Seq(Events) /\ Len(pushed) = Len(o.events) + Len(values)  BY <1>1, <1>2, SMT
<1>4. lost \in 0 .. Len(pushed) /\ Len(pushed) - lost <= EventCapacity  BY <1>1, <1>3, SMT
<1>5. kept \in Seq(Events) /\ Len(kept) = Len(pushed) - lost
      /\ \A i \in 1 .. Len(pushed) - lost : kept[i] = pushed[lost + i]
  <2> HIDE DEF pushed, lost
  <2>1. lost \in Nat /\ Len(pushed) \in Nat  BY <1>3, <1>4, SMT
  <2>2. QED  BY <1>3, <1>4, <2>1, SMT
<1>6. PushEvents(o, values) = [o EXCEPT !.nextSequence = o.nextSequence + Len(values),
                                        !.events = kept, !.dropped = o.dropped + lost]
  BY DEF PushEvents
<1>7. \A i \in 1 .. Len(values) : numbered[i] = Numbered(values[i], o.nextSequence + i - 1)  OBVIOUS
<1>8. /\ \A j \in 1 .. Len(o.events) : pushed[j] = o.events[j]
      /\ \A k \in 1 .. Len(values) : pushed[Len(o.events) + k] = numbered[k]
  <2> HIDE DEF numbered
  <2>1. QED  BY <1>1, <1>2, SMT
<1> HIDE DEF numbered, pushed, lost, kept
<1>9. /\ PushEvents(o, values) \in Ledgers /\ SameLedger(o, PushEvents(o, values))
      /\ PushEvents(o, values).nextSequence = o.nextSequence + Len(values)
      /\ PushEvents(o, values).dropped = o.dropped + lost
      /\ PushEvents(o, values).events = kept
  <2>1. o.nextSequence + Len(values) \in Nat /\ o.dropped + lost \in Nat
    BY <1>1, <1>3, <1>4, SMTT(30)
  <2>2. PICK n \in Nat : n = o.nextSequence + Len(values)  BY <2>1
  <2>3. PICK d \in Nat : d = o.dropped + lost  BY <2>1
  <2>4. PushEvents(o, values) = [o EXCEPT !.nextSequence = n, !.events = kept, !.dropped = d]
    BY <1>6, <2>2, <2>3
  <2>5. kept \in Seq(Events)  BY <1>5
  <2>6. QED  BY <2>2, <2>3, <2>4, <2>5, ZenonT(60) DEF Ledgers, SameLedger
<1>10. ASSUME NEW i \in 1 .. Len(o.events) + Len(values) - lost
       PROVE  kept[i] = IF lost + i <= Len(o.events) THEN o.events[lost + i]
                        ELSE Numbered(values[lost + i - Len(o.events)],
                                      o.nextSequence + (lost + i - Len(o.events)) - 1)
  <2>1. kept[i] = pushed[lost + i] /\ lost + i \in 1 .. Len(o.events) + Len(values)
    BY <1>1, <1>3, <1>4, <1>5, SMT
  <2>2. CASE lost + i <= Len(o.events)
    <3>1. lost + i \in 1 .. Len(o.events)  BY <1>1, <2>1, <2>2, SMT
    <3>2. QED  BY <1>8, <2>1, <2>2, <3>1
  <2>3. CASE ~(lost + i <= Len(o.events))
    <3>1. PICK k \in 1 .. Len(values) : lost + i = Len(o.events) + k /\ k = lost + i - Len(o.events)
      <4>1. lost + i - Len(o.events) \in 1 .. Len(values)  BY <1>1, <1>3, <1>4, <2>1, <2>3, SMTT(30)
      <4>2. lost + i = Len(o.events) + (lost + i - Len(o.events))  BY <1>1, <1>3, <1>4, <2>1, SMT
      <4>3. QED  BY <4>1, <4>2
    <3>2. kept[i] = Numbered(values[k], o.nextSequence + k - 1)  BY <1>7, <1>8, <2>1, <3>1
    <3>3. QED  BY <2>3, <3>1, <3>2
  <2>4. QED  BY <2>2, <2>3
<1>11. QED
  <2>1. Len(kept) <= EventCapacity  BY <1>4, <1>5
  <2>2. lost \in 0 .. Len(o.events) + Len(values) /\ Len(kept) = Len(o.events) + Len(values) - lost
    BY <1>3, <1>4, <1>5, SMT
  <2>3. QED  BY <1>9, <1>10, <2>1, <2>2

\* Counting what a full ring keeps: with a old and m new events and some of them lost.
LEMMA NewCount ==
    ASSUME NEW a \in Nat, NEW s \in Nat, NEW k \in Nat
    PROVE  s - 1 - a + (a + k) = s + k - 1
BY SMT

\* The same for the count of all events, and for an old one.
LEMMA RingCount ==
    ASSUME NEW a \in Nat, NEW m \in Nat, NEW lost \in Nat, NEW s \in Nat, NEW i \in Nat,
           NEW g \in Nat, NEW d \in Nat, d + g + a = s - 1
    PROVE  /\ s - 1 - a + (lost + i) = s + m - 1 - (a + m - lost) + i
           /\ d + (g + lost) + (a + m - lost) = (s + m) - 1
BY SMT

\* The ring stays a suffix of the stream when the events of a younger operation are
\* pushed together.
LEMMA StreamGrows ==
    ASSUME NEW o \in Ledgers, NEW values \in Seq(Events), NEW n \in Nat, NEW d \in Nat,
           Stream(o, d), Older(o, n), Block(values, n)
    PROVE  Stream(PushEvents(o, values), d) /\ Older(PushEvents(o, values), n + 1)
<1> DEFINE e == PushEvents(o, values).events
           a == Len(o.events)
           m == Len(values)
<1>1. /\ PushEvents(o, values) \in Ledgers /\ Len(e) <= EventCapacity
      /\ PushEvents(o, values).nextSequence = o.nextSequence + m
  BY PushFields
<1>2. PICK lost \in 0 .. a + m :
         /\ PushEvents(o, values).dropped = o.dropped + lost
         /\ Len(e) = a + m - lost
         /\ \A i \in 1 .. a + m - lost :
               e[i] = IF lost + i <= a THEN o.events[lost + i]
                      ELSE Numbered(values[lost + i - a], o.nextSequence + (lost + i - a) - 1)
  BY PushFields
<1>3. /\ a \in Nat /\ m \in Nat /\ m >= 1 /\ o.nextSequence \in Nat /\ o.dropped \in Nat
      /\ o.nextSequence >= 1 /\ d + o.dropped + a = o.nextSequence - 1
      /\ o.events \in Seq(Events)
  <2>1. o.nextSequence \in Nat /\ o.dropped \in Nat /\ o.events \in Seq(Events)
    BY DEF Ledgers
  <2>2. o.nextSequence >= 1 /\ d + o.dropped + a = o.nextSequence - 1  BY DEF Stream
  <2>3. values # <<>>  BY SMT DEF Block
  <2>4. a \in Nat /\ m \in Nat /\ m >= 1  BY <2>1, <2>3, SMT
  <2>5. QED  BY <2>1, <2>2, <2>4
<1>4. /\ e \in Seq(Events) /\ Len(e) = a + m - lost /\ Len(e) \in Nat
      /\ lost \in Nat /\ lost <= a + m
      /\ PushEvents(o, values).nextSequence = o.nextSequence + m
      /\ PushEvents(o, values).dropped = o.dropped + lost
  <2>1. e \in Seq(Events)  BY <1>1 DEF Ledgers
  <2>2. lost \in Nat /\ lost <= a + m  BY <1>3, SMT
  <2>3. QED  BY <1>1, <1>2, <2>1, <2>2, SMT
<1>l. PICK l \in Nat : l = Len(e)  BY <1>4
<1>s. PICK s \in Nat : s = o.nextSequence  BY <1>3
<1>n. PICK g \in Nat : g = o.dropped  BY <1>3
<1>i. /\ a \in Nat /\ m \in Nat /\ m >= 1 /\ lost \in Nat /\ lost <= a + m /\ l = a + m - lost
      /\ s >= 1 /\ d + g + a = s - 1
  BY <1>3, <1>4, <1>l, <1>s, <1>n
<1> HIDE DEF e, a, m
\* An event of the ring is an old one or a new one.
<1>5. ASSUME NEW i \in 1 .. Len(e), lost + i <= a
      PROVE  e[i] = o.events[lost + i] /\ lost + i \in 1 .. a
  <2>1. i \in 1 .. a + m - lost /\ lost + i \in 1 .. a  BY <1>i, <1>4, <1>5, SMT
  <2>2. QED  BY <1>2, <1>5, <2>1
<1>6. ASSUME NEW i \in 1 .. Len(e), lost + i > a
      PROVE  \E k \in 1 .. m :
                /\ lost + i = a + k
                /\ e[i].sequence = o.nextSequence + k - 1 /\ e[i].operation = values[k].operation
                /\ e[i].kind = values[k].kind /\ e[i].completed = values[k].completed
  <2>1. PICK k \in 1 .. m : lost + i = a + k /\ k = lost + i - a
    <3>1. lost + i - a \in 1 .. m /\ lost + i = a + (lost + i - a)  BY <1>3, <1>4, <1>6, SMT
    <3>2. QED  BY <3>1
  <2>2. e[i] = Numbered(values[k], o.nextSequence + k - 1)
    <3>1. i \in 1 .. a + m - lost /\ ~(lost + i <= a)  BY <1>4, <1>6, <1>i, SMT
    <3>2. e[i] = Numbered(values[lost + i - a], o.nextSequence + (lost + i - a) - 1)
      BY <1>2, <3>1
    <3>3. QED  BY <2>1, <3>2
  <2>3. k \in 1 .. Len(values)  BY DEF m
  <2>4. values[k] \in Events  BY <2>3, SMT
  <2>5. o.nextSequence + k - 1 \in Nat  BY <1>i, <1>s, SMTT(30)
  <2>6. /\ e[i].sequence = o.nextSequence + k - 1 /\ e[i].operation = values[k].operation
        /\ e[i].kind = values[k].kind /\ e[i].completed = values[k].completed
    BY <2>2, <2>4, <2>5, NumberedFields, SMTT(30)
  <2>7. QED  BY <2>1, <2>6
<1>7. \A j \in 1 .. a :
         o.events[j].sequence = o.nextSequence - 1 - a + j /\ o.events[j].operation < n
  BY DEF Stream, Older, a
<1>8. \A k \in 1 .. m : values[k].operation = n  BY DEF Block, m
<1>9. ASSUME NEW i \in 1 .. Len(e)
      PROVE  /\ e[i].sequence = o.nextSequence + m - 1 - Len(e) + i
             /\ e[i].operation < n + 1
  <2>1. CASE lost + i <= a
    <3>1. e[i] = o.events[lost + i] /\ lost + i \in 1 .. a  BY <1>5, <2>1
    <3>2. o.events[lost + i] \in Events  BY <1>3, <3>1, SMTT(30) DEF a
    <3>3. e[i].sequence = o.nextSequence - 1 - a + (lost + i) /\ e[i].operation < n  BY <1>7, <3>1
    <3>4. e[i].operation \in Nat  BY <3>1, <3>2 DEF Events
    <3>5. i \in Nat /\ e[i].operation < n + 1  BY <3>3, <3>4, SMT
    <3>6. s - 1 - a + (lost + i) = s + m - 1 - (a + m - lost) + i  BY <1>i, <3>5, RingCount, SMT
    <3>7. QED  BY <1>i, <1>l, <1>s, <3>3, <3>5, <3>6
  <2>2. CASE lost + i > a
    <3>1. PICK k \in 1 .. m : /\ lost + i = a + k
                              /\ e[i].sequence = o.nextSequence + k - 1
                              /\ e[i].operation = values[k].operation
      BY <1>6, <2>2
    <3>2. e[i].operation = n  BY <1>8, <3>1
    <3>3. i \in Nat /\ k \in Nat /\ n < n + 1  BY <1>i, <1>4, SMT
    <3>4. s - 1 - a + (lost + i) = s + m - 1 - (a + m - lost) + i  BY <1>i, <3>3, RingCount, SMT
    <3>5. s - 1 - a + (a + k) = s + k - 1  BY <1>i, <3>3, NewCount, SMT
    <3>6. QED  BY <1>i, <1>l, <1>s, <3>1, <3>2, <3>3, <3>4, <3>5
  <2>3. lost + i <= a \/ lost + i > a  BY <1>i, <1>l, SMT
  <2>4. QED  BY <2>1, <2>2, <2>3
<1>10. ASSUME NEW i \in 1 .. Len(e) - 1
       PROVE  Follows(e[i], e[i + 1])
  <2>1. i \in 1 .. Len(e) /\ i + 1 \in 1 .. Len(e)  BY <1>i, <1>l, SMT
  <2>2. CASE lost + (i + 1) <= a
    <3>1. e[i] = o.events[lost + i] /\ e[i + 1] = o.events[lost + (i + 1)]
      <4>1. lost + i <= a  BY <1>i, <1>l, <2>2, SMT
      <4>2. QED  BY <1>5, <2>1, <2>2, <4>1
    <3>2. PICK j \in 1 .. Len(o.events) - 1 : j = lost + i /\ j + 1 = lost + (i + 1)
      <4>1. lost + i \in 1 .. a - 1 /\ (lost + i) + 1 = lost + (i + 1)  BY <1>i, <1>l, <2>2, SMT
      <4>2. QED  BY <4>1 DEF a
    <3>3. Follows(o.events[j], o.events[j + 1])  BY <3>2 DEF Stream, Chained
    <3>4. QED  BY <3>1, <3>2, <3>3
  <2>3. CASE lost + i = a
    <3>1. lost + i <= a /\ lost + (i + 1) > a  BY <1>i, <1>l, <2>3, SMT
    <3>2. e[i] = o.events[a] /\ a \in 1 .. a  BY <1>5, <2>1, <2>3, <3>1
    <3>3. o.events[a].kind \in {"completed", "aborted"}
      <4>1. o.events # <<>>  BY <1>3, <3>2, SMT DEF a
      <4>2. QED  BY <4>1 DEF Stream, Chained, a
    <3>4. PICK k \in 1 .. m : /\ lost + (i + 1) = a + k
                              /\ e[i + 1].operation = values[k].operation
                              /\ e[i + 1].kind = values[k].kind
      BY <1>6, <2>1, <3>1
    <3>5. k = 1 /\ values[1].kind = "started"
      <4>1. k = 1  BY <1>i, <1>l, <2>3, <3>4, SMT
      <4>2. QED  BY <4>1 DEF Block
    <3>6. e[i].kind \in {"completed", "aborted"} /\ e[i + 1].kind = "started"
      BY <3>2, <3>3, <3>4, <3>5
    <3>7. e[i + 1].operation > e[i].operation
      <4>1. o.events[a] \in Events  BY <1>3, <3>2, SMTT(30) DEF a
      <4>2. QED  BY <1>7, <1>8, <3>2, <3>4, <4>1 DEF Events
    <3>8. QED  BY <3>6, <3>7 DEF Follows
  <2>4. CASE lost + i > a
    <3>1. lost + (i + 1) > a  BY <1>i, <1>l, <2>4, SMT
    <3>2. PICK k \in 1 .. m : /\ lost + i = a + k /\ e[i].operation = values[k].operation
                              /\ e[i].kind = values[k].kind /\ e[i].completed = values[k].completed
      BY <1>6, <2>1, <2>4
    <3>3. PICK h \in 1 .. m :
             /\ lost + (i + 1) = a + h /\ e[i + 1].operation = values[h].operation
             /\ e[i + 1].kind = values[h].kind /\ e[i + 1].completed = values[h].completed
      BY <1>6, <2>1, <3>1
    <3>4. k \in 1 .. Len(values) - 1 /\ h = k + 1
      <4>1. h = k + 1 /\ k \in 1 .. m - 1  BY <1>3, <1>4, <3>2, <3>3, SMT
      <4>2. QED  BY <4>1 DEF m
    <3>5. Follows(values[k], values[k + 1])  BY <3>4 DEF Block, Chained
    <3>6. QED  BY <3>2, <3>3, <3>4, <3>5 DEF Follows
  <2>5. lost + (i + 1) <= a \/ lost + i = a \/ lost + i > a  BY <1>i, <1>l, SMT
  <2>6. QED  BY <2>2, <2>3, <2>4, <2>5
<1>11. ASSUME e # <<>>
       PROVE  e[Len(e)].kind \in {"completed", "aborted"}
  <2>1. l # 0  BY <1>4, <1>l, <1>11, SMT
  <2>6. Len(e) \in 1 .. Len(e) /\ lost + Len(e) > a  BY <1>i, <1>l, <2>1, SMT
  <2>2. PICK k \in 1 .. m : lost + Len(e) = a + k /\ e[Len(e)].kind = values[k].kind
    BY <1>6, <2>6
  <2>3. k = Len(values)  BY <1>i, <1>l, <2>2, SMTT(30) DEF m
  <2>4. values # <<>>  BY <1>3, SMT DEF m
  <2>5. QED  BY <2>2, <2>3, <2>4 DEF Block, Chained
<1>12. /\ PushEvents(o, values).nextSequence >= 1
       /\ d + PushEvents(o, values).dropped + Len(e) = PushEvents(o, values).nextSequence - 1
  <2>1. d + (g + lost) + (a + m - lost) = (s + m) - 1  BY <1>i, RingCount, SMT
  <2>2. PushEvents(o, values).nextSequence >= 1
    <3>1. s + m >= 1  BY <1>i, SMT
    <3>2. QED  BY <1>4, <1>s, <3>1
  <2>3. QED  BY <1>4, <1>i, <1>l, <1>s, <1>n, <2>1, <2>2
<1>13. Chained(e)  BY <1>10, <1>11 DEF Chained
<1>14. Older(PushEvents(o, values), n + 1)  BY <1>9 DEF Older, e
<1>15. \A i \in 1 .. Len(e) : e[i].sequence = PushEvents(o, values).nextSequence - 1 - Len(e) + i
  <2>1. SUFFICES ASSUME NEW i \in 1 .. Len(e)
                 PROVE  e[i].sequence = PushEvents(o, values).nextSequence - 1 - Len(e) + i
    OBVIOUS
  <2>2. PICK q \in Nat : q = PushEvents(o, values).nextSequence /\ q = s + m
    <3>1. s + m \in Nat  BY <1>i, SMT
    <3>2. QED  BY <1>4, <1>s, <3>1
  <2>3. e[i].sequence = s + m - 1 - l + i  BY <1>9, <1>l, <1>s
  <2>4. s + m - 1 - l + i = q - 1 - l + i  BY <1>i, <2>2, SMT
  <2>5. QED  BY <1>l, <2>2, <2>3, <2>4
<1>16. QED  BY <1>1, <1>12, <1>13, <1>14, <1>15 DEF Stream, e

\* An event of an operation.
LEMMA EventFields ==
    ASSUME NEW f \in Frames, NEW kind \in EventKinds, NEW n \in Nat, NEW error \in Errors
    PROVE  /\ Event(f, kind, n, error) \in Events
           /\ Event(f, kind, n, error).operation = f.id /\ Event(f, kind, n, error).kind = kind
           /\ Event(f, kind, n, error).completed = n
<1>1. f.id \in Nat /\ f.total \in Nat  BY DEF Frames
<1>2. QED  BY <1>1 DEF Event, Events

\* The ledger p after the events of the operation of f have been pushed to o.
Recorded(o, p, f, d) ==
    /\ p \in Ledgers /\ p.present = o.present /\ p.permanent = o.permanent
    /\ p.started = o.started /\ p.nextOperation = o.nextOperation
    /\ Stream(p, d) /\ Older(p, f.id + 1)

\* abort_operation publishes "started" and "aborted" and counts the abort.
LEMMA AbortRecords ==
    ASSUME NEW o \in Ledgers, NEW f \in Frames, NEW error \in Errors, NEW d \in Nat,
           Stream(o, d), Older(o, f.id)
    PROVE  /\ Recorded(o, AbortOperation(o, f, error), f, d)
           /\ AbortOperation(o, f, error).completed = o.completed
           /\ AbortOperation(o, f, error).aborted = o.aborted + 1
<1> DEFINE a == Event(f, "started", 0, "none")
           b == Event(f, "aborted", 0, error)
           q == PushEvents(o, <<a, b>>)
           p == AbortOperation(o, f, error)
<1>1. /\ a \in Events /\ a.operation = f.id /\ a.kind = "started" /\ a.completed = 0
      /\ b \in Events /\ b.operation = f.id /\ b.kind = "aborted" /\ b.completed = 0
  <2>1. "started" \in EventKinds /\ "aborted" \in EventKinds /\ "none" \in Errors /\ 0 \in Nat
    BY DEF EventKinds, Errors
  <2>2. QED  BY <2>1, EventFields, SMT
<1>2. p = [q EXCEPT !.aborted = q.aborted + 1]  BY DEF AbortOperation
<1>3. f.id \in Nat  BY DEF Frames
<1> HIDE DEF a, b, p
<1>4. <<a, b>> \in Seq(Events) /\ Len(<<a, b>>) = 2 /\ <<a, b>>[1] = a /\ <<a, b>>[2] = b
  BY <1>1, SMT
<1>5. Block(<<a, b>>, f.id)
  <2>1. Follows(a, b)  BY <1>1 DEF Follows
  <2>2. Chained(<<a, b>>)
    <3>1. \A i \in 1 .. 2 - 1 : i = 1 /\ i + 1 = 2  BY SMT
    <3>2. QED  BY <1>1, <1>4, <2>1, <3>1 DEF Chained
  <2>3. \A i \in 1 .. 2 : i = 1 \/ i = 2  BY SMT
  <2>4. QED  BY <1>1, <1>4, <2>2, <2>3, SMT DEF Block
<1>6. q \in Ledgers /\ SameLedger(o, q)  BY <1>4, PushFields
<1>7. Stream(q, d) /\ Older(q, f.id + 1)  BY <1>3, <1>4, <1>5, StreamGrows
<1> HIDE DEF q
<1>8. PICK n \in Nat : n = q.aborted + 1
  <2>1. q.aborted \in Nat  BY <1>6 DEF Ledgers
  <2>2. QED  BY <2>1, SMT
<1>9. p = [q EXCEPT !.aborted = n]  BY <1>2, <1>8
<1>10. /\ p \in Ledgers /\ p.present = q.present /\ p.permanent = q.permanent
       /\ p.started = q.started /\ p.nextOperation = q.nextOperation /\ p.completed = q.completed
       /\ p.aborted = n /\ p.events = q.events /\ p.dropped = q.dropped
       /\ p.nextSequence = q.nextSequence
  BY <1>6, <1>9 DEF Ledgers
<1>11. Stream(p, d) /\ Older(p, f.id + 1)  BY <1>7, <1>10 DEF Stream, Older
<1>12. QED  BY <1>6, <1>8, <1>10, <1>11 DEF Recorded, SameLedger, p

\* The events complete_operation publishes: one for every check, in order, between
\* "started" and "completed".
LEMMA CheckBlock ==
    ASSUME NEW f \in Frames, f.kind # "reset", f.total = Len(f.done)
    PROVE  LET checks == [i \in 1 .. Len(f.done) |-> Event(f, "check", i, "none")]
               values == <<Event(f, "started", 0, "none")>> \o checks \o <<>>
                            \o <<Event(f, "completed", f.total, "none")>>
           IN  values \in Seq(Events) /\ Block(values, f.id)
<1> DEFINE n == Len(f.done)
           checks == [i \in 1 .. n |-> Event(f, "check", i, "none")]
           a == Event(f, "started", 0, "none")
           c == Event(f, "completed", f.total, "none")
           values == <<a>> \o checks \o <<>> \o <<c>>
<1>1. n \in Nat /\ f.total = n  BY DEF Frames
<1>2. {"started", "check", "completed"} \subseteq EventKinds /\ "none" \in Errors
  BY DEF EventKinds, Errors
<1>3. /\ a \in Events /\ a.operation = f.id /\ a.kind = "started" /\ a.completed = 0
      /\ c \in Events /\ c.operation = f.id /\ c.kind = "completed" /\ c.completed = n
  <2>1. 0 \in Nat /\ f.total \in Nat /\ f.id \in Nat  BY <1>1 DEF Frames
  <2>2. /\ "started" \in EventKinds /\ "check" \in EventKinds /\ "completed" \in EventKinds
        /\ "none" \in Errors
    BY <1>2
  <2>3. a \in Events /\ a.operation = f.id /\ a.kind = "started" /\ a.completed = 0
    BY <2>1, <2>2 DEF Event, Events
  <2>4. c \in Events /\ c.operation = f.id /\ c.kind = "completed" /\ c.completed = f.total
    BY <2>1, <2>2 DEF Event, Events
  <2>5. QED  BY <1>1, <2>3, <2>4
<1>4. \A i \in 1 .. n : /\ Event(f, "check", i, "none") \in Events
                        /\ Event(f, "check", i, "none").operation = f.id
                        /\ Event(f, "check", i, "none").kind = "check"
                        /\ Event(f, "check", i, "none").completed = i
  <2>1. \A i \in 1 .. n : i \in Nat  BY <1>1, SMT
  <2>2. QED  BY <1>2, <2>1, EventFields, SMT
<1>5. /\ checks \in Seq(Events) /\ Len(checks) = n
      /\ \A i \in 1 .. n : checks[i] \in Events /\ checks[i].operation = f.id
                           /\ checks[i].kind = "check" /\ checks[i].completed = i
  BY <1>1, <1>4, SMT
<1> HIDE DEF checks, a, c, n
<1>6. values \in Seq(Events) /\ Len(values) = n + 2  BY <1>1, <1>3, <1>5, SMT
<1>7. /\ values[1] = a /\ values[n + 2] = c
      /\ \A i \in 1 .. n : values[i + 1] = checks[i]
  BY <1>1, <1>3, <1>5, SMT
<1> HIDE DEF values
<1>8. ASSUME NEW i \in 1 .. n + 2
      PROVE  \/ i = 1 /\ values[i] = a
             \/ i - 1 \in 1 .. n /\ values[i] = checks[i - 1]
             \/ i = n + 2 /\ values[i] = c
  <2>1. CASE i = 1  BY <1>7, <2>1
  <2>2. CASE i - 1 \in 1 .. n
    <3>1. i = (i - 1) + 1  BY <1>1, SMT
    <3>2. QED  BY <1>7, <2>2, <3>1
  <2>3. CASE i = n + 2  BY <1>7, <2>3
  <2>4. QED  BY <1>1, <2>1, <2>2, <2>3, SMT
<1>9. ASSUME NEW i \in 1 .. n + 2
      PROVE  /\ values[i].operation = f.id
             /\ i = 1 => values[i].kind = "started" /\ values[i].completed = 0
             /\ i - 1 \in 1 .. n => values[i].kind = "check" /\ values[i].completed = i - 1
             /\ i = n + 2 => values[i].kind = "completed" /\ values[i].completed = n
  BY <1>1, <1>3, <1>5, <1>8, SMT
<1>10. ASSUME NEW i \in 1 .. n + 1
       PROVE  Follows(values[i], values[i + 1])
  <2>1. i \in 1 .. n + 2 /\ i + 1 \in 1 .. n + 2  BY <1>1, SMT
  <2>2. /\ values[i].kind \in {"started", "check"} /\ values[i].completed = i - 1
        /\ values[i].operation = f.id
    BY <1>1, <1>9, <2>1, SMT
  <2>3. /\ values[i + 1].kind \in {"check", "completed"} /\ values[i + 1].operation = f.id
        /\ values[i + 1].completed \in {i - 1, i}
    <3>1. CASE i + 1 = n + 2  BY <1>1, <1>9, <2>1, <3>1, SMT
    <3>2. CASE i + 1 # n + 2
      <4>1. (i + 1) - 1 \in 1 .. n /\ (i + 1) - 1 = i  BY <1>1, <3>2, SMT
      <4>2. QED  BY <1>9, <2>1, <4>1
    <3>3. QED  BY <3>1, <3>2
  <2>4. (i - 1) + 1 = i  BY <1>1, SMT
  <2>5. QED  BY <2>2, <2>3, <2>4 DEF Follows
<1>11. Chained(values)
  <2>1. values[Len(values)].kind = "completed"
    <3>1. n + 2 \in 1 .. n + 2  BY <1>1, SMT
    <3>2. QED  BY <1>6, <1>9, <3>1
  <2>2. Len(values) - 1 = n + 1  BY <1>1, <1>6, SMT
  <2>3. QED  BY <1>10, <2>1, <2>2 DEF Chained
<1>12. Block(values, f.id)
  <2>1. Len(values) >= 1 /\ 1 \in 1 .. n + 2  BY <1>1, <1>6, SMT
  <2>2. values[1].kind = "started" /\ \A i \in 1 .. Len(values) : values[i].operation = f.id
    BY <1>6, <1>9, <2>1
  <2>3. QED  BY <1>11, <2>1, <2>2 DEF Block
<1>13. QED  BY <1>6, <1>12 DEF values, checks, a, c, n

\* The events of reset_query_state.
LEMMA ResetBlock ==
    ASSUME NEW f \in Frames, f.kind = "reset", f.total = 1, f.done = <<>>
    PROVE  LET checks == [i \in 1 .. Len(f.done) |-> Event(f, "check", i, "none")]
               values == <<Event(f, "started", 0, "none")>> \o checks
                            \o <<Event(f, "reset", f.total, "none")>>
                            \o <<Event(f, "completed", f.total, "none")>>
           IN  values \in Seq(Events) /\ Block(values, f.id)
<1> DEFINE checks == [i \in 1 .. Len(f.done) |-> Event(f, "check", i, "none")]
           a == Event(f, "started", 0, "none")
           b == Event(f, "reset", f.total, "none")
           c == Event(f, "completed", f.total, "none")
           values == <<a>> \o checks \o <<b>> \o <<c>>
<1>1. {"started", "reset", "completed"} \subseteq EventKinds /\ "none" \in Errors
  BY DEF EventKinds, Errors
<1>2. /\ a \in Events /\ a.operation = f.id /\ a.kind = "started" /\ a.completed = 0
      /\ b \in Events /\ b.operation = f.id /\ b.kind = "reset" /\ b.completed = 1
      /\ c \in Events /\ c.operation = f.id /\ c.kind = "completed" /\ c.completed = 1
  BY <1>1, EventFields, SMT
<1>3. checks \in Seq(Events) /\ Len(checks) = 0  BY SMT
<1> HIDE DEF checks, a, b, c
<1>4. values \in Seq(Events) /\ Len(values) = 3  BY <1>2, <1>3, SMT
<1>5. values[1] = a /\ values[2] = b /\ values[3] = c  BY <1>2, <1>3, SMT
<1> HIDE DEF values
<1>6. Follows(values[1], values[2]) /\ Follows(values[2], values[3])  BY <1>2, <1>5, SMT DEF Follows
<1>7. Chained(values)
  <2>1. \A i \in 1 .. 3 - 1 : (i = 1 /\ i + 1 = 2) \/ (i = 2 /\ i + 1 = 3)  BY SMT
  <2>2. QED  BY <1>2, <1>4, <1>5, <1>6, <2>1, SMT DEF Chained
<1>8. \A i \in 1 .. 3 : i = 1 \/ i = 2 \/ i = 3  BY SMT
<1>9. Block(values, f.id)  BY <1>2, <1>4, <1>5, <1>7, <1>8, SMT DEF Block
<1>10. QED  BY <1>4, <1>9 DEF values, checks, a, b, c

\* complete_operation publishes the events of the operation together and counts it.
LEMMA CompleteRecords ==
    ASSUME NEW o \in Ledgers, NEW f \in Frames, NEW d \in Nat, Stream(o, d), Older(o, f.id),
           \/ f.kind # "reset" /\ f.total = Len(f.done)
           \/ f.kind = "reset" /\ f.total = 1 /\ f.done = <<>>
    PROVE  /\ Recorded(o, CompleteOperation(o, f), f, d)
           /\ CompleteOperation(o, f).completed = o.completed + 1
           /\ CompleteOperation(o, f).aborted = o.aborted
<1> DEFINE p == CompleteOperation(o, f)
<1>1. PICK values \in Seq(Events) :
         /\ Block(values, f.id)
         /\ p = [PushEvents(o, values) EXCEPT !.completed = PushEvents(o, values).completed + 1]
  <2>1. CASE f.kind # "reset"  BY <2>1, CheckBlock DEF CompleteOperation
  <2>2. CASE f.kind = "reset"  BY <2>2, ResetBlock DEF CompleteOperation
  <2>3. QED  BY <2>1, <2>2
<1> DEFINE q == PushEvents(o, values)
<1>2. f.id \in Nat  BY DEF Frames
<1>3. q \in Ledgers /\ SameLedger(o, q)  BY PushFields
<1>4. Stream(q, d) /\ Older(q, f.id + 1)  BY <1>1, <1>2, StreamGrows
<1>5. p = [q EXCEPT !.completed = q.completed + 1]  BY <1>1
<1> HIDE DEF p, q
<1>6. PICK n \in Nat : n = q.completed + 1
  <2>1. q.completed \in Nat  BY <1>3 DEF Ledgers
  <2>2. QED  BY <2>1, SMT
<1>7. p = [q EXCEPT !.completed = n]  BY <1>5, <1>6
<1>8. /\ p \in Ledgers /\ p.present = q.present /\ p.permanent = q.permanent
      /\ p.started = q.started /\ p.nextOperation = q.nextOperation /\ p.completed = n
      /\ p.aborted = q.aborted /\ p.events = q.events /\ p.dropped = q.dropped
      /\ p.nextSequence = q.nextSequence
  BY <1>3, <1>7 DEF Ledgers
<1>9. Stream(p, d) /\ Older(p, f.id + 1)  BY <1>4, <1>8 DEF Stream, Older
<1>10. QED  BY <1>3, <1>6, <1>8, <1>9 DEF Recorded, SameLedger, p

-----------------------------------------------------------------------------
(***************************************************************************)
(* What a step of a scheduler call does.                                   *)
(***************************************************************************)
\* Only the frame of t changes, and it stays a frame.
Others(t) ==
    /\ frame' \in [Threads -> Frames]
    /\ \A u \in Threads : u # t => frame'[u] = frame[u]

\* What a call was made with does not change under it.
Held(t) ==
    /\ frame'[t].kind = frame[t].kind /\ frame'[t].asked = frame[t].asked
    /\ frame'[t].total = frame[t].total

\* A step of the scheduler call of t, and what it leaves alone.
Calm(t) ==
    /\ Others(t) /\ UNCHANGED <<closed, truth, session>>
    /\ busy' \in BOOLEAN /\ poisoned' \in BOOLEAN /\ mutex' \in Threads \cup {Nobody}
    /\ owned' \in Ledgers /\ tableau' \in Tableaux /\ control' \in Controls /\ drained' \in Nat

\* On the way to the mutex.
Waits(t) ==
    /\ frame[t].pc \in {"busy", "lock"} /\ frame'[t].pc \in {"lock", "start"} /\ Held(t)
    /\ frame'[t].todo = frame[t].todo /\ frame'[t].done = frame[t].done
    /\ frame'[t].error = frame[t].error
    /\ UNCHANGED <<owned, tableau, poisoned, drained>>

\* The ring is handed out.
Drains(t) ==
    /\ frame[t].pc = "start" /\ frame'[t].pc = "unlock" /\ frame[t].kind = "drain" /\ Held(t)
    /\ frame'[t].error = frame[t].error
    /\ SameLedger(owned, owned') /\ owned'.events = <<>>
    /\ owned'.dropped = owned.dropped /\ owned'.nextSequence = owned.nextSequence
    /\ drained' = drained + Len(owned.events)
    /\ UNCHANGED <<tableau, poisoned>>

\* An operation that starts and ends in one step: a reset, a batch over the limit.
Settles(t) ==
    /\ frame[t].pc = "start" /\ frame'[t].pc = "unlock" /\ Held(t)
    /\ frame'[t].error = frame[t].error
    /\ frame[t].kind \in Checks => frame'[t].outcome # "ok"
    /\ owned'.present = owned.present /\ owned'.permanent = owned.permanent
    /\ owned'.started = owned.started + 1 /\ owned'.nextOperation = owned.nextOperation + 1
    /\ owned'.completed + owned'.aborted = owned.completed + owned.aborted + 1
    /\ Stream(owned', drained) /\ Older(owned', owned.nextOperation + 1)
    /\ AtRoot(tableau) => AtRoot(tableau')
    /\ (poisoned => poisoned') /\ UNCHANGED drained

\* A check starts.
Starts(t) ==
    /\ frame[t].pc = "start" /\ frame'[t].pc = "next" /\ frame[t].kind \in Checks /\ Held(t)
    /\ frame'[t].todo = frame[t].todo /\ frame'[t].done = frame[t].done
    /\ frame'[t].error = frame[t].error /\ frame'[t].id = owned.nextOperation
    /\ owned'.present = owned.present /\ owned'.permanent = owned.permanent
    /\ owned'.started = owned.started + 1 /\ owned'.nextOperation = owned.nextOperation + 1
    /\ owned'.completed = owned.completed /\ owned'.aborted = owned.aborted
    /\ owned'.events = owned.events /\ owned'.dropped = owned.dropped
    /\ owned'.nextSequence = owned.nextSequence
    /\ UNCHANGED <<tableau, poisoned, drained>>

\* A query of a check is answered, by a run or from what is known.
Decides(t) ==
    /\ frame[t].pc \in {"next", "finish"} /\ frame'[t].pc = "next" /\ Held(t)
    /\ frame[t].todo # <<>> /\ frame'[t].todo = Tail(frame[t].todo)
    /\ frame'[t].done = Append(frame[t].done, truth[Head(frame[t].todo)])
    /\ frame'[t].id = frame[t].id /\ frame'[t].error = frame[t].error
    /\ AtRoot(tableau') /\ UNCHANGED <<owned, poisoned, drained>>

\* A transaction goes on.
Works(t) ==
    /\ frame[t].pc \in Running /\ frame'[t].pc \in Running \ {"next"} /\ Held(t)
    /\ frame[t].todo # <<>> /\ frame'[t].todo = frame[t].todo
    /\ frame'[t].done = frame[t].done /\ frame'[t].id = frame[t].id
    /\ AtRoot(frame'[t].checkpoint)
    /\ frame'[t].pc # "recover" => frame'[t].error = "none"
    /\ frame'[t].pc = "finish" => frame'[t].verdict = truth[Head(frame[t].todo)]
    /\ UNCHANGED <<owned, poisoned, drained>>

\* A check is given up; only a panic leaves it open.
Aborts(t) ==
    /\ frame[t].pc \in Running /\ frame'[t].pc = "unlock" /\ Held(t)
    /\ frame'[t].outcome # "ok"
    /\ \/ frame'[t].error = "panic" /\ owned' = owned
       \/ /\ frame'[t].error # "panic" /\ Recorded(owned, owned', frame[t], drained)
          /\ owned'.completed = owned.completed /\ owned'.aborted = owned.aborted + 1
    /\ frame'[t].error = "panic" \/ poisoned' \/ AtRoot(tableau')
    /\ (poisoned => poisoned') /\ UNCHANGED drained

\* A check has all its answers.
Completes(t) ==
    /\ frame[t].pc = "next" /\ frame'[t].pc = "unlock" /\ frame[t].todo = <<>> /\ Held(t)
    /\ frame'[t].error = frame[t].error
    /\ frame'[t].outcome = "ok" /\ frame'[t].answers = frame[t].done
    /\ owned'.present = owned.present /\ owned'.permanent \in {owned.permanent, truth[Permanent]}
    /\ owned'.started = owned.started /\ owned'.nextOperation = owned.nextOperation
    /\ owned'.completed = owned.completed + 1 /\ owned'.aborted = owned.aborted
    /\ Stream(owned', drained) /\ Older(owned', frame[t].id + 1)
    /\ UNCHANGED <<tableau, poisoned, drained>>

\* The mutex is dropped; a panic poisons the session before the call returns.
Exits(t) ==
    /\ frame[t].pc \in {"unlock", "poison"} /\ frame'[t].pc \in {"poison", "release"} /\ Held(t)
    /\ frame'[t].outcome = frame[t].outcome /\ frame'[t].answers = frame[t].answers
    /\ \/ frame'[t].pc = "poison"
       \/ frame[t].pc = "unlock" /\ frame[t].error # "panic"
       \/ poisoned'
    /\ (poisoned => poisoned') /\ UNCHANGED <<owned, tableau, drained>>

\* The call is over: refused as busy, or answered.
Ends(t) ==
    /\ frame[t].pc \in {"busy", "release"} /\ frame'[t].pc = "idle"
    /\ frame'[t].outcome = "ok" =>
          /\ frame[t].pc = "release" /\ frame[t].outcome = "ok"
          /\ frame'[t].answers = frame[t].answers
    /\ UNCHANGED <<owned, tableau, poisoned, drained>>

\* The first of the queries to do.
LEMMA HeadIn ==
    ASSUME NEW S, NEW s \in Seq(S), s # <<>>
    PROVE  Head(s) \in S
BY SMT

\* The outcomes of a poll.
LEMMA PollValue ==
    ASSUME Typed
    PROVE  Poll \in Errors \ {"panic"}
BY DEF Poll, Errors

\* The frame a call goes on with.
LEMMA GotoFrame ==
    ASSUME NEW t \in Threads, Typed, NEW f \in Frames, NEW pc \in PCs, Goto(t, f, pc)
    PROVE  /\ Others(t) /\ frame'[t].pc = pc /\ frame'[t].kind = f.kind
           /\ frame'[t].todo = f.todo /\ frame'[t].done = f.done /\ frame'[t].total = f.total
           /\ frame'[t].id = f.id /\ frame'[t].checkpoint = f.checkpoint
           /\ frame'[t].verdict = f.verdict /\ frame'[t].error = f.error
           /\ frame'[t].outcome = f.outcome /\ frame'[t].asked = f.asked
           /\ frame'[t].answers = f.answers
<1> DEFINE g == [f EXCEPT !.pc = pc]
<1>1. /\ g \in Frames /\ g.pc = pc /\ g.kind = f.kind /\ g.todo = f.todo /\ g.done = f.done
      /\ g.total = f.total /\ g.id = f.id /\ g.checkpoint = f.checkpoint
      /\ g.verdict = f.verdict /\ g.error = f.error /\ g.outcome = f.outcome
      /\ g.asked = f.asked /\ g.answers = f.answers
  BY DEF Frames
<1>2. frame \in [Threads -> Frames]  BY DEF Typed
<1>3. frame' = [frame EXCEPT ![t] = g]  BY DEF Goto
<1> HIDE DEF g
<1>4. Others(t) /\ frame'[t] = g  BY <1>1, <1>2, <1>3 DEF Others
<1>5. QED  BY <1>1, <1>4

\* The frame of a thread that makes no call.
LEMMA IdleFields ==
    /\ IdleFrame \in Frames /\ IdleFrame.pc = "idle" /\ IdleFrame.kind = "none"
    /\ IdleFrame.done = <<>> /\ IdleFrame.error = "none" /\ IdleFrame.outcome = "none"
<1>1. Root \in Tableaux  BY DEF Root, Tableaux, Subjects
<1>2. <<>> \in Seq(Subjects) /\ <<>> \in Seq(Verdicts) /\ 0 \in Nat  BY SMT
<1>3. /\ "idle" \in PCs /\ "none" \in Checks \cup {"reset", "drain", "close", "none"}
      /\ "none" \in Verdicts \cup {"none"} /\ "none" \in Errors /\ "none" \in Outcomes
  BY DEF PCs, Errors, Outcomes
<1>4. QED  BY <1>1, <1>2, <1>3 DEF Frames, IdleFrame

\* The frame a call leaves behind.
LEMMA FinishFrame ==
    ASSUME NEW t \in Threads, Typed, NEW outcome \in Outcomes, NEW answers \in Seq(Verdicts),
           Finish(t, outcome, answers)
    PROVE  /\ Others(t) /\ frame'[t].pc = "idle" /\ frame'[t].outcome = outcome
           /\ frame'[t].answers = answers
<1>1. frame \in [Threads -> Frames] /\ frame[t].asked \in Seq(Subjects)  BY DEF Typed, Frames
<1>2. PICK asked \in Seq(Subjects) : asked = frame[t].asked  BY <1>1
<1>3. PICK i \in Frames : i = IdleFrame /\ i.pc = "idle"  BY IdleFields
<1> DEFINE g == [i EXCEPT !.outcome = outcome, !.asked = asked, !.answers = answers]
<1>4. g \in Frames /\ g.pc = "idle" /\ g.outcome = outcome /\ g.answers = answers
  BY <1>3 DEF Frames
<1>5. frame' = [frame EXCEPT ![t] = g]  BY <1>2, <1>3 DEF Finish
<1> HIDE DEF g
<1>6. QED  BY <1>1, <1>4, <1>5 DEF Others

\* What AbortWith leaves of a check.
LEMMA AbortFrame ==
    ASSUME NEW t \in Threads, IInv, frame[t].pc \in Running, NEW error \in Errors,
           AbortWith(t, frame[t], error), drained' = drained
    PROVE  /\ Others(t) /\ owned' \in Ledgers /\ frame'[t].pc = "unlock" /\ Held(t)
           /\ frame'[t].outcome # "ok" /\ frame'[t].error = error
           /\ \/ error = "panic" /\ owned' = owned
              \/ /\ error # "panic" /\ Recorded(owned, owned', frame[t], drained)
                 /\ owned'.completed = owned.completed /\ owned'.aborted = owned.aborted + 1
<1>1. frame[t] \in Frames /\ owned \in Ledgers /\ drained \in Nat  BY DEF IInv, Typed
<1>2. PICK f \in Frames : f = frame[t]  BY <1>1
<1>3. PICK x \in Outcomes : x = IF error = "panic" THEN "poisoned" ELSE error
  BY DEF Outcomes
<1>4. x # "ok"  BY <1>3 DEF Errors
<1> DEFINE g == [f EXCEPT !.outcome = x, !.error = error]
<1>5. /\ g \in Frames /\ g.kind = f.kind /\ g.asked = f.asked /\ g.total = f.total
      /\ g.outcome = x /\ g.error = error
  BY <1>3 DEF Frames
<1>6. Goto(t, g, "unlock")  BY <1>2, <1>3 DEF AbortWith
<1> HIDE DEF g
<1>7. "unlock" \in PCs /\ Typed  BY DEF PCs, IInv
<1>8. /\ Others(t) /\ frame'[t].pc = "unlock" /\ frame'[t].kind = g.kind
      /\ frame'[t].asked = g.asked /\ frame'[t].total = g.total
      /\ frame'[t].outcome = g.outcome /\ frame'[t].error = g.error
  BY <1>5, <1>6, <1>7, GotoFrame, SMT
<1>9. Held(t)  BY <1>2, <1>5, <1>8 DEF Held
<1>10. CASE error = "panic"
  <2>1. owned' = owned  BY <1>10 DEF AbortWith
  <2>2. QED  BY <1>1, <1>4, <1>5, <1>8, <1>9, <1>10, <2>1
<1>11. CASE error # "panic"
  <2>1. owned' = AbortOperation(owned, frame[t], error)  BY <1>11 DEF AbortWith
  <2>2. Stream(owned, drained) /\ Older(owned, frame[t].id)  BY DEF IInv, Ring
  <2>3. /\ Recorded(owned, owned', frame[t], drained)
        /\ owned'.completed = owned.completed /\ owned'.aborted = owned.aborted + 1
    BY <1>1, <2>1, <2>2, AbortRecords
  <2>4. owned' \in Ledgers  BY <2>3 DEF Recorded
  <2>5. QED  BY <1>4, <1>5, <1>8, <1>9, <1>11, <2>3, <2>4
<1>12. QED  BY <1>10, <1>11

\* Calls refused as busy, and on the way to the mutex.
LEMMA EntryEffect ==
    ASSUME NEW t \in Threads, IInv, UNCHANGED session, stage[t].at = "inside",
           TakeBusy(t) \/ Lock(t)
    PROVE  Calm(t) /\ (Waits(t) \/ Ends(t))
<1>1. /\ Typed /\ frame[t] \in Frames /\ owned \in Ledgers /\ tableau \in Tableaux
      /\ control \in Controls /\ drained \in Nat /\ poisoned \in BOOLEAN
      /\ busy \in BOOLEAN /\ mutex \in Threads \cup {Nobody}
  BY DEF IInv, Typed
<1>2. {"lock", "start"} \subseteq PCs /\ "busy" \in Outcomes /\ <<>> \in Seq(Verdicts)
  BY SMT DEF PCs, Outcomes, Waiting
<1>3. CASE TakeBusy(t) /\ busy
  <2>1. Finish(t, "busy", <<>>)  BY <1>3 DEF TakeBusy
  <2>2. Others(t) /\ frame'[t].pc = "idle" /\ frame'[t].outcome = "busy"
    BY <1>1, <1>2, <2>1, FinishFrame
  <2>3. QED  BY <1>1, <1>3, <2>2 DEF TakeBusy, Calm, Ends
<1>4. CASE TakeBusy(t) /\ ~busy
  <2>1. Goto(t, frame[t], "lock")  BY <1>4 DEF TakeBusy
  <2>2. /\ Others(t) /\ frame'[t].pc = "lock" /\ Held(t) /\ frame'[t].todo = frame[t].todo
        /\ frame'[t].done = frame[t].done /\ frame'[t].error = frame[t].error
    BY <1>1, <1>2, <2>1, GotoFrame, SMT DEF Held
  <2>3. QED  BY <1>1, <1>4, <2>2 DEF TakeBusy, Calm, Waits, Waiting
<1>5. CASE Lock(t)
  <2>1. frame[t].kind # "close" /\ owned.present
    <3>1. frame[t].pc = "lock"  BY <1>5 DEF Lock
    <3>2. frame[t].kind = stage[t].request.kind  BY <3>1 DEF IInv, Threaded, AboutRequest
    <3>3. QED  BY <3>2 DEF IInv, Alone
  <2>2. Goto(t, frame[t], "start") /\ UNCHANGED <<owned, closed>>  BY <1>5, <2>1 DEF Lock
  <2>3. /\ Others(t) /\ frame'[t].pc = "start" /\ Held(t) /\ frame'[t].todo = frame[t].todo
        /\ frame'[t].done = frame[t].done /\ frame'[t].error = frame[t].error
    BY <1>1, <1>2, <2>2, GotoFrame, SMTT(30) DEF Held
  <2>4. QED  BY <1>1, <1>5, <2>2, <2>3 DEF Lock, Calm, Waits, Waiting
<1>6. QED  BY <1>1, <1>3, <1>4, <1>5

\* The mutex is dropped, a panic poisons, the call returns.
LEMMA ExitEffect ==
    ASSUME NEW t \in Threads, IInv, UNCHANGED session,
           Unlock(t) \/ PoisonAfterPanic(t) \/ Release(t)
    PROVE  Calm(t) /\ (Exits(t) \/ Ends(t))
<1>1. /\ Typed /\ frame[t] \in Frames /\ owned \in Ledgers /\ tableau \in Tableaux
      /\ control \in Controls /\ drained \in Nat /\ poisoned \in BOOLEAN
      /\ busy \in BOOLEAN /\ mutex \in Threads \cup {Nobody}
      /\ frame[t].outcome \in Outcomes /\ frame[t].answers \in Seq(Verdicts)
  BY DEF IInv, Typed, Frames
<1>2. {"poison", "release"} \subseteq PCs  BY DEF PCs
<1>3. CASE Unlock(t)
  <2>1. PICK pc \in {"poison", "release"} :
           Goto(t, frame[t], pc) /\ (pc = "poison" \/ frame[t].error # "panic")
    BY <1>3 DEF Unlock
  <2>2. /\ Others(t) /\ frame'[t].pc = pc /\ Held(t) /\ frame'[t].outcome = frame[t].outcome
        /\ frame'[t].answers = frame[t].answers
    BY <1>1, <1>2, <2>1, GotoFrame, SMT DEF Held
  <2>3. QED  BY <1>1, <1>3, <2>1, <2>2 DEF Unlock, Calm, Exits
<1>4. CASE PoisonAfterPanic(t)
  <2>1. Goto(t, frame[t], "release")  BY <1>4 DEF PoisonAfterPanic
  <2>2. /\ Others(t) /\ frame'[t].pc = "release" /\ Held(t)
        /\ frame'[t].outcome = frame[t].outcome /\ frame'[t].answers = frame[t].answers
    BY <1>1, <1>2, <2>1, GotoFrame, SMT DEF Held
  <2>3. QED  BY <1>1, <1>4, <2>2 DEF PoisonAfterPanic, Calm, Exits
<1>5. CASE Release(t)
  <2>1. Finish(t, frame[t].outcome, frame[t].answers)  BY <1>5 DEF Release
  <2>2. /\ Others(t) /\ frame'[t].pc = "idle" /\ frame'[t].outcome = frame[t].outcome
        /\ frame'[t].answers = frame[t].answers
    BY <1>1, <2>1, FinishFrame, SMT
  <2>3. QED  BY <1>1, <1>5, <2>2 DEF Release, Calm, Ends
<1>6. QED  BY <1>3, <1>4, <1>5

\* drain_events.
LEMMA DrainEffect ==
    ASSUME NEW t \in Threads, IInv, UNCHANGED session, Drain(t)
    PROVE  Calm(t) /\ Drains(t)
<1>1. /\ Typed /\ frame[t] \in Frames /\ owned \in Ledgers /\ tableau \in Tableaux
      /\ control \in Controls /\ drained \in Nat /\ poisoned \in BOOLEAN
      /\ busy \in BOOLEAN /\ mutex \in Threads \cup {Nobody}
  BY DEF IInv, Typed
<1>2. PICK f \in Frames : f = frame[t]  BY <1>1
<1> DEFINE g == [f EXCEPT !.outcome = "ok"]
<1>3. /\ g \in Frames /\ g.kind = f.kind /\ g.asked = f.asked /\ g.total = f.total
      /\ g.error = f.error
  BY DEF Frames, Outcomes
<1>4. Goto(t, g, "unlock")  BY <1>2 DEF Drain
<1>5. "unlock" \in PCs  BY DEF PCs
<1> HIDE DEF g
<1>6. Others(t) /\ frame'[t].pc = "unlock" /\ Held(t) /\ frame'[t].error = frame[t].error
  BY <1>1, <1>2, <1>3, <1>4, <1>5, GotoFrame, SMTT(30) DEF Held
<1>7. PICK o \in Ledgers : o = owned  BY <1>1
<1>8. owned' = [o EXCEPT !.events = <<>>] /\ drained' = drained + Len(o.events)
  BY <1>7 DEF Drain
<1>9. /\ owned' \in Ledgers /\ SameLedger(o, owned') /\ owned'.events = <<>>
      /\ owned'.dropped = o.dropped /\ owned'.nextSequence = o.nextSequence
  <2>1. owned' = [o EXCEPT !.events = <<>>]  BY <1>8
  <2>2. PICK e \in Seq(Events) : e = <<>>
    <3>1. <<>> \in Seq(Events)  BY SMT
    <3>2. QED  BY <3>1
  <2>3. owned' = [o EXCEPT !.events = e]  BY <2>1, <2>2
  <2>4. QED  BY <2>2, <2>3 DEF Ledgers, SameLedger
<1>10. drained' \in Nat  BY <1>1, <1>7, <1>8, SMT DEF Ledgers
<1>11. QED  BY <1>1, <1>6, <1>7, <1>8, <1>9, <1>10 DEF Drain, Calm, Drains, gate

\* start_operation takes the next number; the ring is as it was.
LEMMA StartLedger ==
    ASSUME NEW o \in Ledgers, NEW d \in Nat, Stream(o, d), Older(o, o.nextOperation)
    PROVE  LET p == StartOperation(o)
           IN  /\ p \in Ledgers /\ p.present = o.present /\ p.permanent = o.permanent
               /\ p.started = o.started + 1 /\ p.nextOperation = o.nextOperation + 1
               /\ p.completed = o.completed /\ p.aborted = o.aborted /\ p.events = o.events
               /\ p.dropped = o.dropped /\ p.nextSequence = o.nextSequence
               /\ Stream(p, d) /\ Older(p, o.nextOperation)
<1> DEFINE p == StartOperation(o)
<1>1. PICK n \in Nat : n = o.nextOperation + 1  BY SMT DEF Ledgers
<1>2. PICK s \in Nat : s = o.started + 1  BY SMT DEF Ledgers
<1>3. p = [o EXCEPT !.nextOperation = n, !.started = s]  BY <1>1, <1>2 DEF StartOperation
<1> HIDE DEF p
<1>4. /\ p \in Ledgers /\ p.present = o.present /\ p.permanent = o.permanent
      /\ p.started = s /\ p.nextOperation = n
      /\ p.completed = o.completed /\ p.aborted = o.aborted /\ p.events = o.events
      /\ p.dropped = o.dropped /\ p.nextSequence = o.nextSequence
  BY <1>3 DEF Ledgers
<1>5. Stream(p, d) /\ Older(p, o.nextOperation)  BY <1>4 DEF Stream, Older
<1>6. QED  BY <1>1, <1>2, <1>4, <1>5 DEF p

\* reset_query_state, and a batch over the limit.
LEMMA SettleEffect ==
    ASSUME NEW t \in Threads, IInv, UNCHANGED session,
           \/ Reset(t)
           \/ Start(t) /\ frame[t].kind = "batch" /\ frame[t].total > MaxBatchQueries
    PROVE  Calm(t) /\ Settles(t)
<1>1. /\ Typed /\ frame[t] \in Frames /\ owned \in Ledgers /\ tableau \in Tableaux
      /\ control \in Controls /\ drained \in Nat /\ poisoned \in BOOLEAN
      /\ busy \in BOOLEAN /\ mutex \in Threads \cup {Nobody} /\ owned.nextOperation \in Nat
      /\ owned.completed \in Nat /\ owned.aborted \in Nat
      /\ Stream(owned, drained) /\ Older(owned, owned.nextOperation)
  BY DEF IInv, Typed, Ring, Ledgers
<1> DEFINE n == owned.nextOperation
           f == [frame[t] EXCEPT !.id = n]
           o == StartOperation(owned)
<1>2. /\ f \in Frames /\ f.id = n /\ f.kind = frame[t].kind /\ f.asked = frame[t].asked
      /\ f.total = frame[t].total /\ f.error = frame[t].error /\ f.done = frame[t].done
  <2>1. PICK h \in Frames : h = frame[t]  BY <1>1
  <2>2. PICK m \in Nat : m = owned.nextOperation  BY <1>1
  <2> DEFINE k == [h EXCEPT !.id = m]
  <2>3. /\ k \in Frames /\ k.id = m /\ k.kind = h.kind /\ k.asked = h.asked
        /\ k.total = h.total /\ k.error = h.error /\ k.todo = h.todo /\ k.done = h.done
    BY ZenonT(60) DEF Frames
  <2>4. f = k  BY <2>1, <2>2
  <2> HIDE DEF f, k
  <2>5. QED  BY <2>1, <2>2, <2>3, <2>4
<1>3. /\ o \in Ledgers /\ o.present = owned.present /\ o.permanent = owned.permanent
      /\ o.started = owned.started + 1 /\ o.nextOperation = owned.nextOperation + 1
      /\ o.completed = owned.completed /\ o.aborted = owned.aborted
      /\ Stream(o, drained) /\ Older(o, n)
  BY <1>1, StartLedger
<1>4. {"ok", "invariant", "resource"} \subseteq Outcomes /\ "unlock" \in PCs
      /\ {"invariant", "resource"} \subseteq Errors
  BY ZenonT(30) DEF Outcomes, Errors, PCs
<1>5. ASSUME NEW x \in Outcomes, Goto(t, [f EXCEPT !.outcome = x], "unlock")
      PROVE  /\ Others(t) /\ frame'[t].pc = "unlock" /\ Held(t)
             /\ frame'[t].error = frame[t].error /\ frame'[t].outcome = x
  <2> DEFINE g == [f EXCEPT !.outcome = x]
  <2>1. /\ g \in Frames /\ g.kind = f.kind /\ g.asked = f.asked /\ g.total = f.total
        /\ g.error = f.error /\ g.outcome = x
    <3> HIDE DEF f
    <3>1. PICK h \in Frames : h = f  BY <1>2
    <3> DEFINE k == [h EXCEPT !.outcome = x]
    <3>2. /\ k \in Frames /\ k.kind = h.kind /\ k.asked = h.asked /\ k.total = h.total
          /\ k.error = h.error /\ k.outcome = x
      BY DEF Frames
    <3>3. g = k  BY <3>1
    <3> HIDE DEF g, k
    <3>4. QED  BY <3>1, <3>2, <3>3
  <2>2. Goto(t, g, "unlock")  BY <1>5
  <2> HIDE DEF f, g
  <2>3. QED  BY <1>1, <1>2, <1>4, <2>1, <2>2, GotoFrame, SMTT(30) DEF Held
<1>6. ASSUME Recorded(o, owned', f, drained),
             owned'.completed + owned'.aborted = o.completed + o.aborted + 1
      PROVE  /\ owned' \in Ledgers /\ owned'.present = owned.present
             /\ owned'.permanent = owned.permanent /\ owned'.started = owned.started + 1
             /\ owned'.nextOperation = owned.nextOperation + 1
             /\ owned'.completed + owned'.aborted = owned.completed + owned.aborted + 1
             /\ Stream(owned', drained) /\ Older(owned', owned.nextOperation + 1)
  <2> HIDE DEF f, o
  <2>1. QED  BY <1>2, <1>3, <1>6 DEF Recorded
<1>7. CASE Reset(t)
  <2>1. /\ frame[t].pc = "start" /\ frame[t].kind = "reset"
        /\ tableau' = [tableau EXCEPT !.query = Permanent]
        /\ UNCHANGED <<closed, busy, mutex, truth, control, calls, drained>>
    BY <1>1, <1>2, <1>7 DEF Reset, Frames
  <2>2. tableau' \in Tableaux /\ (AtRoot(tableau) => AtRoot(tableau'))
    BY <1>1, <2>1 DEF Tableaux, AtRoot, Subjects
  <2>3. CASE /\ owned' = CompleteOperation(o, f) /\ UNCHANGED poisoned
             /\ Goto(t, [f EXCEPT !.outcome = "ok"], "unlock")
    <3>1. f.kind = "reset" /\ f.total = 1 /\ f.done = <<>>
      <4>1. frame[t].total = 1 /\ frame[t].done = <<>>
        BY <2>1 DEF IInv, Threaded, AboutRequest, Waiting
      <4>2. QED  BY <1>2, <2>1, <4>1
    <3>2. /\ Others(t) /\ frame'[t].pc = "unlock" /\ Held(t)
          /\ frame'[t].error = frame[t].error
      BY <1>4, <1>5, <2>3
    <3> HIDE DEF f, o, n
    <3>3. /\ Recorded(o, owned', f, drained) /\ owned'.completed = o.completed + 1
          /\ owned'.aborted = o.aborted
      BY <1>1, <1>2, <1>3, <2>3, <3>1, CompleteRecords, ZenonT(30)
    <3>4. owned'.completed + owned'.aborted = o.completed + o.aborted + 1
      BY <1>1, <1>3, <3>3, SMTT(30)
    <3>5. QED  BY <1>1, <1>6, <2>1, <2>2, <2>3, <3>2, <3>3, <3>4 DEF Calm, Settles, Checks
  <2>4. CASE /\ owned' = AbortOperation(o, f, "invariant") /\ poisoned' = TRUE
             /\ Goto(t, [f EXCEPT !.outcome = "invariant"], "unlock")
    <3>1. /\ Others(t) /\ frame'[t].pc = "unlock" /\ Held(t)
          /\ frame'[t].error = frame[t].error /\ frame'[t].outcome = "invariant"
      BY <1>4, <1>5, <2>4
    <3> HIDE DEF f, o, n
    <3>2. /\ Recorded(o, owned', f, drained) /\ owned'.completed = o.completed
          /\ owned'.aborted = o.aborted + 1
      BY <1>1, <1>2, <1>3, <1>4, <2>4, AbortRecords, ZenonT(60)
    <3>3. owned'.completed + owned'.aborted = o.completed + o.aborted + 1  BY <1>1, <1>3, <3>2, SMT
    <3>4. QED  BY <1>1, <1>6, <2>1, <2>2, <2>4, <3>1, <3>2, <3>3 DEF Calm, Settles
  <2>5. QED  BY <1>7, <2>3, <2>4 DEF Reset
<1>8. CASE Start(t) /\ frame[t].kind = "batch" /\ frame[t].total > MaxBatchQueries
  <2>1. /\ frame[t].pc = "start" /\ owned' = AbortOperation(o, f, "resource")
        /\ Goto(t, [f EXCEPT !.outcome = "resource"], "unlock")
        /\ UNCHANGED <<gate, tableau, truth, control, calls, drained>>
    BY <1>1, <1>2, <1>8 DEF Start, Frames
  <2>2. /\ Others(t) /\ frame'[t].pc = "unlock" /\ Held(t)
        /\ frame'[t].error = frame[t].error /\ frame'[t].outcome = "resource"
    BY <1>4, <1>5, <2>1
  <2> HIDE DEF f, o, n
  <2>3. /\ Recorded(o, owned', f, drained) /\ owned'.completed = o.completed
        /\ owned'.aborted = o.aborted + 1
    BY <1>1, <1>2, <1>3, <1>4, <2>1, AbortRecords, SMTT(30)
  <2>4. owned'.completed + owned'.aborted = o.completed + o.aborted + 1  BY <1>1, <1>3, <2>3, SMT
  <2>5. QED  BY <1>1, <1>6, <2>1, <2>2, <2>3, <2>4 DEF Calm, Settles, gate
<1>9. QED  BY <1>7, <1>8

\* A check starts.
LEMMA StartEffect ==
    ASSUME NEW t \in Threads, IInv, UNCHANGED session, Start(t),
           ~(frame[t].kind = "batch" /\ frame[t].total > MaxBatchQueries)
    PROVE  Calm(t) /\ Starts(t)
<1>1. /\ Typed /\ frame[t] \in Frames /\ owned \in Ledgers /\ tableau \in Tableaux
      /\ control \in Controls /\ drained \in Nat /\ poisoned \in BOOLEAN
      /\ busy \in BOOLEAN /\ mutex \in Threads \cup {Nobody} /\ owned.nextOperation \in Nat
      /\ Stream(owned, drained) /\ Older(owned, owned.nextOperation)
  BY DEF IInv, Typed, Ring, Ledgers
<1> DEFINE f == [frame[t] EXCEPT !.id = owned.nextOperation]
<1>2. /\ f \in Frames /\ f.id = owned.nextOperation /\ f.kind = frame[t].kind
      /\ f.asked = frame[t].asked /\ f.total = frame[t].total /\ f.error = frame[t].error
      /\ f.todo = frame[t].todo /\ f.done = frame[t].done
  <2>1. PICK h \in Frames : h = frame[t]  BY <1>1
  <2>2. PICK m \in Nat : m = owned.nextOperation  BY <1>1
  <2> DEFINE k == [h EXCEPT !.id = m]
  <2>3. /\ k \in Frames /\ k.id = m /\ k.kind = h.kind /\ k.asked = h.asked
        /\ k.total = h.total /\ k.error = h.error /\ k.todo = h.todo /\ k.done = h.done
    BY DEF Frames
  <2>4. f = k  BY <2>1, <2>2
  <2> HIDE DEF f, k
  <2>5. QED  BY <2>1, <2>2, <2>3, <2>4
<1>3. /\ frame[t].pc = "start" /\ frame[t].kind \in Checks /\ owned' = StartOperation(owned)
      /\ Goto(t, f, "next") /\ UNCHANGED <<gate, tableau, truth, control, calls, drained>>
  BY <1>1, <1>2 DEF Start, Frames, Checks
<1>4. "next" \in PCs  BY ZenonT(30) DEF PCs, Running
<1> HIDE DEF f
<1>5. /\ Others(t) /\ frame'[t].pc = "next" /\ Held(t) /\ frame'[t].todo = frame[t].todo
      /\ frame'[t].done = frame[t].done /\ frame'[t].error = frame[t].error
      /\ frame'[t].id = owned.nextOperation
  BY <1>1, <1>2, <1>3, <1>4, GotoFrame, SMTT(30) DEF Held
<1>6. /\ owned' \in Ledgers /\ owned'.present = owned.present
      /\ owned'.permanent = owned.permanent
      /\ owned'.started = owned.started + 1 /\ owned'.nextOperation = owned.nextOperation + 1
      /\ owned'.completed = owned.completed /\ owned'.aborted = owned.aborted
      /\ owned'.events = owned.events /\ owned'.dropped = owned.dropped
      /\ owned'.nextSequence = owned.nextSequence
  BY <1>1, <1>3, StartLedger
<1>7. QED  BY <1>1, <1>3, <1>5, <1>6 DEF Calm, Starts, gate
=============================================================================
