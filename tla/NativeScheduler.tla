--------------------------- MODULE NativeScheduler ---------------------------
(***************************************************************************)
(* SessionScheduler of the native engine (session.rs, cancel.rs): several  *)
(* threads hold clones of one scheduler, which gates them with three       *)
(* atomics (closed, busy, poisoned) and a mutex, runs one transaction per  *)
(* check on the tableau, and keeps a bounded ring of events.               *)
(*                                                                         *)
(* The tableau is what the transaction needs to know of it: the overlay    *)
(* query installed in it, whether a run has left it in a state that is not *)
(* a committed root, and which answer a complete run gives.  A run on a    *)
(* tableau that is not at a root may give any answer.                      *)
(***************************************************************************)
EXTENDS Naturals, Sequences, FiniteSets

CONSTANTS Threads, Queries, Permanent, Nobody,
          EventCapacity, MaxBatchQueries, MaxCalls, MaxSignals, Faults

ASSUME SchedulerAssumption ==
    /\ EventCapacity \in Nat /\ EventCapacity >= 2
    /\ MaxBatchQueries \in Nat \ {0} /\ MaxCalls \in Nat /\ MaxSignals \in Nat
    /\ Nobody \notin Threads /\ Permanent \notin Queries
    /\ Faults \subseteq {"wire", "resource", "invariant", "panic", "finish"}

VARIABLES closed, busy, poisoned,     \* LifecycleControl
          mutex, owned,               \* Mutex<Option<SessionOwned>>
          tableau, truth,             \* ProductionTableau, and what it decides
          control,                    \* CancellationState
          frame, calls, drained

gate == <<closed, busy, poisoned, mutex>>
vars == <<gate, owned, tableau, truth, control, frame, calls, drained>>

\* QueryKey/SessionQuery are the members of Queries; Permanent stands for
\* the check without a query.
Subjects == Queries \cup {Permanent}
Verdicts == {"sat", "unsat"}

\* What a caller can ask of the scheduler: kind and the queries of it.
Requests ==
    [kind : {"permanent"}, queries : {<<Permanent>>}]
    \cup [kind : {"query"}, queries : {<<q>> : q \in Queries}]
    \cup [kind : {"batch"},
          queries : UNION {[1 .. n -> Queries] : n \in 0 .. MaxBatchQueries + 1}]
    \cup [kind : {"reset", "drain", "close"}, queries : {<<>>}]

Root == [query |-> Permanent, base |-> "loaded", atRoot |-> TRUE]

IdleFrame == [pc |-> "idle", kind |-> "none", todo |-> <<>>, done |-> <<>>, total |-> 0,
              id |-> 0, checkpoint |-> Root, verdict |-> "none", error |-> "none",
              outcome |-> "none", asked |-> <<>>, answers |-> <<>>]

Init ==
    /\ closed = FALSE /\ busy = FALSE /\ poisoned = FALSE /\ mutex = Nobody
    /\ owned = [present |-> TRUE, permanent |-> "unknown", started |-> 0, completed |-> 0,
                aborted |-> 0, events |-> <<>>, dropped |-> 0, nextOperation |-> 1,
                nextSequence |-> 1]
    /\ tableau = Root
    /\ truth \in {f \in [Subjects -> Verdicts] :
                    f[Permanent] = "unsat" => \A q \in Queries : f[q] = "unsat"}
    /\ control = [interrupted |-> FALSE, expired |-> FALSE, exceeded |-> FALSE]
    /\ frame = [t \in Threads |-> IdleFrame]
    /\ calls = 0
    /\ drained = 0

---------------------------------------------------------------------------
(* CancellationState *)

\* poll: the deadline is looked at first, then the interrupt, then memory.
Poll == IF control.expired THEN "timeout"
        ELSE IF control.interrupted THEN "cancelled"
        ELSE IF control.exceeded THEN "resource" ELSE "none"

\* MaxSignals bounds the interrupts and expired deadlines of a behaviour.
Signalled == {f \in {"interrupted", "expired"} : control[f]}

\* interrupt from any thread; a second one changes nothing.
Interrupt ==
    /\ ~control.interrupted /\ Cardinality(Signalled) < MaxSignals
    /\ control' = [control EXCEPT !.interrupted = TRUE]
    /\ UNCHANGED <<gate, owned, tableau, truth, frame, calls, drained>>

\* The deadline of the running operation passes.
Expire ==
    /\ ~control.expired /\ Cardinality(Signalled) < MaxSignals
    /\ control' = [control EXCEPT !.expired = TRUE]
    /\ UNCHANGED <<gate, owned, tableau, truth, frame, calls, drained>>

\* reset: "the caller guarantees that the previous operation has returned".
ResetControl ==
    /\ \A t \in Threads : frame[t].pc = "idle"
    /\ control # [interrupted |-> FALSE, expired |-> FALSE, exceeded |-> FALSE]
    /\ control' = [interrupted |-> FALSE, expired |-> FALSE, exceeded |-> FALSE]
    /\ UNCHANGED <<gate, owned, tableau, truth, frame, calls, drained>>

---------------------------------------------------------------------------
(* SessionOwned: operation ledger and event ring *)

Event(f, kind, completed, error) ==
    [sequence |-> 0, operation |-> f.id, kind |-> kind, completed |-> completed,
     total |-> f.total, error |-> error]

Numbered(value, n) == [value EXCEPT !.sequence = n]

\* push_event, once for each of the values: numbers the event; a full ring loses
\* its oldest and counts it.
PushEvents(o, values) ==
    LET numbered == [i \in 1 .. Len(values) |-> Numbered(values[i], o.nextSequence + i - 1)]
        pushed   == o.events \o numbered
        lost     == IF Len(pushed) > EventCapacity THEN Len(pushed) - EventCapacity ELSE 0
    IN  [o EXCEPT !.nextSequence = @ + Len(values),
                  !.events = SubSeq(pushed, lost + 1, Len(pushed)),
                  !.dropped = @ + lost]

StartOperation(o) ==
    [o EXCEPT !.nextOperation = @ + 1, !.started = @ + 1]

\* complete_operation: all events of the operation are published together.
CompleteOperation(o, f) ==
    LET checks == [i \in 1 .. Len(f.done) |-> Event(f, "check", i, "none")]
        resets == IF f.kind = "reset" THEN <<Event(f, "reset", f.total, "none")>> ELSE <<>>
    IN  [PushEvents(o, <<Event(f, "started", 0, "none")>> \o checks \o resets
                    \o <<Event(f, "completed", f.total, "none")>>)
         EXCEPT !.completed = @ + 1]

\* Mutants: the terminal event comes alone; the abort is not counted.
AbortWithoutStart(o, f, error) ==
    [PushEvents(o, <<Event(f, "aborted", 0, error)>>) EXCEPT !.aborted = @ + 1]

AbortOperation(o, f, error) ==
    [PushEvents(o, <<Event(f, "started", 0, "none"), Event(f, "aborted", 0, error)>>)
     EXCEPT !.aborted = @ + 1]

---------------------------------------------------------------------------
(* The gate: preflight, run_locked, BusyGuard and close *)

Finish(t, outcome, answers) ==
    frame' = [frame EXCEPT ![t] = [IdleFrame EXCEPT !.outcome = outcome, !.asked = frame[t].asked,
                                                    !.answers = answers]]

Goto(t, f, pc) == frame' = [frame EXCEPT ![t] = [f EXCEPT !.pc = pc]]

\* Mutant: preflight does not look at the poison bit.
PreflightPoisoned(t, r) ==
    /\ frame[t].pc = "idle"
    /\ IF closed THEN Finish(t, "disposed", <<>>)
       ELSE Goto(t, [IdleFrame EXCEPT !.kind = r.kind, !.todo = r.queries, !.asked = r.queries,
                                      !.total = IF r.kind = "reset" THEN 1 ELSE Len(r.queries)],
                 "busy")
    /\ UNCHANGED <<gate, owned, tableau, truth, control, drained>>

\* The loads of preflight, in order: closed, then poisoned.  close loads
\* closed only, and answers Ok when it is set.
Preflight(t, r) ==
    /\ frame[t].pc = "idle"
    /\ IF closed THEN Finish(t, IF r.kind = "close" THEN "ok" ELSE "disposed", <<>>)
       ELSE IF poisoned /\ r.kind # "close" THEN Finish(t, "poisoned", <<>>)
       ELSE Goto(t, [IdleFrame EXCEPT !.kind = r.kind, !.todo = r.queries, !.asked = r.queries,
                                      !.total = IF r.kind = "reset" THEN 1 ELSE Len(r.queries)],
                 "busy")
    /\ UNCHANGED <<gate, owned, tableau, truth, control, drained>>

\* busy.compare_exchange(false, true)
TakeBusy(t) ==
    /\ frame[t].pc = "busy"
    /\ IF busy THEN Finish(t, "busy", <<>>) ELSE Goto(t, frame[t], "lock")
    /\ busy' = TRUE
    /\ UNCHANGED <<closed, poisoned, mutex, owned, tableau, truth, control, calls, drained>>

\* owned.lock(), then slot.as_mut() or, in close, slot.take().
Lock(t) ==
    LET f == frame[t] IN
    /\ f.pc = "lock" /\ mutex = Nobody
    /\ mutex' = t
    /\ IF f.kind = "close"
       THEN /\ owned' = [owned EXCEPT !.present = FALSE]
            /\ closed' = TRUE
            /\ Goto(t, [f EXCEPT !.outcome = "ok"], "unlock")
       ELSE /\ UNCHANGED <<owned, closed>>
            /\ IF owned.present THEN Goto(t, f, "start")
               ELSE Goto(t, [f EXCEPT !.outcome = "disposed"], "unlock")
    /\ UNCHANGED <<busy, poisoned, tableau, truth, control, calls, drained>>

\* drop(slot); a caught panic poisons the session before the guard goes.
Unlock(t) ==
    /\ frame[t].pc = "unlock"
    /\ mutex' = Nobody
    /\ Goto(t, frame[t], IF frame[t].error = "panic" THEN "poison" ELSE "release")
    /\ UNCHANGED <<closed, busy, poisoned, owned, tableau, truth, control, calls, drained>>

PoisonAfterPanic(t) ==
    /\ frame[t].pc = "poison"
    /\ poisoned' = TRUE
    /\ Goto(t, frame[t], "release")
    /\ UNCHANGED <<closed, busy, mutex, owned, tableau, truth, control, calls, drained>>

\* BusyGuard::drop, and the call returns.
Release(t) ==
    /\ frame[t].pc = "release"
    /\ busy' = FALSE
    /\ Finish(t, frame[t].outcome, frame[t].answers)
    /\ UNCHANGED <<closed, poisoned, mutex, owned, tableau, truth, control, calls, drained>>

---------------------------------------------------------------------------
(* The operations *)

\* What ends an operation: an abort record in the ring, or a panic that
\* leaves it without one.
AbortWith(t, f, error) ==
    /\ owned' = IF error = "panic" THEN owned ELSE AbortOperation(owned, f, error)
    /\ Goto(t, [f EXCEPT !.outcome = IF error = "panic" THEN "poisoned" ELSE error,
                         !.error = error], "unlock")

Poisons(error) == error \in {"invariant", "finish"}

\* drain_events empties the ring; reset_query_state drops the overlay and
\* poisons the session when the permanent state fails its invariants.
Drain(t) ==
    LET f == frame[t] IN
    /\ f.pc = "start" /\ f.kind = "drain"
    /\ owned' = [owned EXCEPT !.events = <<>>]
    /\ drained' = drained + Len(owned.events)
    /\ Goto(t, [f EXCEPT !.outcome = "ok"], "unlock")
    /\ UNCHANGED <<gate, tableau, truth, control, calls>>

Reset(t) ==
    LET f == [frame[t] EXCEPT !.id = owned.nextOperation]
        o == StartOperation(owned)
    IN
    /\ f.pc = "start" /\ f.kind = "reset"
    /\ tableau' = [tableau EXCEPT !.query = Permanent]
    /\ \/ /\ tableau.atRoot
          /\ owned' = CompleteOperation(o, f)
          /\ Goto(t, [f EXCEPT !.outcome = "ok"], "unlock")
          /\ UNCHANGED poisoned
       \/ /\ "invariant" \in Faults \/ ~tableau.atRoot
          /\ owned' = AbortOperation(o, f, "invariant")
          /\ Goto(t, [f EXCEPT !.outcome = "invariant"], "unlock")
          /\ poisoned' = TRUE
    /\ UNCHANGED <<closed, busy, mutex, truth, control, calls, drained>>

\* check_permanent, check_query and check_many start alike; a batch over the
\* limit is refused before anything runs.
Start(t) ==
    LET f == [frame[t] EXCEPT !.id = owned.nextOperation]
        o == StartOperation(owned)
    IN
    /\ f.pc = "start" /\ f.kind \in {"permanent", "query", "batch"}
    /\ IF f.kind = "batch" /\ f.total > MaxBatchQueries
       THEN /\ owned' = AbortOperation(o, f, "resource")
            /\ Goto(t, [f EXCEPT !.outcome = "resource"], "unlock")
       ELSE /\ owned' = o
            /\ Goto(t, f, "next")
    /\ UNCHANGED <<gate, tableau, truth, control, calls, drained>>

\* Mutant: the verdict of the ontology is taken for that of a query.
KnownForAll(subject) == owned.permanent

\* A verdict known without a run: the cached answer of the permanent check,
\* and "unsat" for every query once that answer is "unsat".
Known(subject) ==
    IF subject = Permanent THEN owned.permanent
    ELSE IF owned.permanent = "unsat" THEN "unsat" ELSE "unknown"

\* The next query of the operation: the poll, then the cached verdict, or
\* the memory estimate and operation_checkpoint.
BeginTransaction(t) ==
    LET f == frame[t]
        known == Known(Head(f.todo))
    IN
    /\ f.pc = "next" /\ f.todo # <<>>
    /\ UNCHANGED <<closed, busy, mutex, tableau, truth, calls, drained>>
    /\ \/ /\ Poll # "none"
          /\ AbortWith(t, f, Poll)
          /\ UNCHANGED <<poisoned, control>>
       \/ /\ Poll = "none" /\ known # "unknown"
          /\ Goto(t, [f EXCEPT !.todo = Tail(@), !.done = Append(@, known)], "next")
          /\ UNCHANGED <<poisoned, control, owned>>
       \/ /\ Poll = "none" /\ known = "unknown" /\ "resource" \in Faults
          /\ control' = [control EXCEPT !.exceeded = TRUE]
          /\ AbortWith(t, f, "resource")
          /\ UNCHANGED poisoned
       \/ /\ Poll = "none" /\ known = "unknown"
          /\ UNCHANGED control
          /\ IF tableau.query # Permanent
             THEN poisoned' = TRUE /\ AbortWith(t, f, "invariant")
             ELSE /\ Goto(t, [f EXCEPT !.checkpoint = tableau], "install")
                  /\ UNCHANGED <<poisoned, owned>>

\* install_query loads the combined ontology into an overlay of its own; a
\* refused one leaves the permanent state alone.
InstallQuery(t) ==
    LET f == frame[t] IN
    /\ f.pc = "install"
    /\ \/ /\ Poll # "none" /\ Head(f.todo) # Permanent
          /\ Goto(t, [f EXCEPT !.error = Poll], "recover")
          /\ UNCHANGED tableau
       \/ /\ "wire" \in Faults /\ Head(f.todo) # Permanent
          /\ Goto(t, [f EXCEPT !.error = "wire"], "recover")
          /\ UNCHANGED tableau
       \/ /\ tableau' = [tableau EXCEPT !.query = Head(f.todo)]
          /\ Goto(t, f, "drive")
    /\ UNCHANGED <<gate, owned, truth, control, calls, drained>>

\* drive_tableau: saturates the active state.  The permanent run works on
\* the permanent state itself, a query run on its overlay.
DriveTableau(t) ==
    LET f == frame[t]
        subject == Head(f.todo)
        worked == [tableau EXCEPT !.atRoot = @ /\ subject # Permanent]
    IN
    /\ f.pc = "drive"
    /\ UNCHANGED <<gate, truth, control, calls, drained>>
    /\ \/ /\ tableau' = worked /\ UNCHANGED owned
          /\ \E v \in IF f.checkpoint.atRoot THEN {truth[subject]} ELSE Verdicts :
                Goto(t, [f EXCEPT !.verdict = v], "finish")
       \/ /\ tableau' = worked /\ UNCHANGED owned
          /\ \E e \in ({"resource", "invariant"} \cap Faults) \cup ({Poll} \ {"none"}) :
                Goto(t, [f EXCEPT !.error = e], "recover")
       \/ /\ "panic" \in Faults
          /\ tableau' = worked
          /\ AbortWith(t, f, "panic")

\* The last poll of run_transaction and finish_operation: a query run drops
\* its overlay, a permanent run without live branches becomes the root.
FinishOperation(t) ==
    LET f == frame[t]
        subject == Head(f.todo)
        committed == [query |-> Permanent, base |-> "committed", atRoot |-> TRUE]
    IN
    /\ f.pc = "finish"
    /\ UNCHANGED <<closed, busy, mutex, truth, control, calls, drained>>
    /\ \/ /\ Poll # "none"
          /\ Goto(t, [f EXCEPT !.error = Poll, !.verdict = "none"], "recover")
          /\ UNCHANGED <<poisoned, owned, tableau>>
       \/ /\ Poll = "none"
          /\ tableau' \in {f.checkpoint} \cup (IF subject = Permanent THEN {committed} ELSE {})
          /\ Goto(t, [f EXCEPT !.todo = Tail(@), !.done = Append(@, f.verdict)], "next")
          /\ UNCHANGED <<poisoned, owned>>
       \/ /\ Poll = "none" /\ "finish" \in Faults
          /\ tableau' = [tableau EXCEPT !.query = Permanent, !.atRoot = FALSE]
          /\ poisoned' = TRUE
          /\ AbortWith(t, f, "finish")

\* Mutant: the error is returned without rolling back.
RecoverInPlace(t) ==
    LET f == frame[t] IN
    /\ f.pc = "recover"
    /\ poisoned' = (poisoned \/ Poisons(f.error))
    /\ AbortWith(t, f, f.error)
    /\ UNCHANGED <<closed, busy, mutex, tableau, truth, control, calls, drained>>

\* recover: back to the checkpoint, or the session is poisoned; an invariant
\* error poisons it even when the checkpoint was restored.
Recover(t) ==
    LET f == frame[t] IN
    /\ f.pc = "recover"
    /\ \/ /\ tableau' = f.checkpoint
          /\ poisoned' = (poisoned \/ Poisons(f.error))
          /\ AbortWith(t, f, f.error)
       \/ /\ "finish" \in Faults
          /\ tableau' = [tableau EXCEPT !.query = Permanent, !.atRoot = FALSE]
          /\ poisoned' = TRUE
          /\ AbortWith(t, f, "finish")
    /\ UNCHANGED <<closed, busy, mutex, truth, control, calls, drained>>

\* Every query answered: the last poll of a batch, then complete_operation
\* and, for a computed permanent check, the cached verdict.
Complete(t) ==
    LET f == frame[t] IN
    /\ f.pc = "next" /\ f.todo = <<>>
    /\ IF f.kind = "batch" /\ Poll # "none"
       THEN AbortWith(t, f, Poll)
       ELSE /\ owned' = [CompleteOperation(owned, f) EXCEPT
                            !.permanent = IF f.kind = "permanent" THEN Head(f.done) ELSE @]
            /\ Goto(t, [f EXCEPT !.outcome = "ok", !.answers = f.done], "unlock")
    /\ UNCHANGED <<gate, tableau, truth, control, calls, drained>>

---------------------------------------------------------------------------

\* The steps of a call once it is inside the gate.
Operation(t) ==
    \/ Drain(t) \/ Reset(t) \/ Start(t)
    \/ BeginTransaction(t) \/ InstallQuery(t) \/ DriveTableau(t)
    \/ FinishOperation(t) \/ Recover(t) \/ Complete(t)

Step(t) ==
    \/ TakeBusy(t) \/ Lock(t) \/ Operation(t)
    \/ Unlock(t) \/ PoisonAfterPanic(t) \/ Release(t)
=============================================================================
