--------------------------- MODULE ReasonerFacade ---------------------------
(***************************************************************************)
(* The public Reasoner (facade.py) as several threads use one instance:    *)
(* the two locks, the operation protocol, cooperative cancellation through *)
(* the shared token and the native observers (events.py), buffered axiom   *)
(* updates and their transactional flush, precomputation and disposal.     *)
(*                                                                         *)
(* A thread is in one call at a time; frame[t].pc is the next lock region, *)
(* token access or backend call of that call.  Every such region is one    *)
(* step: the regions are what the interpreter can interleave.  The one     *)
(* region with a step inside it is interrupt(), which keeps the state lock *)
(* while it sets the token and then signals the observers.                 *)
(*                                                                         *)
(* An ontology is a set of axioms and its compiled program is that set     *)
(* without the Inert axioms (annotations, declarations): the backends      *)
(* accept a delta in place only when the program does not change.          *)
(***************************************************************************)
EXTENDS Integers, Sequences, FiniteSets

\* A workload is what the callers of one reasoner do: the operations they call,
\* how many of them call at once, how many calls they make in all, and whether
\* changes are buffered.
CONSTANTS Threads, Axioms, Inert, Loaded, InferenceTypes, Backends,
          Workloads, MaxSessions

\* The public operations that run under _operation() and dispose().
Operations == {"query", "temporary", "precompute", "add", "remove", "flush", "dispose"}

\* The constructor opens the first session; there are six inference types.
ASSUME FacadeAssumption ==
    /\ Inert \subseteq Axioms /\ Loaded \subseteq Axioms /\ IsFiniteSet(InferenceTypes)
    /\ Backends \subseteq {"python", "native", "encoded"}
    /\ \A w \in Workloads :
          /\ w.operations \subseteq Operations /\ w.buffered \in BOOLEAN
          /\ {w.callers, w.calls} \subseteq Nat
    /\ MaxSessions \in Nat \ {0}
    /\ "nobody" \notin Threads

VARIABLES stateLock, operationLock, activeThread, disposed,
          cancelled, observers, sessions, config,
          view, additions, removals, runtime, precomputed,
          frame, calls, wanted

locks == <<stateLock, operationLock, activeThread, disposed>>
token == <<cancelled, observers>>
ontology == <<view, additions, removals, runtime, precomputed, wanted>>
vars == <<locks, token, ontology, sessions, config, frame, calls>>

Nobody == "nobody"

Compiled(axioms) == axioms \ Inert

Idle == [pc |-> "idle", op |-> "none", arg |-> {}, proposed |-> {}, session |-> 0,
         completed |-> {}, seen |-> {}, outcome |-> "none",
         targeted |-> FALSE, raised |-> FALSE, delivered |-> FALSE, start |-> {}]

\* The calls a caller may make: add/remove take the axioms, precompute the
\* inference types.
Arguments(op) ==
    CASE op \in {"add", "remove"} -> {{a} : a \in Axioms}
      [] op = "precompute" -> {InferenceTypes}
      [] OTHER -> {{}}

---------------------------------------------------------------------------

\* The constructor compiled the loaded ontology into the first session; a
\* native session has attached its cancellation handle to the token.
Init ==
    /\ stateLock = Nobody /\ operationLock = Nobody
    /\ activeThread = Nobody /\ disposed = FALSE
    /\ cancelled = FALSE
    /\ config \in {[backend |-> b, operations |-> w.operations, callers |-> w.callers,
                    calls |-> w.calls, buffered |-> w.buffered] : b \in Backends, w \in Workloads}
    /\ sessions = <<[open |-> TRUE, program |-> Compiled(Loaded)]>>
    /\ observers = IF config.backend = "python" THEN <<>> ELSE [s \in {1} |-> FALSE]
    /\ view = Loaded /\ additions = {} /\ removals = {} /\ precomputed = {}
    /\ runtime = [session |-> 1, program |-> Compiled(Loaded), computed |-> {}]
    /\ frame = [t \in Threads |-> Idle]
    /\ calls = 0
    /\ wanted = Loaded

Frame(t, pc) == frame' = [frame EXCEPT ![t].pc = pc]

Leave(t, pc, outcome) == frame' = [frame EXCEPT ![t].pc = pc, ![t].outcome = outcome]

At(t, pc) == frame[t].pc = pc

---------------------------------------------------------------------------
(* _operation(): the protocol around every public call.                    *)

\* First region under the state lock.  A disposed reasoner rejects the call;
\* dispose() itself then returns.
Enter(t, op) ==
    /\ At(t, "idle") /\ calls < config.calls /\ stateLock = Nobody
    /\ calls' = calls + 1
    /\ \E arg \in Arguments(op) :
          frame' = [frame EXCEPT ![t] =
              IF disposed THEN Idle
              ELSE [Idle EXCEPT !.pc = "entered", !.op = op, !.arg = arg]]
    /\ UNCHANGED <<locks, token, ontology, sessions, config>>

Acquire(t) ==
    /\ At(t, "entered") /\ operationLock = Nobody
    /\ operationLock' = t
    /\ Frame(t, "acquired")
    /\ UNCHANGED <<stateLock, activeThread, disposed, token, ontology, sessions, config, calls>>

\* Second region: the reasoner may have been disposed while the thread waited.
Activate(t) ==
    /\ At(t, "acquired") /\ stateLock = Nobody
    /\ IF disposed
       THEN /\ Leave(t, "release", "disposed")
            /\ UNCHANGED activeThread
       ELSE /\ activeThread' = t
            /\ frame' = [frame EXCEPT
                  ![t].pc = IF frame[t].op = "dispose" THEN "close" ELSE "begin",
                  ![t].start = view]
    /\ UNCHANGED <<stateLock, operationLock, disposed, token, ontology, sessions, config, calls>>

\* begin_operation, under the token's lock: clear the flag, copy the observers.
BeginClear(t) ==
    /\ At(t, "begin")
    /\ cancelled' = FALSE
    /\ frame' = [frame EXCEPT ![t].pc = "reset", ![t].seen = DOMAIN observers]
    /\ UNCHANGED <<locks, observers, ontology, sessions, config, calls>>

\* ... then, outside it, reset each observer.
BeginReset(t) ==
    /\ At(t, "reset")
    /\ observers' = [s \in DOMAIN observers |->
                        IF s \in frame[t].seen THEN FALSE ELSE observers[s]]
    /\ Frame(t, "check")
    /\ UNCHANGED <<locks, cancelled, ontology, sessions, config, calls>>

\* token.check() before the body; a deadline may already have passed.
FirstCheck(t) ==
    /\ At(t, "check")
    /\ \/ cancelled /\ Leave(t, "finish", "interrupted")
       \/ Leave(t, "finish", "error")
       \/ ~cancelled /\ Frame(t, "body")
    /\ UNCHANGED <<locks, token, ontology, sessions, config, calls>>

\* token.check() after the body; the deadline may have passed by then.
FinalCheck(t) ==
    /\ At(t, "final")
    /\ \/ cancelled /\ Leave(t, "finish", "interrupted")
       \/ Leave(t, "finish", "error")
       \/ ~cancelled /\ Leave(t, "finish", "ok")
    /\ UNCHANGED <<locks, token, ontology, sessions, config, calls>>

Finish(t) ==
    /\ At(t, "finish") /\ stateLock = Nobody
    /\ activeThread' = Nobody
    /\ Frame(t, "release")
    /\ UNCHANGED <<stateLock, operationLock, disposed, token, ontology, sessions, config, calls>>

Release(t) ==
    /\ At(t, "release")
    /\ operationLock' = Nobody
    /\ frame' = [frame EXCEPT ![t] = Idle]
    /\ UNCHANGED <<stateLock, activeThread, disposed, token, ontology, sessions, config, calls>>

---------------------------------------------------------------------------
(* Backend calls.  A call polls the Python token, and a native call also   *)
(* its own handle; it may fail for reasons of its own (timeout, limits,    *)
(* unsupported input) at any poll.                                         *)

Interrupted(s) == cancelled \/ (s \in DOMAIN observers /\ observers[s])

\* A call that fails ends the operation.  The reset_query_state that follows has
\* its own failure suppressed and touches nothing the facade keeps.
Fails(t, s) ==
    \/ Interrupted(s) /\ Leave(t, "finish", "interrupted")
    \/ Leave(t, "finish", "error")

Runs(s) == sessions[s].open /\ ~Interrupted(s)

NewSession(program) == Append(sessions, [open |-> TRUE, program |-> program])

\* _attach: a handle attached to a cancelled token is interrupted at once.
Attached(s) ==
    IF config.backend = "python" THEN observers
    ELSE [o \in DOMAIN observers \cup {s} |-> IF o = s THEN cancelled ELSE observers[o]]

Closed(s) == [sessions EXCEPT ![s].open = FALSE]

Detached(s) == [o \in DOMAIN observers \ {s} |-> observers[o]]

\* A read-only query against the runtime's session.
Query(t) ==
    /\ At(t, "body") /\ frame[t].op = "query"
    /\ \/ Runs(runtime.session) /\ Frame(t, "final")
       \/ Fails(t, runtime.session)
    /\ UNCHANGED <<locks, token, ontology, sessions, config, calls>>

\* _temporary_check: a query that needs a rebuilt overlay opens a session of
\* its own ...
OpenTemporary(t) ==
    /\ At(t, "body") /\ frame[t].op = "temporary"
    /\ \/ /\ ~cancelled /\ Len(sessions) < MaxSessions
          /\ sessions' = NewSession(Compiled(view))
          /\ observers' = Attached(Len(sessions'))
          /\ frame' = [frame EXCEPT ![t].pc = "temporary", ![t].session = Len(sessions')]
       \/ /\ Fails(t, 0)
          /\ UNCHANGED <<observers, sessions>>
    /\ UNCHANGED <<locks, cancelled, ontology, config, calls>>

\* ... and closes it whether or not the check succeeds.  The close of a session
\* that no other thread knows cannot raise: SessionControl contains a panic while
\* it holds the mutex, so a failed check leaves the session closable.
CheckTemporary(t) ==
    /\ At(t, "temporary")
    /\ LET s == frame[t].session IN
       /\ \/ Runs(s) /\ Frame(t, "final")
          \/ Fails(t, s)
       /\ sessions' = Closed(s)
       /\ observers' = Detached(s)
    /\ UNCHANGED <<locks, cancelled, ontology, config, calls>>

\* A progress callback of a native call raises: the adapter cancels the
\* operation and the callback's error is the public one.
CallbackRaises(t) ==
    /\ At(t, "body") /\ frame[t].op \in {"query", "precompute"} /\ config.backend # "python"
    /\ cancelled' = TRUE
    /\ observers' = [s \in DOMAIN observers |-> observers[s] \/ ~cancelled]
    /\ Leave(t, "finish", "error")
    /\ UNCHANGED <<locks, ontology, sessions, config, calls>>

\* A progress callback calls the reasoner that is calling it.  _operation() and
\* dispose() reject the call: it would wait for the operation lock that its own
\* thread holds.
Reenter(t) ==
    /\ At(t, "body") /\ frame[t].op \in {"query", "precompute"} /\ config.backend # "python"
    /\ calls < config.calls /\ stateLock = Nobody
    /\ calls' = calls + 1
    /\ IF activeThread = t THEN UNCHANGED frame ELSE Frame(t, "entered")
    /\ UNCHANGED <<locks, token, ontology, sessions, config>>

---------------------------------------------------------------------------
(* Updates.                                                                *)

\* Mutant: an addition does not cancel the pending removal.
AddAxiomsUncancelled(t) ==
    /\ At(t, "body") /\ frame[t].op = "add"
    /\ LET new == frame[t].arg IN
       /\ additions' = additions \cup (new \ view)
       /\ wanted' = wanted \cup new
    /\ Frame(t, IF config.buffered THEN "final" ELSE "flush")
    /\ UNCHANGED <<locks, token, view, removals, runtime, precomputed, sessions, config, calls>>

\* add_axioms and remove_axioms: cancel against the opposite buffer first.
AddAxioms(t) ==
    /\ At(t, "body") /\ frame[t].op = "add"
    /\ LET new == frame[t].arg IN
       /\ removals' = removals \ new
       /\ additions' = additions \cup (new \ (removals \cup view))
       /\ wanted' = wanted \cup new
    /\ Frame(t, IF config.buffered THEN "final" ELSE "flush")
    /\ UNCHANGED <<locks, token, view, runtime, precomputed, sessions, config, calls>>

RemoveAxioms(t) ==
    /\ At(t, "body") /\ frame[t].op = "remove"
    /\ LET old == frame[t].arg IN
       /\ additions' = additions \ old
       /\ removals' = removals \cup ((old \ additions) \cap view)
       /\ wanted' = wanted \ old
    /\ Frame(t, IF config.buffered THEN "final" ELSE "flush")
    /\ UNCHANGED <<locks, token, view, runtime, precomputed, sessions, config, calls>>

Flush(t) ==
    /\ At(t, "body") /\ frame[t].op = "flush"
    /\ Frame(t, "flush")
    /\ UNCHANGED <<locks, token, ontology, sessions, config, calls>>

\* _flush_locked: nothing pending, or build, validate and compile the proposal.
FlushCompile(t) ==
    /\ At(t, "flush")
    /\ IF additions = {} /\ removals = {}
       THEN Frame(t, "final")
       ELSE \/ /\ ~cancelled
               /\ frame' = [frame EXCEPT
                     ![t].pc = IF config.backend = "encoded" THEN "create" ELSE "delta",
                     ![t].proposed = (view \cup additions) \ removals]
            \/ Fails(t, 0)
    /\ UNCHANGED <<locks, token, ontology, sessions, config, calls>>

\* session.apply_delta: in place only when the compiled program is unchanged.
FlushDelta(t) ==
    /\ At(t, "delta")
    /\ \/ /\ Runs(runtime.session)
          /\ IF Compiled(frame[t].proposed) = sessions[runtime.session].program
             THEN frame' = [frame EXCEPT ![t].pc = "commit",
                                         ![t].session = runtime.session]
             ELSE Frame(t, "create")
       \/ Fails(t, runtime.session)
    /\ UNCHANGED <<locks, token, ontology, sessions, config, calls>>

FlushCreate(t) ==
    /\ At(t, "create")
    /\ \/ /\ ~cancelled /\ Len(sessions) < MaxSessions
          /\ sessions' = NewSession(Compiled(frame[t].proposed))
          /\ observers' = Attached(Len(sessions'))
          /\ frame' = [frame EXCEPT ![t].pc = "commit", ![t].session = Len(sessions')]
       \/ /\ Fails(t, 0)
          /\ UNCHANGED <<observers, sessions>>
    /\ UNCHANGED <<locks, cancelled, ontology, config, calls>>

\* Mutant: the old session is closed before the services exist.
FlushCommitClosingOldFirst(t) ==
    /\ At(t, "commit")
    /\ LET s == frame[t].session
           fresh == s # runtime.session
       IN \/ /\ view' = frame[t].proposed
             /\ runtime' = [session |-> s, program |-> Compiled(frame[t].proposed),
                            computed |-> {}]
             /\ additions' = {} /\ removals' = {} /\ precomputed' = {}
             /\ Frame(t, "final")
          \/ /\ Fails(t, s)
             /\ UNCHANGED <<view, additions, removals, runtime, precomputed>>
    /\ LET old == IF frame[t].session # runtime.session THEN {runtime.session} ELSE {}
       IN /\ sessions' = [i \in DOMAIN sessions |->
                             IF i \in old THEN [sessions[i] EXCEPT !.open = FALSE]
                             ELSE sessions[i]]
          /\ observers' = [i \in DOMAIN observers \ old |-> observers[i]]
    /\ UNCHANGED <<locks, cancelled, wanted, config, calls>>

\* Build the services over the session, close the old one and swap.  If the
\* services cannot be built, or the old session cannot be closed, a session
\* made for the proposal is closed and nothing is swapped.
FlushCommit(t) ==
    /\ At(t, "commit")
    /\ LET s == frame[t].session
           fresh == s # runtime.session
       IN \/ /\ view' = frame[t].proposed
             /\ runtime' = [session |-> s, program |-> Compiled(frame[t].proposed),
                            computed |-> {}]
             /\ additions' = {} /\ removals' = {} /\ precomputed' = {}
             /\ sessions' = IF fresh THEN Closed(runtime.session) ELSE sessions
             /\ observers' = IF fresh THEN Detached(runtime.session) ELSE observers
             /\ Frame(t, "final")
          \/ /\ Fails(t, s)
             /\ sessions' = IF fresh THEN Closed(s) ELSE sessions
             /\ observers' = IF fresh THEN Detached(s) ELSE observers
             /\ UNCHANGED <<view, additions, removals, runtime, precomputed>>
    /\ UNCHANGED <<locks, cancelled, wanted, config, calls>>

---------------------------------------------------------------------------
(* Precomputation.                                                         *)

\* One requested inference type that is not ready yet.
PrecomputeType(t) ==
    /\ At(t, "body") /\ frame[t].op = "precompute"
    /\ \E type \in frame[t].arg \ (precomputed \cup frame[t].completed) :
          \/ /\ Runs(runtime.session)
             /\ runtime' = [runtime EXCEPT !.computed = @ \cup {type}]
             /\ frame' = [frame EXCEPT ![t].completed = @ \cup {type}]
          \/ Fails(t, runtime.session) /\ UNCHANGED runtime
    /\ UNCHANGED <<locks, token, view, additions, removals, precomputed, wanted,
                   sessions, config, calls>>

PrecomputeDone(t) ==
    /\ At(t, "body") /\ frame[t].op = "precompute"
    /\ frame[t].arg \subseteq precomputed \cup frame[t].completed
    /\ precomputed' = precomputed \cup frame[t].completed
    /\ Frame(t, "final")
    /\ UNCHANGED <<locks, token, view, additions, removals, runtime, wanted,
                   sessions, config, calls>>

---------------------------------------------------------------------------
(* Disposal and interruption.                                              *)

\* dispose() closes the session under the operation lock; close may raise.
DisposeClose(t) ==
    /\ At(t, "close")
    /\ \/ /\ sessions' = Closed(runtime.session)
          /\ observers' = Detached(runtime.session)
          /\ Leave(t, "mark", "ok")
       \/ /\ Leave(t, "finish", "error")
          /\ UNCHANGED <<sessions, observers>>
    /\ UNCHANGED <<locks, cancelled, ontology, config, calls>>

DisposeMark(t) ==
    /\ At(t, "mark") /\ stateLock = Nobody
    /\ disposed' = TRUE
    /\ Frame(t, "finish")
    /\ UNCHANGED <<stateLock, operationLock, activeThread, token, ontology, sessions,
                   config, calls>>

\* Mutant: interrupt() lets go of the state lock before it sets the token.
InterruptEnterUnlocked(t) ==
    /\ At(t, "idle") /\ calls < config.calls /\ stateLock = Nobody
    /\ calls' = calls + 1
    /\ IF disposed \/ activeThread = Nobody
       THEN UNCHANGED frame
       ELSE frame' = [frame EXCEPT ![t].pc = "set", ![activeThread].targeted = TRUE]
    /\ UNCHANGED <<locks, token, ontology, sessions, config>>

\* interrupt() takes the state lock; it does nothing when no call is active.
InterruptEnter(t) ==
    /\ At(t, "idle") /\ calls < config.calls /\ stateLock = Nobody
    /\ calls' = calls + 1
    /\ IF disposed \/ activeThread = Nobody
       THEN UNCHANGED <<stateLock, frame>>
       ELSE /\ stateLock' = t
            /\ frame' = [frame EXCEPT ![t].pc = "set", ![activeThread].targeted = TRUE]
    /\ UNCHANGED <<operationLock, activeThread, disposed, token, ontology, sessions, config>>

\* An operation past begin_operation's clear and before its last check.
Begun == {"reset", "check", "body", "temporary", "flush", "delta", "create", "commit", "final"}

\* An interrupt() that returns marks the operation it was meant for, unless
\* that operation has already passed its last check.
Return(t, active) ==
    frame' = [u \in Threads |->
        CASE u = t -> Idle
          [] u # t /\ u = active ->
                [frame[u] EXCEPT !.delivered =
                    @ \/ frame[u].pc \notin {"finish", "release", "close", "mark"}]
          [] OTHER -> frame[u]]

\* Under the token's lock: set the flag and copy the observers, or find it set.
InterruptSet(t) ==
    /\ At(t, "set")
    /\ IF cancelled
       THEN /\ Return(t, activeThread)
            /\ stateLock' = Nobody
            /\ UNCHANGED cancelled
       ELSE /\ cancelled' = TRUE
            /\ frame' = [frame EXCEPT
                  ![t].pc = "signal", ![t].seen = DOMAIN observers,
                  ![activeThread].raised = frame[activeThread].pc \in Begun]
            /\ UNCHANGED stateLock
    /\ UNCHANGED <<operationLock, activeThread, disposed, observers, ontology, sessions,
                   config, calls>>

\* Mutant: interrupt() returns without releasing the state lock.
InterruptSignalKeepingLock(t) ==
    /\ At(t, "signal")
    /\ observers' = [s \in DOMAIN observers |-> observers[s] \/ s \in frame[t].seen]
    /\ Return(t, activeThread)
    /\ UNCHANGED <<locks, cancelled, ontology, sessions, config, calls>>

\* ... then, outside it, interrupt each observer.
InterruptSignal(t) ==
    /\ At(t, "signal")
    /\ observers' = [s \in DOMAIN observers |-> observers[s] \/ s \in frame[t].seen]
    /\ Return(t, activeThread)
    /\ stateLock' = Nobody
    /\ UNCHANGED <<operationLock, activeThread, disposed, cancelled, ontology, sessions,
                   config, calls>>

---------------------------------------------------------------------------

Calling == {t \in Threads : ~At(t, "idle")}

Call(t) ==
    /\ Cardinality(Calling) < config.callers
    /\ InterruptEnter(t) \/ \E op \in config.operations : Enter(t, op)

Protocol(t) ==
    \/ Acquire(t) \/ Activate(t) \/ BeginClear(t) \/ BeginReset(t)
    \/ FirstCheck(t) \/ FinalCheck(t) \/ Finish(t) \/ Release(t)

Body(t) ==
    \/ Query(t) \/ OpenTemporary(t) \/ CheckTemporary(t) \/ CallbackRaises(t)
    \/ AddAxioms(t) \/ RemoveAxioms(t) \/ Flush(t)
    \/ FlushCompile(t) \/ FlushDelta(t) \/ FlushCreate(t) \/ FlushCommit(t)
    \/ PrecomputeType(t) \/ PrecomputeDone(t)
    \/ DisposeClose(t) \/ DisposeMark(t)

Step(t) == Protocol(t) \/ Body(t) \/ InterruptSet(t) \/ InterruptSignal(t)

\* Every caller has made its calls.
AllReturned ==
    /\ \A t \in Threads : At(t, "idle")
    /\ calls = config.calls
    /\ UNCHANGED vars

Next == (\E t \in Threads : Call(t) \/ Reenter(t) \/ Step(t)) \/ AllReturned

Spec == Init /\ [][Next]_vars

---------------------------------------------------------------------------
(* Properties.                                                             *)

Inside == {"begin", "reset", "check", "body", "temporary", "flush", "delta",
           "create", "commit", "final", "finish", "close", "mark"}

Busy == \E t \in Threads : frame[t].pc \in Inside

OpenSessions == {s \in DOMAIN sessions : sessions[s].open}

\* Typing of the facade's fields, the token and the frames of the callers.
TypeOK ==
    /\ {stateLock, operationLock, activeThread} \subseteq Threads \cup {Nobody}
    /\ disposed \in BOOLEAN /\ cancelled \in BOOLEAN
    /\ config.backend \in Backends /\ Cardinality(Calling) <= config.callers
    /\ DOMAIN observers \subseteq DOMAIN sessions
    /\ \A s \in DOMAIN observers : observers[s] \in BOOLEAN
    /\ sessions \in Seq([open : BOOLEAN, program : SUBSET Axioms])
    /\ Len(sessions) <= MaxSessions /\ calls \in 0..config.calls
    /\ {view, additions, removals, wanted} \subseteq SUBSET Axioms
    /\ precomputed \subseteq InferenceTypes
    /\ runtime.session \in DOMAIN sessions
    /\ runtime.program \subseteq Axioms /\ runtime.computed \subseteq InferenceTypes
    /\ \A t \in Threads :
          /\ frame[t].pc \in Inside \cup {"idle", "entered", "acquired", "release",
                                          "set", "signal"}
          /\ frame[t].outcome \in {"none", "ok", "error", "interrupted", "disposed"}

\* A public operation runs its body only on an open session of a reasoner that
\* is not disposed: facade.py re-checks _require_open once it holds the
\* operation lock, whatever dispose() did while the caller waited for it.
NoUseAfterDispose ==
    \A t \in Threads :
        frame[t].pc \in {"body", "temporary", "flush", "delta", "create", "commit"} =>
            /\ ~disposed
            /\ sessions[runtime.session].open
            /\ activeThread = t

\* Between operations, the committed view, the runtime compiled from it and the
\* backend session agree, however many flushes failed half-way: _flush_locked
\* swaps them together or not at all.
RevisionCoherent ==
    ~Busy /\ ~disposed =>
        /\ runtime.program = Compiled(view)
        /\ sessions[runtime.session].program = Compiled(view)

\* Between operations exactly the runtime's session is open, and exactly the open
\* native sessions observe the token: every failure path of _flush_locked and
\* _temporary_check closes the session it made.
NoSessionLeak ==
    ~Busy =>
        /\ OpenSessions = IF disposed THEN {} ELSE {runtime.session}
        /\ config.backend # "python" => DOMAIN observers = OpenSessions

\* The sessions are where the facade thinks they are: no operation uses one that
\* dispose() has closed, and none is left open behind a failure.
SessionsSound == TypeOK /\ NoUseAfterDispose /\ NoSessionLeak

\* No accepted change is lost or applied twice: at every moment the committed view
\* with the two pending sets applied is the ontology that the accepted
\* add_axioms/remove_axioms calls describe, and the two sets are exact deltas.
NoLostUpdate ==
    /\ (view \cup additions) \ removals = wanted
    /\ additions \cap view = {} /\ removals \subseteq view

\* In immediate mode (buffer_changes false) an add_axioms or remove_axioms call
\* that returns normally leaves nothing pending, also when earlier calls failed and
\* left their changes behind: "each change batch commits before return"
\* (specs/reasoning-services.md:284).
ImmediateCommits ==
    \A t \in Threads :
        ~config.buffered /\ frame[t].op \in {"add", "remove"} /\ frame[t].outcome = "ok" =>
            additions = {} /\ removals = {} /\ view = wanted

\* An inference type is reported precomputed only if the services of the current
\* revision have computed it ("Precompute is atomic per inference type",
\* specs/reasoning-services.md:127).
PrecomputedReady == precomputed \subseteq runtime.computed

\* Changes are transactional: whatever the callers add, remove, flush and
\* precompute, and wherever a flush fails, the reasoner stands at one revision
\* and owes exactly the accepted changes that are still pending.
UpdatesExact == RevisionCoherent /\ NoLostUpdate /\ ImmediateCommits /\ PrecomputedReady

\* An operation that ends as interrupted was itself the target of an interrupt()
\* made while it was the active one: a late interrupt does not carry over to the
\* next operation (specs/reasoning-services.md:76).
NoCarryOver ==
    \A t \in Threads : frame[t].outcome = "interrupted" => frame[t].targeted

\* An interrupt() that raises the flag after begin_operation cleared it and before
\* the last token.check() is honoured: the operation does not return normally,
\* whatever it does in between (open sessions, flush, reset its observers).
InterruptHonoured ==
    \A t \in Threads : frame[t].raised => frame[t].outcome # "ok"

\* An interrupt reaches the operation it was raised for and no other.
InterruptsExact == NoCarryOver /\ InterruptHonoured

\* The threads inside a call never all wait for a lock: neither the lock order
\* (operation lock, then state lock) nor the state lock that interrupt() holds
\* across the observers lets the callers wait on each other or on a thread that
\* has returned.
NoWaitCycle ==
    Calling # {} =>
        \E t \in Calling :
            ~ \/ At(t, "entered") /\ operationLock # Nobody
              \/ frame[t].pc \in {"acquired", "finish", "mark"} /\ stateLock # Nobody

\* How far a call is from its return: the phases it has before it, then the
\* inference types it has not completed.
Phases == <<"signal", "set", "release", "finish", "mark", "close", "final", "commit",
            "create", "delta", "flush", "temporary", "body", "check", "reset", "begin",
            "acquired", "entered">>

Distance(t) ==
    IF At(t, "idle") THEN 0
    ELSE LET i == CHOOSE i \in DOMAIN Phases : Phases[i] = frame[t].pc
         IN i * (Cardinality(InferenceTypes) + 1)
              + Cardinality(InferenceTypes \ frame[t].completed)

\* Every call returns once the interpreter keeps scheduling the threads that can
\* run: the callers never wait on each other, and every step inside a call brings
\* that call nearer to its return and moves no other call back.
CallsReturn ==
    [][/\ NoWaitCycle'
       /\ calls' = calls =>
            /\ \E t \in Threads : Distance(t)' < Distance(t)
            /\ \A t \in Threads : Distance(t)' <= Distance(t)]_vars

\* docs/api-reference.md:16, interrupt() "Requests cooperative cancellation of the
\* active operation": an operation for which interrupt() returned before its last
\* check does not end normally.
InterruptCancelsActive ==
    \A t \in Threads : frame[t].delivered => frame[t].outcome # "ok"

\* specs/reasoning-services.md:287, flush: "On error the old revision remains
\* usable and pending changes remain inspectable".
FailedFlushKeepsRevision ==
    \A t \in Threads :
        frame[t].op = "flush" /\ frame[t].pc = "release"
            /\ frame[t].outcome \in {"error", "interrupted"} => view = frame[t].start

=============================================================================
