---------------------------- MODULE NativeSession ----------------------------
(***************************************************************************)
(* The NativeSession object Python threads share (lib.rs): its own closed, *)
(* busy and poisoned flags and its own mutex around a SessionScheduler.    *)
(* A thread enters and leaves with the interpreter lock (gil) and runs the *)
(* operation without it, so the session mutex is held while the gil is     *)
(* asked for again: the busy flag alone keeps a thread that has the gil    *)
(* from waiting for that mutex.                                            *)
(*                                                                         *)
(* stage[t] is where thread t is in NativeSession; frame[t] is where the   *)
(* scheduler call it makes is.                                             *)
(***************************************************************************)
EXTENDS NativeScheduler

VARIABLES gil, sessionClosed, sessionBusy, sessionPoisoned, slot, present, stage

session == <<gil, sessionClosed, sessionBusy, sessionPoisoned, slot, present, stage>>
scheduler == <<gate, owned, tableau, truth, control, frame, drained>>
sessionVars == <<vars, session>>

\* The exported calls: check, check_many, reset_query_state, drain_events and
\* close are scheduler requests by name; apply_delta only reads the ontology.
Delta == [kind |-> "delta", queries |-> <<>>]
SessionRequests == Requests \cup {Delta}

\* reset_query_state and drain_events keep the gil.
Detaches(kind) == kind \in {"permanent", "query", "batch", "delta"}

Outside == [at |-> "outside", request |-> Delta, outcome |-> "none", answers |-> <<>>]

SessionInit ==
    /\ Init
    /\ gil = Nobody /\ slot = Nobody /\ present = TRUE
    /\ sessionClosed = FALSE /\ sessionBusy = FALSE /\ sessionPoisoned = FALSE
    /\ stage = [t \in Threads |-> Outside]

To(t, at) == stage' = [stage EXCEPT ![t].at = at]

Settle(t, at, outcome) == stage' = [stage EXCEPT ![t].at = at, ![t].outcome = outcome]

---------------------------------------------------------------------------

\* Mutant: the busy flag is set but not tested.
SessionPreflightBusy(t) ==
    /\ stage[t].at = "outside" /\ gil = Nobody
    /\ calls < MaxCalls /\ calls' = calls + 1
    /\ \E r \in SessionRequests :
         /\ ~sessionClosed
         /\ sessionPoisoned => r.kind = "close"
         /\ stage' = [stage EXCEPT ![t] = [Outside EXCEPT !.at = "slot", !.request = r]]
    /\ sessionBusy' = TRUE
    /\ gil' = t
    /\ UNCHANGED <<scheduler, sessionClosed, sessionPoisoned, slot, present>>

\* A thread gets the interpreter lock and calls: SessionControl::preflight,
\* and the flag tests of close.  Only a thread with the gil changes these
\* flags, so the tests are one step; a refused call changes nothing.
SessionPreflight(t) ==
    /\ stage[t].at = "outside" /\ gil = Nobody
    /\ calls < MaxCalls /\ calls' = calls + 1
    /\ \E r \in SessionRequests :
         /\ ~sessionClosed /\ ~sessionBusy
         /\ sessionPoisoned => r.kind = "close"
         /\ stage' = [stage EXCEPT ![t] = [Outside EXCEPT !.at = "slot", !.request = r]]
    /\ sessionBusy' = TRUE
    /\ gil' = t
    /\ UNCHANGED <<scheduler, sessionClosed, sessionPoisoned, slot, present>>

\* close empties the slot; it keeps the gil.
CloseSlot(t) ==
    present' = FALSE /\ sessionClosed' = TRUE /\ Settle(t, "leave", "ok") /\ UNCHANGED gil

\* The mutex of the session, taken with the gil; then py.detach.
EnterSlot(t) ==
    LET kind == stage[t].request.kind IN
    /\ stage[t].at = "slot" /\ slot = Nobody
    /\ slot' = t
    /\ IF kind = "close"
       THEN CloseSlot(t)
       ELSE /\ UNCHANGED <<present, sessionClosed>>
            /\ IF ~present THEN Settle(t, "leave", "disposed") /\ UNCHANGED gil
               ELSE To(t, "body") /\ gil' = IF Detaches(kind) THEN Nobody ELSE gil
    /\ UNCHANGED <<scheduler, calls, sessionBusy, sessionPoisoned>>

\* The body up to the scheduler: the first poll, decoding the wire, which may
\* fail or panic, and the call.
Body(t) ==
    LET r == stage[t].request IN
    /\ stage[t].at = "body"
    /\ \/ /\ Detaches(r.kind) /\ Poll # "none"
          /\ Settle(t, "leave", Poll) /\ UNCHANGED scheduler
       \/ /\ "wire" \in Faults /\ Detaches(r.kind)
          /\ Settle(t, "leave", "wire") /\ UNCHANGED scheduler
       \/ /\ "panic" \in Faults /\ Detaches(r.kind)
          /\ Settle(t, "leave", "panic") /\ UNCHANGED scheduler
       \/ /\ r.kind = "delta" /\ Poll = "none"
          /\ Settle(t, "leave", "ok") /\ UNCHANGED scheduler
       \/ /\ r.kind # "delta" /\ (Detaches(r.kind) => Poll = "none")
          /\ Preflight(t, r) /\ To(t, "inside")
    /\ UNCHANGED <<calls, gil, sessionClosed, sessionBusy, sessionPoisoned, slot, present>>

\* The scheduler call of t goes on.
Inside(t) ==
    /\ stage[t].at = "inside"
    /\ Step(t)
    /\ UNCHANGED session

\* The scheduler returned: an answer survives one more poll and is encoded.
Return(t) ==
    LET f == frame[t]
        kept == f.outcome = "ok" /\ (Detaches(stage[t].request.kind) => Poll = "none")
    IN
    /\ stage[t].at = "inside" /\ f.pc = "idle"
    /\ stage' = [stage EXCEPT ![t].at = "leave",
                              ![t].outcome = IF kept \/ f.outcome # "ok" THEN f.outcome ELSE Poll,
                              ![t].answers = IF kept THEN f.answers ELSE <<>>]
    /\ frame' = [frame EXCEPT ![t] = IdleFrame]
    /\ UNCHANGED <<gate, owned, tableau, truth, control, drained, calls, gil, sessionClosed, sessionBusy, sessionPoisoned, slot, present>>

\* py.detach ends by taking the gil again, the session mutex still held;
\* then drop(slot), the poison bit of a contained panic, BusyGuard::drop.
Leave(t) ==
    LET panicked == stage[t].outcome = "panic" IN
    /\ stage[t].at = "leave" /\ gil \in {Nobody, t}
    /\ slot' = Nobody
    /\ sessionPoisoned' = (sessionPoisoned \/ panicked)
    /\ sessionBusy' = FALSE
    /\ gil' = Nobody
    /\ stage' = [stage EXCEPT ![t] = Outside]
    /\ UNCHANGED <<scheduler, calls, sessionClosed, present>>

\* CancellationHandle.interrupt and reset are Python calls too.
SessionInterrupt == gil = Nobody /\ Interrupt /\ UNCHANGED session

SessionResetControl ==
    /\ gil = Nobody /\ \A t \in Threads : stage[t].at = "outside"
    /\ ResetControl /\ UNCHANGED session

---------------------------------------------------------------------------

SessionStep(t) ==
    \/ EnterSlot(t) \/ Body(t) \/ Inside(t) \/ Return(t) \/ Leave(t)

SessionNext ==
    \/ \E t \in Threads : SessionPreflight(t) \/ SessionStep(t)
    \/ SessionInterrupt \/ SessionResetControl
    \/ (Expire /\ UNCHANGED session)

SessionSpec ==
    /\ SessionInit /\ [][SessionNext]_sessionVars
    /\ \A t \in Threads : WF_sessionVars(SessionStep(t))

---------------------------------------------------------------------------

\* The variables keep their types.
TypeOK ==
    /\ {closed, busy, poisoned, sessionClosed, sessionBusy, sessionPoisoned, present} \subseteq BOOLEAN
    /\ {gil, slot, mutex} \subseteq Threads \cup {Nobody}
    /\ tableau \in [query : Subjects, base : {"loaded", "committed"}, atRoot : BOOLEAN]
    /\ control \in [interrupted : BOOLEAN, expired : BOOLEAN, exceeded : BOOLEAN]
    /\ owned.permanent \in Verdicts \cup {"unknown"}
    /\ Len(owned.events) <= EventCapacity
    /\ \A t \in Threads : stage[t].request \in SessionRequests

Healthy == ~poisoned /\ ~sessionPoisoned /\ present

\* Between operations a healthy session holds the permanent state at a root:
\* no overlay of an earlier query and no half-finished run is left in the
\* tableau, whatever was cancelled, timed out or refused before, and the ledger
\* closes: every operation that started completed or was aborted.
Isolation ==
    (Healthy /\ slot = Nobody) =>
        /\ tableau.query = Permanent /\ tableau.atRoot
        /\ owned.started = owned.completed + owned.aborted

\* An answer that reaches the caller is the verdict of the ontology for each
\* query asked, in the order asked: batches are whole, a cached verdict is
\* the computed one, and a rolled-back or poisoned run never answers.
TruthfulAnswers ==
    \A t \in Threads :
        (stage[t].at = "leave" /\ stage[t].outcome = "ok"
            /\ stage[t].request.kind \in {"permanent", "query", "batch"}) =>
            /\ Len(stage[t].answers) = Len(stage[t].request.queries)
            /\ \A i \in 1 .. Len(stage[t].answers) :
                 stage[t].answers[i] = truth[stage[t].request.queries[i]]

\* The ring is a suffix of one stream: consecutive sequence numbers up to the
\* last one issued, nothing lost without being counted, and the events of an
\* operation side by side, from "started" to its terminal event, so a drain
\* always passes the validation of the event wire.
EventStream ==
    LET e == owned.events IN
    /\ TypeOK
    /\ drained + owned.dropped + Len(e) = owned.nextSequence - 1
    /\ \A i \in 1 .. Len(e) : e[i].sequence = owned.nextSequence - 1 - Len(e) + i
    /\ \A i \in 1 .. Len(e) - 1 :
         IF e[i].kind \in {"completed", "aborted"}
         THEN e[i + 1].kind = "started" /\ e[i + 1].operation > e[i].operation
         ELSE e[i + 1].kind # "started" /\ e[i + 1].operation = e[i].operation
              /\ e[i + 1].completed \in {e[i].completed, e[i].completed + 1, 0}
    /\ e # <<>> => e[Len(e)].kind \in {"completed", "aborted"}

\* The session keeps the promise of SerialSession: one operation at a time,
\* none after poisoning or closing.
InBody == {"start", "next", "install", "drive", "finish", "recover", "unlock", "poison", "release"}

Serial == INSTANCE SerialSession WITH
    status <- IF sessionClosed THEN "closed" ELSE IF poisoned THEN "poisoned" ELSE "usable",
    holder <- IF \E t \in Threads : frame[t].pc \in InBody
              THEN CHOOSE t \in Threads : frame[t].pc \in InBody ELSE Nobody

RefinesSerialSession == Serial!Spec

\* Every call returns: no thread waits for a lock that is never given back,
\* whichever of the gil and the two mutexes it holds.
EveryCallReturns ==
    \A t \in Threads : (stage[t].at # "outside") ~> (stage[t].at = "outside")
=============================================================================
