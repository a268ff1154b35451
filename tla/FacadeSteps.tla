----------------------------- MODULE FacadeSteps ------------------------------
(***************************************************************************)
(* What ReasonerFacade checks on three callers, proved for any number of   *)
(* callers, axioms, inference types and calls.  FacadeSteps, FacadeLayers  *)
(* and FacadeProofs prove it together.                                     *)
(*                                                                         *)
(* The inductive invariant comes in layers, each inductive relative to the *)
(* ones before it: Typed gives every variable its type; Locks says who     *)
(* holds the two locks and who is active; Owed says what a flush in        *)
(* progress has proposed and what is owed to the callers; Ready says what  *)
(* the services have computed; Marked says whom an interrupt that is set   *)
(* or signalled was meant for; Opened says which sessions are open and who *)
(* observes the token.                                                     *)
(*                                                                         *)
(* This module says what every action does to the frames, field by field   *)
(* (Acts), and proves that every step is one of those and keeps Typed; the *)
(* other layers start from Acts.  Then it proves Locks and Owed.           *)
(***************************************************************************)
EXTENDS ReasonerFacade, TLAPS

\* The leaves are first-order: Zenon proves them, and SMT those that need arithmetic,
\* sequences, records or a wide case split.
USE Zenon

\* The places of a call: inside an operation, on the way in or out of it, and those
\* of interrupt().
PCs == Inside \cup {"idle", "entered", "acquired", "release", "set", "signal"}

\* How a call ended, or that it has not.
Outcomes == {"none", "ok", "error", "interrupted", "disposed"}

\* The frame of a thread.
Frames == [pc : PCs, op : Operations \cup {"none"}, arg : SUBSET (Axioms \cup InferenceTypes),
           proposed : SUBSET Axioms, session : Nat, completed : SUBSET InferenceTypes,
           seen : SUBSET Nat, outcome : Outcomes, targeted : BOOLEAN, raised : BOOLEAN,
           delivered : BOOLEAN, start : SUBSET Axioms]

\* The configuration: the backend and the workload.
Configs == [backend : Backends, operations : SUBSET Operations, callers : Nat,
            calls : Nat, buffered : BOOLEAN]

\* A backend session.
Sessions == [open : BOOLEAN, program : SUBSET Axioms]

\* The types of the shared variables; the runtime's session exists.
TypedState ==
    /\ stateLock \in Threads \cup {Nobody} /\ operationLock \in Threads \cup {Nobody}
    /\ activeThread \in Threads \cup {Nobody}
    /\ disposed \in BOOLEAN /\ cancelled \in BOOLEAN
    /\ config \in Configs /\ calls \in 0..config.calls
    /\ sessions \in Seq(Sessions) /\ Len(sessions) <= MaxSessions
    /\ DOMAIN observers \subseteq 1..Len(sessions) /\ observers \in [DOMAIN observers -> BOOLEAN]
    /\ view \in SUBSET Axioms /\ additions \in SUBSET Axioms
    /\ removals \in SUBSET Axioms /\ wanted \in SUBSET Axioms
    /\ precomputed \in SUBSET InferenceTypes
    /\ runtime \in [session : 1..Len(sessions), program : SUBSET Axioms,
                    computed : SUBSET InferenceTypes]

\* The argument of a call fits its operation, its session exists.
ArgumentsFit(t) ==
    /\ frame[t].op \in {"add", "remove"} => frame[t].arg \subseteq Axioms
    /\ frame[t].op = "precompute" => frame[t].arg \subseteq InferenceTypes
    /\ frame[t].pc \in {"temporary", "commit"} => frame[t].session \in 1..Len(sessions)

\* The type invariant.
Typed == TypedState /\ frame \in [Threads -> Frames] /\ \A t \in Threads : ArgumentsFit(t)

\* Where a thread holds the operation lock.
HeldPCs == Inside \cup {"acquired", "release"}

\* A thread between acquire and release of _operation() holds the operation lock
\* and nobody else does; the active thread is the one inside; interrupt() holds
\* the state lock from its test of the active thread to its last signal.
Locks ==
    /\ \A t \in Threads : frame[t].pc \in HeldPCs <=> operationLock = t
    /\ \A t \in Threads : frame[t].pc \in Inside <=> activeThread = t
    /\ \A t \in Threads : frame[t].pc \in {"set", "signal"} <=> stateLock = t
    /\ stateLock \in Threads =>
          activeThread \in Threads /\ frame[activeThread].targeted

-----------------------------------------------------------------------------
(***************************************************************************)
(* What a step does to the frames and the sessions, field by field.        *)
(***************************************************************************)
\* Only the frame of t changes.
Others(t) ==
    /\ frame' \in [Threads -> Frames]
    /\ \A u \in Threads \ {t} : frame'[u] = frame[u]

\* What no step inside a call of t changes in its own frame.
Kept(t) ==
    /\ frame'[t].op = frame[t].op /\ frame'[t].arg = frame[t].arg
    /\ frame'[t].targeted = frame[t].targeted /\ frame'[t].raised = frame[t].raised
    /\ frame'[t].delivered = frame[t].delivered

\* What only some of them change: the results a call has so far.
Working(t) ==
    /\ frame'[t].proposed = frame[t].proposed /\ frame'[t].session = frame[t].session
    /\ frame'[t].completed = frame[t].completed /\ frame'[t].seen = frame[t].seen

\* t goes on to pc.
Advances(t, pc) ==
    /\ Others(t) /\ Kept(t) /\ Working(t)
    /\ frame'[t].pc = pc /\ frame'[t].outcome = frame[t].outcome

\* A backend call that fails ends the operation, as interrupted only when its
\* token or its handle is set.
Failed(t, s) ==
    /\ Others(t) /\ Kept(t) /\ Working(t)
    /\ frame'[t].pc = "finish"
    /\ frame'[t].outcome \in {"interrupted", "error"}
    /\ frame'[t].outcome = "interrupted" => Interrupted(s)

\* A step inside an operation that leaves it inside.
Stays(t) ==
    /\ frame[t].pc \in Inside /\ frame'[t].pc \in Inside
    /\ Others(t) /\ Kept(t)
    /\ UNCHANGED <<stateLock, operationLock, activeThread, config, calls>>

\* The token is cleared.
Clears(t) ==
    /\ Others(t) /\ Kept(t)
    /\ frame'[t].pc = "reset" /\ frame'[t].seen = DOMAIN observers
    /\ frame'[t].outcome = frame[t].outcome /\ frame'[t].completed = frame[t].completed

\* The two checks of the token.
Checked(t, at) ==
    /\ Others(t) /\ Kept(t) /\ Working(t)
    /\ \/ /\ frame'[t].pc = "finish" /\ frame'[t].outcome \in {"interrupted", "error"}
          /\ frame'[t].outcome = "interrupted" => cancelled
       \/ ~cancelled /\ at = "check" /\ frame'[t].pc = "body" /\ frame'[t].outcome = frame[t].outcome
       \/ ~cancelled /\ at = "final" /\ frame'[t].pc = "finish" /\ frame'[t].outcome = "ok"

\* A flush compiles what it proposes.
Proposed(t) ==
    /\ Others(t) /\ Kept(t)
    /\ frame'[t].pc \in {"create", "delta"} /\ frame'[t].proposed = (view \cup additions) \ removals
    /\ frame'[t].outcome = frame[t].outcome /\ frame'[t].completed = frame[t].completed

\* A session is taken for a commit or a temporary check.
Taken(t, pc, s) ==
    /\ Others(t) /\ Kept(t)
    /\ frame'[t].pc = pc /\ frame'[t].session = s /\ frame'[t].outcome = frame[t].outcome
    /\ frame'[t].proposed = frame[t].proposed /\ frame'[t].completed = frame[t].completed

\* A precomputation computes one more type.
Completes(t) ==
    /\ Others(t) /\ Kept(t)
    /\ frame'[t].pc = "body" /\ frame'[t].outcome = frame[t].outcome
    /\ \E type \in InferenceTypes \ frame[t].completed :
          /\ frame'[t].completed = frame[t].completed \cup {type}
          /\ runtime' = [runtime EXCEPT !.computed = @ \cup {type}]

\* dispose() has closed the session, or could not.
Closes(t) ==
    /\ Others(t) /\ Kept(t) /\ Working(t)
    /\ \/ /\ sessions' = Closed(runtime.session) /\ observers' = Detached(runtime.session)
          /\ frame'[t].pc = "mark" /\ frame'[t].outcome = "ok"
       \/ /\ UNCHANGED <<sessions, observers>>
          /\ frame'[t].pc = "finish" /\ frame'[t].outcome = "error"

\* A call that is just made, or refused.
Enters(t) ==
    /\ Others(t) /\ frame'[t].pc \in {"idle", "entered"}
    /\ frame'[t].outcome = "none" /\ frame'[t].completed = {}
    /\ ~frame'[t].targeted /\ ~frame'[t].raised

\* The operation is refused once more, or becomes the active one.
Activates(t) ==
    /\ Others(t) /\ Kept(t) /\ Working(t)
    /\ \/ /\ disposed /\ UNCHANGED activeThread
          /\ frame'[t].pc = "release" /\ frame'[t].outcome = "disposed"
       \/ /\ ~disposed /\ activeThread' = t
          /\ frame'[t].pc = (IF frame[t].op = "dispose" THEN "close" ELSE "begin")
          /\ frame'[t].outcome = frame[t].outcome

\* What interrupt() leaves alone in the frames of the other threads.
Undisturbed(t) ==
    /\ frame' \in [Threads -> Frames]
    /\ \A u \in Threads \ {t} :
          /\ frame'[u].pc = frame[u].pc /\ frame'[u].op = frame[u].op /\ frame'[u].arg = frame[u].arg
          /\ frame'[u].proposed = frame[u].proposed /\ frame'[u].session = frame[u].session
          /\ frame'[u].completed = frame[u].completed /\ frame'[u].seen = frame[u].seen
          /\ frame'[u].outcome = frame[u].outcome
          /\ frame[u].targeted => frame'[u].targeted
          /\ u # activeThread => frame'[u] = frame[u]

\* interrupt() found nothing to interrupt, or took the state lock and aims at
\* the active operation.
Aims(t) ==
    \/ UNCHANGED <<stateLock, frame>>
    \/ /\ stateLock' = t /\ ~disposed /\ activeThread \in Threads \ {t}
       /\ Undisturbed(t) /\ frame'[t].pc = "set" /\ frame'[t].outcome = frame[t].outcome
       /\ frame'[t].completed = frame[t].completed /\ frame'[t].raised = frame[t].raised
       /\ frame'[t].op = frame[t].op
       /\ frame'[activeThread].targeted
       /\ frame'[activeThread].raised = frame[activeThread].raised

\* interrupt() returns.
Returns(t) ==
    /\ stateLock' = Nobody /\ UNCHANGED cancelled
    /\ Undisturbed(t) /\ frame'[t] = Idle
    /\ \A u \in Threads \ {t} : frame'[u].targeted = frame[u].targeted /\ frame'[u].raised = frame[u].raised

\* ... or sets the token, for an operation past its clear.
Sets(t) ==
    /\ ~cancelled /\ cancelled' = TRUE /\ UNCHANGED stateLock
    /\ activeThread \in Threads \ {t}
    /\ Undisturbed(t) /\ frame'[t].pc = "signal" /\ frame'[t].outcome = frame[t].outcome
    /\ frame'[t].completed = frame[t].completed /\ frame'[t].raised = frame[t].raised
    /\ frame'[t].op = frame[t].op
    /\ frame'[activeThread].targeted = frame[activeThread].targeted
    /\ frame'[activeThread].raised = (frame[activeThread].pc \in Begun)

\* Every action, with what it does.
Acts(t) ==
    \/ Enters(t) /\ \E op \in config.operations : Enter(t, op)
    \/ Acquire(t) /\ Advances(t, "acquired")
    \/ Activate(t) /\ Activates(t)
    \/ BeginClear(t) /\ Stays(t) /\ Clears(t)
    \/ BeginReset(t) /\ Stays(t) /\ Advances(t, "check")
    \/ FirstCheck(t) /\ Stays(t) /\ Checked(t, "check")
    \/ FinalCheck(t) /\ Stays(t) /\ Checked(t, "final")
    \/ Finish(t) /\ Advances(t, "release")
    \/ Release(t) /\ Others(t) /\ frame'[t] = Idle
    \/ Query(t) /\ Stays(t) /\ (Advances(t, "final") \/ Failed(t, runtime.session))
    \/ /\ OpenTemporary(t) /\ Stays(t)
       /\ \/ /\ ~cancelled /\ sessions' = NewSession(Compiled(view)) /\ observers' = Attached(Len(sessions'))
             /\ Taken(t, "temporary", Len(sessions'))
          \/ Failed(t, 0) /\ UNCHANGED <<observers, sessions>>
    \/ CheckTemporary(t) /\ Stays(t) /\ (Advances(t, "final") \/ Failed(t, frame[t].session))
    \/ CallbackRaises(t) /\ Stays(t) /\ frame'[t].pc = "finish" /\ frame'[t].outcome = "error"
    \/ AddAxioms(t) /\ Stays(t) /\ Advances(t, IF config.buffered THEN "final" ELSE "flush")
    \/ RemoveAxioms(t) /\ Stays(t) /\ Advances(t, IF config.buffered THEN "final" ELSE "flush")
    \/ Flush(t) /\ Stays(t) /\ Advances(t, "flush")
    \/ /\ FlushCompile(t) /\ Stays(t)
       /\ \/ additions = {} /\ removals = {} /\ Advances(t, "final")
          \/ Proposed(t)
          \/ Failed(t, 0)
    \/ /\ FlushDelta(t) /\ Stays(t)
       /\ \/ /\ Compiled(frame[t].proposed) = sessions[runtime.session].program
             /\ Taken(t, "commit", runtime.session)
          \/ Advances(t, "create")
          \/ Failed(t, runtime.session)
    \/ /\ FlushCreate(t) /\ Stays(t)
       /\ \/ /\ ~cancelled /\ sessions' = NewSession(Compiled(frame[t].proposed))
             /\ observers' = Attached(Len(sessions')) /\ Taken(t, "commit", Len(sessions'))
          \/ Failed(t, 0) /\ UNCHANGED <<observers, sessions>>
    \/ /\ FlushCommit(t) /\ Stays(t)
       /\ \/ Advances(t, "final") /\ view' = frame[t].proposed
          \/ /\ Failed(t, frame[t].session)
             /\ UNCHANGED <<view, additions, removals, runtime, precomputed>>
    \/ PrecomputeType(t) /\ Stays(t) /\ (Completes(t) \/ (Failed(t, runtime.session) /\ UNCHANGED runtime))
    \/ PrecomputeDone(t) /\ Stays(t) /\ Advances(t, "final")
    \/ DisposeClose(t) /\ Stays(t) /\ Closes(t)
    \/ DisposeMark(t) /\ Stays(t) /\ Advances(t, "finish")
    \/ InterruptEnter(t) /\ Aims(t)
    \/ InterruptSet(t) /\ (Returns(t) \/ Sets(t))
    \/ InterruptSignal(t) /\ Returns(t)

\* The other calls stay where they are.
Same(t) ==
    \A u \in Threads \ {t} :
        /\ frame'[u].pc = frame[u].pc /\ frame'[u].op = frame[u].op /\ frame'[u].arg = frame[u].arg
        /\ frame'[u].proposed = frame[u].proposed /\ frame'[u].session = frame[u].session
        /\ frame'[u].completed = frame[u].completed /\ frame'[u].seen = frame[u].seen
        /\ frame'[u].outcome = frame[u].outcome

-----------------------------------------------------------------------------
\* The name of no thread.
LEMMA NobodyIsNoThread == Nobody \notin Threads
BY FacadeAssumption DEF Nobody

\* Replacing the frame of one thread.
LEMMA Update ==
    ASSUME frame \in [Threads -> Frames], NEW t \in Threads, NEW f \in Frames,
           frame' = [frame EXCEPT ![t] = f]
    PROVE  Others(t) /\ frame'[t] = f
BY DEF Others

\* Frame moves the program counter of t.
LEMMA FrameMoves ==
    ASSUME frame \in [Threads -> Frames], NEW t \in Threads, NEW pc \in PCs, Frame(t, pc)
    PROVE  Advances(t, pc)
<1> DEFINE f == [frame[t] EXCEPT !.pc = pc]
<1>1. f \in Frames  BY SMT DEF Frames
<1>2. frame' = [frame EXCEPT ![t] = f]  BY DEF Frame
<1>3. Others(t) /\ frame'[t] = f  BY <1>1, <1>2, Update
<1>4. QED  BY <1>3, SMT DEF Frames, Kept, Working, Advances

\* Leave also records the outcome.
LEMMA LeaveMoves ==
    ASSUME frame \in [Threads -> Frames], NEW t \in Threads, NEW pc \in PCs,
           NEW outcome \in Outcomes, Leave(t, pc, outcome)
    PROVE  /\ Others(t) /\ Kept(t) /\ Working(t)
           /\ frame'[t].pc = pc /\ frame'[t].outcome = outcome
<1> DEFINE f == [frame[t] EXCEPT !.pc = pc, !.outcome = outcome]
<1>1. f \in Frames  BY ZenonT(60) DEF Frames
<1>2. frame' = [frame EXCEPT ![t] = f]  BY DEF Leave
<1>3. Others(t) /\ frame'[t] = f  BY <1>1, <1>2, Update
<1>4. QED  BY <1>3, SMT DEF Frames, Kept, Working

\* A failing backend call leaves the frame at "finish".
LEMMA FailsMoves ==
    ASSUME frame \in [Threads -> Frames], NEW t \in Threads, NEW s, Fails(t, s)
    PROVE  Failed(t, s)
<1>1. "finish" \in PCs /\ "interrupted" \in Outcomes /\ "error" \in Outcomes
  BY DEF PCs, Inside, Outcomes
<1>2. CASE Interrupted(s) /\ Leave(t, "finish", "interrupted")
  BY <1>1, <1>2, LeaveMoves DEF Failed
<1>3. CASE Leave(t, "finish", "error")
  BY <1>1, <1>3, LeaveMoves DEF Failed
<1>4. QED  BY <1>2, <1>3 DEF Fails

\* A new session comes last and is open.
LEMMA SessionOpens ==
    ASSUME sessions \in Seq(Sessions), NEW p \in SUBSET Axioms, sessions' = NewSession(p)
    PROVE  /\ sessions' \in Seq(Sessions) /\ Len(sessions') = Len(sessions) + 1
           /\ \A s \in 1..Len(sessions) : sessions'[s] = sessions[s]
           /\ sessions'[Len(sessions')].open = TRUE /\ sessions'[Len(sessions')].program = p
BY SMT DEF NewSession, Sessions

\* Closing a session changes no program and no other session.
LEMMA SessionCloses ==
    ASSUME sessions \in Seq(Sessions), NEW s \in 1..Len(sessions), sessions' = Closed(s)
    PROVE  /\ sessions' \in Seq(Sessions) /\ Len(sessions') = Len(sessions)
           /\ \A r \in 1..Len(sessions) : sessions'[r].program = sessions[r].program
           /\ \A r \in 1..Len(sessions) \ {s} : sessions'[r] = sessions[r]
           /\ ~sessions'[s].open
<1> DEFINE f == [sessions[s] EXCEPT !.open = FALSE]
<1>1. sessions[s] \in Sessions  BY SMT
<1>2. f \in Sessions /\ ~f.open /\ f.program = sessions[s].program  BY <1>1 DEF Sessions
<1>3. sessions' = [sessions EXCEPT ![s] = f]  BY DEF Closed
<1>4. QED  BY <1>2, <1>3, SMT

\* A step that leaves the shared state alone keeps its types.
LEMMA StateKept ==
    ASSUME TypedState, UNCHANGED <<locks, token, ontology, sessions, config, calls>>
    PROVE  TypedState'
BY DEF TypedState, locks, token, ontology

\* The calls of the other threads keep fitting arguments while no session goes away.
LEMMA FitsAfter ==
    ASSUME Typed, NEW t \in Threads, Others(t), TypedState', Len(sessions) <= Len(sessions'), ArgumentsFit(t)'
    PROVE  Typed'
<1>1. \A u \in Threads \ {t} : ArgumentsFit(u)'
  BY SMT DEF Typed, TypedState, ArgumentsFit, Others
<1>2. QED  BY <1>1 DEF Typed, Others

\* A call that moves on keeps its argument, and needs no session of its own.
LEMMA FitsMoved ==
    ASSUME Typed, NEW t \in Threads, Others(t), Kept(t), TypedState', Len(sessions) <= Len(sessions'),
           frame'[t].pc \notin {"temporary", "commit"}
    PROVE  Typed'
<1>1. ArgumentsFit(t)'  BY DEF Typed, ArgumentsFit, Kept
<1>2. QED  BY <1>1, FitsAfter

\* There are finitely many sessions.
LEMMA LengthIsNat == ASSUME Typed PROVE Len(sessions) \in Nat
BY SMT DEF Typed, TypedState

\* A step that moves t on, opening no session.
LEMMA TypedStays ==
    ASSUME Typed, NEW t \in Threads, frame[t].pc \in Inside, Others(t), Kept(t),
           frame'[t].pc \in Inside \ {"temporary", "commit"}, TypedState', Len(sessions') = Len(sessions),
           UNCHANGED <<stateLock, operationLock, activeThread, config, calls>>
    PROVE  Typed' /\ Stays(t)
<1>1. Typed'  BY FitsMoved, LengthIsNat, SMT
<1>2. QED  BY <1>1 DEF Stays

\* A step that only moves t on.
LEMMA TypedQuiet ==
    ASSUME Typed, NEW t \in Threads, frame[t].pc \in Inside, Others(t), Kept(t),
           frame'[t].pc \in Inside \ {"temporary", "commit"},
           UNCHANGED <<locks, token, ontology, sessions, config, calls>>
    PROVE  Typed' /\ Stays(t)
<1>1. TypedState' /\ Len(sessions') = Len(sessions)  BY StateKept DEF Typed
<1>2. QED  BY <1>1, TypedStays DEF locks

\* The frame of no call.
LEMMA IdleIsFrame == Idle \in Frames
<1>1. "idle" \in PCs /\ "none" \in Outcomes  BY DEF PCs, Outcomes
<1>2. QED  BY <1>1 DEF Idle, Frames

\* A thread outside any call: nothing is pending, completed, aimed at or raised.
LEMMA IdleIs ==
    /\ Idle.pc = "idle" /\ Idle.completed = {} /\ Idle.outcome = "none"
    /\ Idle.raised = FALSE /\ Idle.targeted = FALSE
BY DEF Idle

\* At the start every thread is outside.
LEMMA InitIdle == ASSUME Init, NEW t \in Threads PROVE frame[t] = Idle
BY DEF Init

\* A step that changes one frame, or only marks of the others, leaves the other calls
\* where they are.
LEMMA OthersSame == \A t \in Threads : Others(t) \/ Undisturbed(t) => Same(t)
BY SMT DEF Others, Undisturbed, Same

\* The step of t leaves every other thread outside the operation.
LEMMA OnlyOneInside ==
    ASSUME Typed, Locks, NEW t \in Threads, frame[t].pc \in HeldPCs
    PROVE  \A u \in Threads \ {t} : frame[u].pc \notin HeldPCs
BY DEF Locks

\* Inside an operation a thread holds the operation lock.
LEMMA HeldInside == Inside \subseteq HeldPCs /\ Begun \subseteq Inside
BY DEF HeldPCs, Begun, Inside

-----------------------------------------------------------------------------
(***************************************************************************)
(* Typed.  A step inside an operation stays inside it and leaves the locks *)
(* and the other frames alone.                                             *)
(***************************************************************************)
\* The steps of _operation() around the body of a call do what Acts says.
LEMMA TypedProtocol ==
    ASSUME Typed, NEW t \in Threads, Protocol(t)
    PROVE  Typed' /\ Acts(t)
\* The operation becomes the active one.
<1>operationStarts. ASSUME frame \in [Threads -> Frames], NEW pc \in PCs, NEW v \in SUBSET Axioms,
                           frame' = [frame EXCEPT ![t].pc = pc, ![t].start = v]
                    PROVE  Others(t) /\ Kept(t) /\ Working(t) /\ frame'[t].pc = pc
                             /\ frame'[t].outcome = frame[t].outcome
  <2> USE <1>operationStarts
  <2> DEFINE f == [frame[t] EXCEPT !.pc = pc, !.start = v]
  <2>1. f \in Frames  BY ZenonT(60) DEF Frames
  <2>2. frame' = [frame EXCEPT ![t] = f]  OBVIOUS
  <2>3. Others(t) /\ frame'[t] = f  BY <2>1, <2>2, Update
  <2>4. QED  BY <2>3, SMT DEF Frames, Kept, Working
<1>acquire. ASSUME Acquire(t)
            PROVE  Typed' /\ Advances(t, "acquired")
  <2> USE <1>acquire
  <2>1. "acquired" \in PCs  BY DEF PCs
  <2>2. Advances(t, "acquired")  BY <2>1, FrameMoves DEF Acquire, Typed
  <2>3. TypedState' /\ Len(sessions') = Len(sessions)
    BY DEF Acquire, Typed, TypedState, token, ontology
  <2>4. QED  BY <2>2, <2>3, FitsMoved, LengthIsNat, SMT DEF Advances
<1>activate. ASSUME Activate(t)
             PROVE  Typed' /\ Activates(t)
  <2> USE <1>activate
  <2> DEFINE pc == IF frame[t].op = "dispose" THEN "close" ELSE "begin"
  <2>1. "release" \in PCs /\ "disposed" \in Outcomes /\ pc \in PCs /\ pc \in {"close", "begin"}
    BY DEF PCs, Inside, Outcomes
  <2>2. TypedState' /\ Len(sessions') = Len(sessions)
    BY DEF Activate, Typed, TypedState, token, ontology
  <2>3. CASE disposed
    <3>1. Leave(t, "release", "disposed") /\ UNCHANGED activeThread  BY <2>3 DEF Activate
    <3>2. /\ Others(t) /\ Kept(t) /\ Working(t)
          /\ frame'[t].pc = "release" /\ frame'[t].outcome = "disposed"
      BY <2>1, <3>1, LeaveMoves DEF Typed
    <3>3. QED  BY <2>2, <2>3, <3>1, <3>2, FitsMoved, LengthIsNat, SMT DEF Activates
  <2>4. CASE ~disposed
    <3>1. activeThread' = t /\ frame' = [frame EXCEPT ![t].pc = pc, ![t].start = view]
      BY <2>4 DEF Activate
    <3> HIDE DEF pc
    <3>2. /\ Others(t) /\ Kept(t) /\ Working(t)
          /\ frame'[t].pc = pc /\ frame'[t].outcome = frame[t].outcome
      BY <2>1, <3>1, <1>operationStarts DEF Typed, TypedState
    <3>3. Typed'  BY <2>1, <2>2, <3>2, FitsMoved, LengthIsNat, SMT
    <3>4. QED  BY <2>4, <3>1, <3>2, <3>3 DEF Activates, pc
  <2>5. QED  BY <2>3, <2>4
<1>beginClear. ASSUME BeginClear(t)
               PROVE  Typed' /\ Stays(t) /\ Clears(t)
  <2> USE <1>beginClear
  <2>1. "reset" \in PCs /\ DOMAIN observers \in SUBSET Nat
    BY SMT DEF PCs, Inside, Typed, TypedState
  <2>2. Clears(t)
    <3> DEFINE f == [frame[t] EXCEPT !.pc = "reset", !.seen = DOMAIN observers]
    <3>1. frame[t] \in Frames  BY DEF Typed
    <3>2. f \in Frames  BY <2>1, <3>1 DEF Frames
    <3>3. frame' = [frame EXCEPT ![t] = f]  BY DEF BeginClear, Typed
    <3>4. Others(t) /\ frame'[t] = f  BY <3>2, <3>3, Update DEF Typed
    <3>5. QED  BY <3>1, <3>4 DEF Frames, Kept, Clears
  <2>3. TypedState' /\ Len(sessions') = Len(sessions)
    BY DEF BeginClear, Typed, TypedState, locks, ontology
  <2>4. frame[t].pc \in Inside /\ UNCHANGED <<stateLock, operationLock, activeThread, config, calls>>
    BY DEF BeginClear, At, Inside, locks
  <2>5. Others(t) /\ Kept(t) /\ frame'[t].pc \in Inside \ {"temporary", "commit"}
    BY <2>2 DEF Clears, Inside
  <2>6. QED  BY <2>2, <2>3, <2>4, <2>5, TypedStays
<1>beginReset. ASSUME BeginReset(t)
               PROVE  Typed' /\ Stays(t) /\ Advances(t, "check")
  <2> USE <1>beginReset
  <2>1. "check" \in PCs  BY DEF PCs, Inside
  <2>2. Advances(t, "check")  BY <2>1, FrameMoves DEF BeginReset, Typed
  <2>3. TypedState' /\ Len(sessions') = Len(sessions)
    BY DEF BeginReset, Typed, TypedState, locks, ontology
  <2>4. frame[t].pc \in Inside /\ UNCHANGED <<stateLock, operationLock, activeThread, config, calls>>
    BY DEF BeginReset, At, Inside, locks
  <2>5. Others(t) /\ Kept(t) /\ frame'[t].pc \in Inside \ {"temporary", "commit"}
    BY <2>2 DEF Advances, Inside
  <2>6. QED  BY <2>2, <2>3, <2>4, <2>5, TypedStays
<1>firstCheck. ASSUME FirstCheck(t)
               PROVE  Typed' /\ Stays(t) /\ Checked(t, "check")
  <2> USE <1>firstCheck
  <2>1. {"finish", "body"} \subseteq PCs /\ {"interrupted", "error"} \subseteq Outcomes
    BY DEF PCs, Inside, Outcomes
  <2>2. cancelled /\ Leave(t, "finish", "interrupted") => Checked(t, "check")
    BY <2>1, LeaveMoves DEF Checked, Typed
  <2>3. Leave(t, "finish", "error") => Checked(t, "check")
    BY <2>1, LeaveMoves, SMT DEF Checked, Typed
  <2>4. ~cancelled /\ Frame(t, "body") => Checked(t, "check")
    BY <2>1, FrameMoves DEF Checked, Typed, Advances
  <2>5. Checked(t, "check")  BY <2>2, <2>3, <2>4 DEF FirstCheck
  <2>6. Others(t) /\ Kept(t) /\ frame'[t].pc \in {"finish", "body"}  BY <2>5 DEF Checked
  <2>7. QED  BY <2>5, <2>6, TypedQuiet DEF FirstCheck, At, Inside
<1>finalCheck. ASSUME FinalCheck(t)
               PROVE  Typed' /\ Stays(t) /\ Checked(t, "final")
  <2> USE <1>finalCheck
  <2>1. "finish" \in PCs /\ {"interrupted", "error", "ok"} \subseteq Outcomes
    BY DEF PCs, Inside, Outcomes
  <2>2. cancelled /\ Leave(t, "finish", "interrupted") => Checked(t, "final")
    BY <2>1, LeaveMoves DEF Checked, Typed
  <2>3. Leave(t, "finish", "error") => Checked(t, "final")
    BY <2>1, LeaveMoves, SMT DEF Checked, Typed
  <2>4. ~cancelled /\ Leave(t, "finish", "ok") => Checked(t, "final")
    BY <2>1, LeaveMoves DEF Checked, Typed
  <2>5. Checked(t, "final")  BY <2>2, <2>3, <2>4 DEF FinalCheck
  <2>6. Others(t) /\ Kept(t) /\ frame'[t].pc = "finish"  BY <2>5 DEF Checked
  <2>7. QED  BY <2>5, <2>6, TypedQuiet DEF FinalCheck, At, Inside
<1>finish. ASSUME Finish(t)
           PROVE  Typed' /\ Advances(t, "release")
  <2> USE <1>finish
  <2>1. "release" \in PCs  BY DEF PCs
  <2>2. Advances(t, "release")  BY <2>1, FrameMoves DEF Finish, Typed
  <2>3. TypedState' /\ Len(sessions') = Len(sessions)
    BY DEF Finish, Typed, TypedState, token, ontology
  <2>4. QED  BY <2>2, <2>3, FitsMoved, LengthIsNat, SMT DEF Advances
<1>release. ASSUME Release(t)
            PROVE  Typed' /\ Others(t) /\ frame'[t] = Idle
  <2> USE <1>release
  <2>1. Others(t) /\ frame'[t] = Idle  BY IdleIsFrame, Update DEF Release, Typed
  <2>2. TypedState' /\ Len(sessions') = Len(sessions)
    BY DEF Release, Typed, TypedState, token, ontology
  <2>3. ArgumentsFit(t)'  BY <2>1, SMT DEF ArgumentsFit, Idle
  <2>4. QED  BY <2>1, <2>2, <2>3, FitsAfter, LengthIsNat, SMTT(30)
<1> QED
  BY <1>acquire, <1>activate, <1>beginClear, <1>beginReset, <1>firstCheck, <1>finalCheck, <1>finish, <1>release
    DEF Protocol, Acts

\* The steps of the body of a call do what Acts says.
LEMMA TypedBody ==
    ASSUME Typed, NEW t \in Threads, Body(t)
    PROVE  Typed' /\ Acts(t)
\* The step of t opens a session, or finds the runtime's, and remembers it.
<1>sessionTaken. ASSUME frame \in [Threads -> Frames], NEW pc \in PCs, NEW s \in Nat,
                        frame' = [frame EXCEPT ![t].pc = pc, ![t].session = s]
                 PROVE  /\ Others(t) /\ Kept(t)
                        /\ frame'[t].pc = pc /\ frame'[t].session = s /\ frame'[t].outcome = frame[t].outcome
                        /\ frame'[t].proposed = frame[t].proposed /\ frame'[t].completed = frame[t].completed
  <2> USE <1>sessionTaken
  <2> DEFINE f == [frame[t] EXCEPT !.pc = pc, !.session = s]
  <2>1. f \in Frames  BY ZenonT(60) DEF Frames
  <2>2. frame' = [frame EXCEPT ![t] = f]  OBVIOUS
  <2>3. Others(t) /\ frame'[t] = f  BY <2>1, <2>2, Update
  <2>4. QED  BY <2>3, SMT DEF Frames, Kept
\* A flush remembers what it proposes.
<1>proposalMade. ASSUME frame \in [Threads -> Frames], NEW pc \in PCs, NEW p \in SUBSET Axioms,
                        frame' = [frame EXCEPT ![t].pc = pc, ![t].proposed = p]
                 PROVE  /\ Others(t) /\ Kept(t)
                        /\ frame'[t].pc = pc /\ frame'[t].proposed = p /\ frame'[t].outcome = frame[t].outcome
                        /\ frame'[t].completed = frame[t].completed
  <2> USE <1>proposalMade
  <2> DEFINE f == [frame[t] EXCEPT !.pc = pc, !.proposed = p]
  <2>1. f \in Frames  BY ZenonT(60) DEF Frames
  <2>2. frame' = [frame EXCEPT ![t] = f]  OBVIOUS
  <2>3. Others(t) /\ frame'[t] = f  BY <2>1, <2>2, Update
  <2>4. QED  BY <2>3, SMT DEF Frames, Kept
\* A precomputation completes an inference type.
<1>typeCompleted. ASSUME frame \in [Threads -> Frames], NEW type \in InferenceTypes,
                         frame' = [frame EXCEPT ![t].completed = @ \cup {type}]
                  PROVE  /\ Others(t) /\ Kept(t)
                         /\ frame'[t].pc = frame[t].pc /\ frame'[t].outcome = frame[t].outcome
                         /\ frame'[t].completed = frame[t].completed \cup {type}
  <2> USE <1>typeCompleted
  <2> DEFINE f == [frame[t] EXCEPT !.completed = @ \cup {type}]
  <2>1. f \in Frames  BY ZenonT(60) DEF Frames
  <2>2. frame' = [frame EXCEPT ![t] = f]  OBVIOUS
  <2>3. Others(t) /\ frame'[t] = f  BY <2>1, <2>2, Update
  <2>4. QED  BY <2>3, SMT DEF Frames, Kept
<1>typedTaken. ASSUME frame[t].pc \in Inside, NEW pc \in {"temporary", "commit"}, NEW s \in 1..Len(sessions'),
                      Taken(t, pc, s), TypedState', Len(sessions) <= Len(sessions'),
                      UNCHANGED <<stateLock, operationLock, activeThread, config, calls>>
               PROVE  Typed' /\ Stays(t)
  <2> USE <1>typedTaken
  <2>1. ArgumentsFit(t)'  BY DEF Typed, ArgumentsFit, Kept, Taken
  <2>2. Typed'  BY <2>1, FitsAfter DEF Taken
  <2>3. QED  BY <2>2 DEF Stays, Taken, Inside
<1>typedOpens. ASSUME NEW p \in SUBSET Axioms, Len(sessions) < MaxSessions, sessions' = NewSession(p),
                      observers' = Attached(Len(sessions')),
                      UNCHANGED <<locks, cancelled, ontology, config, calls>>
               PROVE  TypedState' /\ Len(sessions') = Len(sessions) + 1
  <2> USE <1>typedOpens
  <2>1. sessions' \in Seq(Sessions) /\ Len(sessions') = Len(sessions) + 1
    BY SessionOpens DEF Typed, TypedState
  <2>2. Len(sessions') <= MaxSessions /\ Len(sessions) \in Nat
    BY <2>1, FacadeAssumption, SMT DEF Typed, TypedState
  <2>3. DOMAIN observers' \subseteq 1..Len(sessions') /\ observers' \in [DOMAIN observers' -> BOOLEAN]
    <3>1. CASE config.backend = "python"
      BY <2>1, <2>2, <3>1, SMT DEF Attached, Typed, TypedState
    <3>2. CASE config.backend # "python"
      BY <2>1, <2>2, <3>2, SMT DEF Attached, Typed, TypedState
    <3>3. QED  BY <3>1, <3>2
  <2>4. runtime' \in [session : 1..Len(sessions'), program : SUBSET Axioms, computed : SUBSET InferenceTypes]
    BY <2>1, <2>2, SMT DEF Typed, TypedState, ontology
  <2>5. QED  BY <2>1, <2>2, <2>3, <2>4 DEF Typed, TypedState, locks, ontology
<1>typedCloses. ASSUME NEW s \in 1..Len(sessions), sessions' = Closed(s), observers' = Detached(s)
                PROVE  /\ sessions' \in Seq(Sessions) /\ Len(sessions') = Len(sessions)
                       /\ DOMAIN observers' \subseteq 1..Len(sessions')
                       /\ observers' \in [DOMAIN observers' -> BOOLEAN]
  <2> USE <1>typedCloses
  <2>1. sessions' \in Seq(Sessions) /\ Len(sessions') = Len(sessions)
    BY SessionCloses DEF Typed, TypedState
  <2>2. QED  BY <2>1 DEF Typed, TypedState, Detached
<1>query. ASSUME Query(t)
          PROVE  Typed' /\ Stays(t) /\ (Advances(t, "final") \/ Failed(t, runtime.session))
  <2> USE <1>query
  <2>1. "final" \in PCs  BY DEF PCs, Inside
  <2>2. Advances(t, "final") \/ Failed(t, runtime.session)
    BY <2>1, FrameMoves, FailsMoves DEF Query, Typed
  <2>3. Others(t) /\ Kept(t) /\ frame'[t].pc \in {"finish", "final"}  BY <2>2 DEF Advances, Failed
  <2>4. QED  BY <2>2, <2>3, TypedQuiet DEF Query, At, Inside
<1>openTemporary. ASSUME OpenTemporary(t)
                  PROVE  /\ Typed' /\ Stays(t)
                         /\ \/ /\ ~cancelled /\ sessions' = NewSession(Compiled(view))
                               /\ observers' = Attached(Len(sessions'))
                               /\ Taken(t, "temporary", Len(sessions'))
                            \/ Failed(t, 0) /\ UNCHANGED <<observers, sessions>>
  <2> USE <1>openTemporary
  <2>1. frame[t].pc \in Inside  BY DEF OpenTemporary, At, Inside
  <2>2. ASSUME ~cancelled, Len(sessions) < MaxSessions, sessions' = NewSession(Compiled(view)),
               observers' = Attached(Len(sessions')),
               frame' = [frame EXCEPT ![t].pc = "temporary", ![t].session = Len(sessions')]
        PROVE  Typed' /\ Stays(t) /\ Taken(t, "temporary", Len(sessions'))
    <3>1. Compiled(view) \in SUBSET Axioms  BY DEF Compiled, Typed, TypedState
    <3>2. TypedState' /\ Len(sessions') = Len(sessions) + 1
      BY <2>2, <3>1, <1>typedOpens DEF OpenTemporary
    <3>3. "temporary" \in PCs /\ Len(sessions') \in Nat /\ Len(sessions') \in 1..Len(sessions')
          /\ Len(sessions) <= Len(sessions')
      BY <3>2, LengthIsNat, SMT DEF PCs, Inside
    <3>4. Taken(t, "temporary", Len(sessions'))  BY <2>2, <3>3, <1>sessionTaken DEF Typed, Taken
    <3>5. QED  BY <2>1, <3>2, <3>3, <3>4, <1>typedTaken DEF OpenTemporary, locks
  <2>3. ASSUME Fails(t, 0), UNCHANGED <<observers, sessions>>
        PROVE  Typed' /\ Stays(t) /\ Failed(t, 0)
    <3>1. Failed(t, 0)  BY <2>3, FailsMoves DEF Typed
    <3>2. Others(t) /\ Kept(t) /\ frame'[t].pc = "finish"  BY <3>1 DEF Failed
    <3>3. QED  BY <2>1, <2>3, <3>1, <3>2, TypedQuiet DEF OpenTemporary, Inside, token
  <2>4. QED  BY <2>2, <2>3 DEF OpenTemporary
<1>checkTemporary. ASSUME CheckTemporary(t)
                   PROVE  /\ Typed' /\ Stays(t)
                          /\ Advances(t, "final") \/ Failed(t, frame[t].session)
  <2> USE <1>checkTemporary
  <2> DEFINE s == frame[t].session
  <2>1. "final" \in PCs /\ frame[t].pc \in Inside  BY DEF PCs, Inside, CheckTemporary, At
  <2>2. s \in 1..Len(sessions)  BY DEF CheckTemporary, At, Typed, ArgumentsFit
  <2>3. Advances(t, "final") \/ Failed(t, s)
    BY <2>1, FrameMoves, FailsMoves DEF CheckTemporary, Typed
  <2>4. Others(t) /\ Kept(t) /\ frame'[t].pc \in {"finish", "final"}  BY <2>3 DEF Advances, Failed
  <2>5. TypedState' /\ Len(sessions') = Len(sessions)
    <3>1. sessions' = Closed(s) /\ observers' = Detached(s)  BY DEF CheckTemporary
    <3>2. QED  BY <2>2, <3>1, <1>typedCloses DEF CheckTemporary, Typed, TypedState, locks, ontology
  <2>6. QED  BY <2>1, <2>3, <2>4, <2>5, TypedStays DEF CheckTemporary, Inside, locks
<1>callbackRaises. ASSUME CallbackRaises(t)
                   PROVE  /\ Typed' /\ Stays(t) /\ Working(t)
                          /\ frame'[t].pc = "finish" /\ frame'[t].outcome = "error"
  <2> USE <1>callbackRaises
  <2>1. "finish" \in PCs /\ "error" \in Outcomes /\ frame[t].pc \in Inside
    BY DEF PCs, Inside, Outcomes, CallbackRaises, At
  <2>2. /\ Others(t) /\ Kept(t) /\ Working(t)
        /\ frame'[t].pc = "finish" /\ frame'[t].outcome = "error"
    BY <2>1, LeaveMoves DEF CallbackRaises, Typed
  <2>3. TypedState' /\ Len(sessions') = Len(sessions)
    BY DEF CallbackRaises, Typed, TypedState, locks, ontology
  <2>4. QED  BY <2>1, <2>2, <2>3, TypedStays DEF CallbackRaises, Inside, locks
<1>addAxioms. ASSUME AddAxioms(t)
              PROVE  /\ Typed' /\ Stays(t)
                     /\ Advances(t, IF config.buffered THEN "final" ELSE "flush")
  <2> USE <1>addAxioms
  <2> DEFINE pc == IF config.buffered THEN "final" ELSE "flush"
  <2>1. pc \in PCs /\ frame[t].pc \in Inside /\ pc \in {"final", "flush"}
    BY DEF PCs, Inside, AddAxioms, At
  <2>2. frame[t].arg \subseteq Axioms  BY DEF AddAxioms, Typed, ArgumentsFit
  <2>3. TypedState' /\ Len(sessions') = Len(sessions)
    BY <2>2 DEF AddAxioms, Typed, TypedState, locks, token
  <2>4. Frame(t, pc)  BY DEF AddAxioms
  <2> HIDE DEF pc
  <2>5. Advances(t, pc)  BY <2>1, <2>4, FrameMoves DEF Typed
  <2>6. Others(t) /\ Kept(t) /\ frame'[t].pc \in {"final", "flush"}  BY <2>1, <2>5 DEF Advances
  <2>7. QED  BY <2>1, <2>3, <2>5, <2>6, TypedStays DEF AddAxioms, Inside, locks, pc
<1>removeAxioms. ASSUME RemoveAxioms(t)
                 PROVE  /\ Typed' /\ Stays(t)
                        /\ Advances(t, IF config.buffered THEN "final" ELSE "flush")
  <2> USE <1>removeAxioms
  <2> DEFINE pc == IF config.buffered THEN "final" ELSE "flush"
  <2>1. pc \in PCs /\ frame[t].pc \in Inside /\ pc \in {"final", "flush"}
    BY DEF PCs, Inside, RemoveAxioms, At
  <2>2. frame[t].arg \subseteq Axioms  BY DEF RemoveAxioms, Typed, ArgumentsFit
  <2>3. TypedState' /\ Len(sessions') = Len(sessions)
    BY <2>2 DEF RemoveAxioms, Typed, TypedState, locks, token
  <2>4. Frame(t, pc)  BY DEF RemoveAxioms
  <2> HIDE DEF pc
  <2>5. Advances(t, pc)  BY <2>1, <2>4, FrameMoves DEF Typed
  <2>6. Others(t) /\ Kept(t) /\ frame'[t].pc \in {"final", "flush"}  BY <2>1, <2>5 DEF Advances
  <2>7. QED  BY <2>1, <2>3, <2>5, <2>6, TypedStays DEF RemoveAxioms, Inside, locks, pc
<1>flush. ASSUME Flush(t)
          PROVE  Typed' /\ Stays(t) /\ Advances(t, "flush")
  <2> USE <1>flush
  <2>1. "flush" \in PCs  BY DEF PCs, Inside
  <2>2. Advances(t, "flush")  BY <2>1, FrameMoves DEF Flush, Typed
  <2>3. Others(t) /\ Kept(t) /\ frame'[t].pc = "flush"  BY <2>2 DEF Advances
  <2>4. QED  BY <2>2, <2>3, TypedQuiet DEF Flush, At, Inside
<1>flushCompile. ASSUME FlushCompile(t)
                 PROVE  /\ Typed' /\ Stays(t)
                        /\ \/ additions = {} /\ removals = {} /\ Advances(t, "final")
                           \/ Proposed(t)
                           \/ Failed(t, 0)
  <2> USE <1>flushCompile
  <2> DEFINE pc == IF config.backend = "encoded" THEN "create" ELSE "delta"
             p == (view \cup additions) \ removals
  <2>1. "final" \in PCs /\ pc \in PCs /\ pc \in {"create", "delta"} /\ p \in SUBSET Axioms
    BY DEF PCs, Inside, Typed, TypedState
  <2> HIDE DEF pc, p
  <2>2. additions = {} /\ removals = {} => Advances(t, "final")
    BY <2>1, FrameMoves DEF FlushCompile, Typed
  <2>3. ASSUME frame' = [frame EXCEPT ![t].pc = pc, ![t].proposed = p]
        PROVE  Proposed(t)
    <3>1. /\ Others(t) /\ Kept(t)
          /\ frame'[t].pc = pc /\ frame'[t].proposed = p /\ frame'[t].outcome = frame[t].outcome
          /\ frame'[t].completed = frame[t].completed
      BY <2>1, <2>3, <1>proposalMade DEF Typed
    <3>2. QED  BY <2>1, <3>1 DEF Proposed, p
  <2>4. Fails(t, 0) => Failed(t, 0)  BY FailsMoves DEF Typed
  <2>5. \/ additions = {} /\ removals = {} /\ Advances(t, "final")
        \/ Proposed(t)
        \/ Failed(t, 0)
    BY <2>2, <2>3, <2>4 DEF FlushCompile, pc, p
  <2>6. Others(t) /\ Kept(t) /\ frame'[t].pc \in {"finish", "final", "create", "delta"}
    BY <2>5 DEF Advances, Proposed, Failed
  <2>7. QED  BY <2>5, <2>6, TypedQuiet DEF FlushCompile, At, Inside
<1>flushDelta. ASSUME FlushDelta(t)
               PROVE  /\ Typed' /\ Stays(t)
                      /\ \/ /\ Compiled(frame[t].proposed) = sessions[runtime.session].program
                            /\ Taken(t, "commit", runtime.session)
                         \/ Advances(t, "create")
                         \/ Failed(t, runtime.session)
  <2> USE <1>flushDelta
  <2>1. {"commit", "create"} \subseteq PCs /\ runtime.session \in 1..Len(sessions) /\ runtime.session \in Nat
    BY SMT DEF PCs, Inside, Typed, TypedState
  <2>2. \/ /\ Compiled(frame[t].proposed) = sessions[runtime.session].program
           /\ Taken(t, "commit", runtime.session)
        \/ Advances(t, "create")
        \/ Failed(t, runtime.session)
    BY <2>1, <1>sessionTaken, FrameMoves, FailsMoves, SMT DEF FlushDelta, Typed, Taken
  <2>3. frame[t].pc \in Inside  BY DEF FlushDelta, At, Inside
  <2>4. CASE Taken(t, "commit", runtime.session)
    <3>1. TypedState' /\ Len(sessions') = Len(sessions)  BY StateKept DEF FlushDelta, Typed
    <3>2. Typed' /\ Stays(t)
      BY <2>1, <2>3, <2>4, <3>1, <1>typedTaken, LengthIsNat, SMTT(30) DEF FlushDelta, locks
    <3>3. QED  BY <2>2, <3>2
  <2>5. CASE Advances(t, "create") \/ Failed(t, runtime.session)
    <3>1. Others(t) /\ Kept(t) /\ frame'[t].pc \in {"finish", "create"}
      BY <2>5 DEF Advances, Failed
    <3>2. QED  BY <2>2, <2>3, <3>1, TypedQuiet DEF FlushDelta, Inside
  <2>6. QED  BY <2>2, <2>4, <2>5
<1>flushCreate. ASSUME FlushCreate(t)
                PROVE  /\ Typed' /\ Stays(t)
                       /\ \/ /\ ~cancelled /\ sessions' = NewSession(Compiled(frame[t].proposed))
                             /\ observers' = Attached(Len(sessions')) /\ Taken(t, "commit", Len(sessions'))
                          \/ Failed(t, 0) /\ UNCHANGED <<observers, sessions>>
  <2> USE <1>flushCreate
  <2>1. frame[t].pc \in Inside  BY DEF FlushCreate, At, Inside
  <2>2. ASSUME ~cancelled, Len(sessions) < MaxSessions, sessions' = NewSession(Compiled(frame[t].proposed)),
               observers' = Attached(Len(sessions')),
               frame' = [frame EXCEPT ![t].pc = "commit", ![t].session = Len(sessions')]
        PROVE  Typed' /\ Stays(t) /\ Taken(t, "commit", Len(sessions'))
    <3>1. Compiled(frame[t].proposed) \in SUBSET Axioms  BY DEF Compiled, Typed, Frames
    <3>2. TypedState' /\ Len(sessions') = Len(sessions) + 1
      BY <2>2, <3>1, <1>typedOpens DEF FlushCreate
    <3>3. "commit" \in PCs /\ Len(sessions') \in Nat /\ Len(sessions') \in 1..Len(sessions')
          /\ Len(sessions) <= Len(sessions')
      BY <3>2, LengthIsNat, SMT DEF PCs, Inside
    <3>4. Taken(t, "commit", Len(sessions'))  BY <2>2, <3>3, <1>sessionTaken DEF Typed, Taken
    <3>5. QED  BY <2>1, <3>2, <3>3, <3>4, <1>typedTaken DEF FlushCreate, locks
  <2>3. ASSUME Fails(t, 0), UNCHANGED <<observers, sessions>>
        PROVE  Typed' /\ Stays(t) /\ Failed(t, 0)
    <3>1. Failed(t, 0)  BY <2>3, FailsMoves DEF Typed
    <3>2. Others(t) /\ Kept(t) /\ frame'[t].pc = "finish"  BY <3>1 DEF Failed
    <3>3. QED  BY <2>1, <2>3, <3>1, <3>2, TypedQuiet, SMTT(30) DEF FlushCreate, Inside, token
  <2>4. QED  BY <2>2, <2>3 DEF FlushCreate
<1>flushCommit. ASSUME FlushCommit(t)
                PROVE  /\ Typed' /\ Stays(t)
                       /\ \/ Advances(t, "final") /\ view' = frame[t].proposed
                          \/ /\ Failed(t, frame[t].session)
                             /\ UNCHANGED <<view, additions, removals, runtime, precomputed>>
  <2> USE <1>flushCommit
  <2> DEFINE s == frame[t].session
             fresh == s # runtime.session
  <2>1. {"final", "finish"} \subseteq PCs /\ frame[t].pc \in Inside
    BY DEF PCs, Inside, FlushCommit, At
  <2>2. s \in 1..Len(sessions) /\ runtime.session \in 1..Len(sessions)
    BY DEF FlushCommit, At, Typed, ArgumentsFit, TypedState
  <2>3. \/ Advances(t, "final") /\ view' = frame[t].proposed
        \/ Failed(t, s) /\ UNCHANGED <<view, additions, removals, runtime, precomputed>>
    BY <2>1, FrameMoves, FailsMoves DEF FlushCommit, Typed
  <2>4. Others(t) /\ Kept(t) /\ frame'[t].pc \in {"finish", "final"}  BY <2>3 DEF Advances, Failed
  <2>5. /\ sessions' \in Seq(Sessions) /\ Len(sessions') = Len(sessions)
        /\ DOMAIN observers' \subseteq 1..Len(sessions') /\ observers' \in [DOMAIN observers' -> BOOLEAN]
    <3>1. CASE sessions' = Closed(runtime.session) /\ observers' = Detached(runtime.session)
      BY <2>2, <3>1, <1>typedCloses
    <3>2. CASE sessions' = Closed(s) /\ observers' = Detached(s)
      BY <2>2, <3>2, <1>typedCloses
    <3>3. CASE UNCHANGED <<sessions, observers>>
      BY <3>3 DEF Typed, TypedState
    <3>4. QED  BY <3>1, <3>2, <3>3 DEF FlushCommit
  <2>6. /\ view' \in SUBSET Axioms /\ additions' \in SUBSET Axioms /\ removals' \in SUBSET Axioms
        /\ precomputed' \in SUBSET InferenceTypes
        /\ runtime' \in [session : 1..Len(sessions'), program : SUBSET Axioms,
                         computed : SUBSET InferenceTypes]
    <3>1. frame[t].proposed \in SUBSET Axioms /\ Compiled(frame[t].proposed) \in SUBSET Axioms
      BY DEF Typed, Frames, Compiled
    <3>2. QED  BY <2>2, <2>5, <3>1, SMT DEF FlushCommit, Typed, TypedState
  <2>7. TypedState'  BY <2>5, <2>6 DEF FlushCommit, Typed, TypedState, locks
  <2>8. QED  BY <2>1, <2>3, <2>4, <2>5, <2>7, TypedStays DEF FlushCommit, Inside, locks
<1>precomputeType. ASSUME PrecomputeType(t)
                   PROVE  /\ Typed' /\ Stays(t)
                          /\ Completes(t) \/ (Failed(t, runtime.session) /\ UNCHANGED runtime)
  <2> USE <1>precomputeType
  <2>1. frame[t].pc \in Inside /\ {"body", "finish"} \subseteq Inside \ {"temporary", "commit"}
    BY DEF PrecomputeType, At, Inside
  <2>2. PICK type \in frame[t].arg \ (precomputed \cup frame[t].completed) :
            \/ /\ Runs(runtime.session)
               /\ runtime' = [runtime EXCEPT !.computed = @ \cup {type}]
               /\ frame' = [frame EXCEPT ![t].completed = @ \cup {type}]
            \/ Fails(t, runtime.session) /\ UNCHANGED runtime
    BY DEF PrecomputeType
  <2>3. type \in InferenceTypes \ frame[t].completed  BY DEF PrecomputeType, Typed, ArgumentsFit
  <2>4. ASSUME runtime' = [runtime EXCEPT !.computed = @ \cup {type}],
               frame' = [frame EXCEPT ![t].completed = @ \cup {type}]
        PROVE  Typed' /\ Stays(t) /\ Completes(t)
    <3>1. /\ Others(t) /\ Kept(t)
          /\ frame'[t].pc = frame[t].pc /\ frame'[t].outcome = frame[t].outcome
          /\ frame'[t].completed = frame[t].completed \cup {type}
      BY <2>3, <2>4, <1>typeCompleted DEF Typed
    <3>2. TypedState' /\ Len(sessions') = Len(sessions)
      BY <2>3, <2>4, ZenonT(60) DEF PrecomputeType, Typed, TypedState, locks, token
    <3>3. Completes(t) /\ frame'[t].pc = "body"
      BY <2>3, <2>4, <3>1 DEF Completes, PrecomputeType, At
    <3>4. QED  BY <2>1, <3>1, <3>2, <3>3, TypedStays DEF PrecomputeType, locks
  <2>5. ASSUME Fails(t, runtime.session), UNCHANGED runtime
        PROVE  Typed' /\ Stays(t) /\ Failed(t, runtime.session)
    <3>1. Failed(t, runtime.session)  BY <2>5, FailsMoves DEF Typed
    <3>2. Others(t) /\ Kept(t) /\ frame'[t].pc = "finish"  BY <3>1 DEF Failed
    <3>3. QED  BY <2>1, <2>5, <3>1, <3>2, TypedQuiet DEF PrecomputeType, ontology
  <2>6. QED  BY <2>2, <2>4, <2>5
<1>precomputeDone. ASSUME PrecomputeDone(t)
                   PROVE  Typed' /\ Stays(t) /\ Advances(t, "final")
  <2> USE <1>precomputeDone
  <2>1. "final" \in PCs /\ frame[t].pc \in Inside  BY DEF PCs, Inside, PrecomputeDone, At
  <2>2. Advances(t, "final")  BY <2>1, FrameMoves DEF PrecomputeDone, Typed
  <2>3. Others(t) /\ Kept(t) /\ frame'[t].pc = "final"  BY <2>2 DEF Advances
  <2>4. frame[t].completed \subseteq InferenceTypes  BY DEF Typed, Frames
  <2>5. TypedState' /\ Len(sessions') = Len(sessions)
    BY <2>4 DEF PrecomputeDone, Typed, TypedState, locks, token
  <2>6. QED  BY <2>1, <2>2, <2>3, <2>5, TypedStays DEF PrecomputeDone, Inside, locks
<1>disposeClose. ASSUME DisposeClose(t)
                 PROVE  Typed' /\ Stays(t) /\ Closes(t)
  <2> USE <1>disposeClose
  <2>1. {"mark", "finish"} \subseteq PCs /\ frame[t].pc \in Inside /\ {"ok", "error"} \subseteq Outcomes
    BY DEF PCs, Inside, Outcomes, DisposeClose, At
  <2>2. Closes(t)  BY <2>1, LeaveMoves DEF DisposeClose, Typed, Closes
  <2>3. Others(t) /\ Kept(t) /\ frame'[t].pc \in {"mark", "finish"}  BY <2>2 DEF Closes
  <2>4. runtime.session \in 1..Len(sessions)  BY DEF Typed, TypedState
  <2>5. TypedState' /\ Len(sessions') = Len(sessions)
    <3>1. CASE sessions' = Closed(runtime.session) /\ observers' = Detached(runtime.session)
      BY <2>4, <3>1, <1>typedCloses DEF DisposeClose, Typed, TypedState, locks, ontology
    <3>2. CASE UNCHANGED <<sessions, observers>>
      BY <3>2 DEF DisposeClose, Typed, TypedState, locks, ontology
    <3>3. QED  BY <3>1, <3>2 DEF DisposeClose
  <2>6. QED  BY <2>1, <2>2, <2>3, <2>5, TypedStays DEF DisposeClose, Inside, locks
<1>disposeMark. ASSUME DisposeMark(t)
                PROVE  Typed' /\ Stays(t) /\ Advances(t, "finish")
  <2> USE <1>disposeMark
  <2>1. "finish" \in PCs /\ frame[t].pc \in Inside  BY DEF PCs, Inside, DisposeMark, At
  <2>2. Advances(t, "finish")  BY <2>1, FrameMoves DEF DisposeMark, Typed
  <2>3. Others(t) /\ Kept(t) /\ frame'[t].pc = "finish"  BY <2>2 DEF Advances
  <2>4. TypedState' /\ Len(sessions') = Len(sessions)
    BY DEF DisposeMark, Typed, TypedState, token, ontology
  <2>5. /\ frame'[t].pc \in Inside \ {"temporary", "commit"}
        /\ UNCHANGED <<stateLock, operationLock, activeThread, config, calls>>
    BY <2>3 DEF DisposeMark, Inside
  <2>6. QED  BY <2>1, <2>2, <2>3, <2>4, <2>5, TypedStays
<1> QED
  BY <1>query, <1>openTemporary, <1>checkTemporary, <1>callbackRaises, <1>addAxioms, <1>removeAxioms, <1>flush,
     <1>flushCompile, <1>flushDelta, <1>flushCreate, <1>flushCommit, <1>precomputeType,
     <1>precomputeDone, <1>disposeClose, <1>disposeMark DEF Body, Acts

\* The steps of interrupt() do what Acts says.
LEMMA TypedInterrupt ==
    ASSUME Typed, Locks, NEW t \in Threads, InterruptEnter(t) \/ InterruptSet(t) \/ InterruptSignal(t)
    PROVE  Typed' /\ Acts(t)
\* Replacing the frames of two threads.
<1>updateTwo. ASSUME frame \in [Threads -> Frames], NEW a \in Threads \ {t}, NEW f \in Frames,
                     NEW g \in Frames, frame' = [frame EXCEPT ![t] = f, ![a] = g]
              PROVE  /\ frame' \in [Threads -> Frames] /\ frame'[t] = f /\ frame'[a] = g
                     /\ \A u \in Threads \ {t, a} : frame'[u] = frame[u]
  BY <1>updateTwo
\* The active thread is never the one that interrupts it.
<1>interruptsAnother. ASSUME frame[t].pc \notin Inside, activeThread # Nobody
                      PROVE  activeThread \in Threads \ {t}
  BY <1>interruptsAnother DEF Typed, TypedState, Locks
\* Only the interrupting thread's frame can come to need a session, and does not.
<1>fitsUndisturbed. ASSUME Undisturbed(t), TypedState', UNCHANGED sessions, ArgumentsFit(t)'
                    PROVE  Typed'
  <2> USE <1>fitsUndisturbed
  <2>1. \A u \in Threads \ {t} : ArgumentsFit(u)'
    BY SMT DEF Typed, ArgumentsFit, Undisturbed
  <2>2. QED  BY <2>1 DEF Typed, Undisturbed
<1>returnMoves. ASSUME Return(t, activeThread)
                PROVE  /\ Undisturbed(t) /\ frame'[t] = Idle
                       /\ \A u \in Threads \ {t} : frame'[u].targeted = frame[u].targeted
                             /\ frame'[u].raised = frame[u].raised
  <2> USE <1>returnMoves
  <2> DEFINE g(u) == [frame[u] EXCEPT !.delivered =
                          @ \/ frame[u].pc \notin {"finish", "release", "close", "mark"}]
  <2>1. \A u \in Threads :
           /\ u = t => frame'[u] = Idle
           /\ u # t /\ u = activeThread => frame'[u] = g(u)
           /\ u # t /\ u # activeThread => frame'[u] = frame[u]
    BY DEF Return
  <2>2. \A u \in Threads :
           /\ g(u) \in Frames
           /\ g(u).pc = frame[u].pc /\ g(u).op = frame[u].op /\ g(u).arg = frame[u].arg
           /\ g(u).proposed = frame[u].proposed /\ g(u).session = frame[u].session
           /\ g(u).completed = frame[u].completed /\ g(u).seen = frame[u].seen
           /\ g(u).outcome = frame[u].outcome
           /\ g(u).targeted = frame[u].targeted /\ g(u).raised = frame[u].raised
    <3> SUFFICES ASSUME NEW u \in Threads
                 PROVE  /\ g(u) \in Frames
                        /\ g(u).pc = frame[u].pc /\ g(u).op = frame[u].op /\ g(u).arg = frame[u].arg
                        /\ g(u).proposed = frame[u].proposed /\ g(u).session = frame[u].session
                        /\ g(u).completed = frame[u].completed /\ g(u).seen = frame[u].seen
                        /\ g(u).outcome = frame[u].outcome
                        /\ g(u).targeted = frame[u].targeted /\ g(u).raised = frame[u].raised
      OBVIOUS
    <3>1. frame[u] \in Frames  BY DEF Typed
    <3>2. QED  BY <3>1 DEF Frames
  <2> HIDE DEF g
  <2>3. \A u \in Threads : frame'[u] \in Frames  BY <2>1, <2>2, IdleIsFrame DEF Typed
  <2>4. frame' \in [Threads -> Frames]
    <3>1. frame' = [u \in Threads |-> frame'[u]]  BY DEF Return
    <3>2. QED  BY <2>3, <3>1
  <2>5. QED  BY <2>1, <2>2, <2>4, SMT DEF Undisturbed
<1>interruptEnter. ASSUME InterruptEnter(t)
                   PROVE  Typed' /\ Aims(t)
  <2> USE <1>interruptEnter
  <2>1. TypedState'
    BY SMTT(30) DEF InterruptEnter, Typed, TypedState, Configs, token, ontology
  <2>2. CASE disposed \/ activeThread = Nobody
    <3>1. UNCHANGED <<stateLock, frame, sessions>>  BY <2>2 DEF InterruptEnter
    <3>2. QED  BY <2>1, <3>1 DEF Aims, Typed, ArgumentsFit
  <2>3. CASE ~(disposed \/ activeThread = Nobody)
    <3> DEFINE a == activeThread
               f == [frame[t] EXCEPT !.pc = "set"]
               g == [frame[a] EXCEPT !.targeted = TRUE]
    <3>1. a \in Threads \ {t}
      BY <2>3, <1>interruptsAnother DEF InterruptEnter, At, Inside
    <3>2. f \in Frames /\ g \in Frames
      <4>1. "set" \in PCs /\ frame[t] \in Frames /\ frame[a] \in Frames  BY <3>1 DEF PCs, Typed
      <4>2. QED  BY <4>1 DEF Frames
    <3>3. stateLock' = t /\ frame' = [frame EXCEPT ![t] = f, ![a] = g]
      BY <2>3, <3>1 DEF InterruptEnter, Typed
    <3>4. /\ frame' \in [Threads -> Frames] /\ frame'[t] = f /\ frame'[a] = g
          /\ \A u \in Threads \ {t, a} : frame'[u] = frame[u]
      <4> HIDE DEF f, g, a
      <4>1. QED  BY <3>1, <3>2, <3>3, <1>updateTwo DEF Typed
    <3>5. frame[t] \in Frames /\ frame[a] \in Frames  BY <3>1 DEF Typed
    <3>6. Undisturbed(t)
      <4>1. \A u \in Threads \ {t, a} : frame'[u] = frame[u] /\ u # activeThread  BY <3>4
      <4>2. QED  BY <3>4, <3>5, <4>1, SMT DEF Undisturbed, Frames
    <3>7. Aims(t)  BY <2>3, <3>1, <3>3, <3>4, <3>5, <3>6, SMTT(30) DEF Aims, Frames
    <3>8. frame'[t].op = frame[t].op /\ frame'[t].arg = frame[t].arg /\ frame'[t].pc = "set"
      BY <3>4, <3>5 DEF Frames
    <3>9. ArgumentsFit(t)'  BY <3>8 DEF Typed, ArgumentsFit
    <3>10. UNCHANGED sessions  BY DEF InterruptEnter
    <3>11. QED  BY <2>1, <3>6, <3>7, <3>9, <3>10, <1>fitsUndisturbed
  <2>4. QED  BY <2>2, <2>3
<1>interruptSet. ASSUME InterruptSet(t)
                 PROVE  Typed' /\ (Returns(t) \/ Sets(t))
  <2> USE <1>interruptSet
  <2>1. TypedState'
    BY DEF InterruptSet, Typed, TypedState, ontology
  <2>2. CASE cancelled
    <3>1. Returns(t)  BY <2>2, <1>returnMoves DEF InterruptSet, Returns
    <3>2. ArgumentsFit(t)'  BY <3>1, SMT DEF Returns, ArgumentsFit, Idle
    <3>3. UNCHANGED sessions  BY DEF InterruptSet
    <3>4. Undisturbed(t)  BY <3>1 DEF Returns
    <3>5. QED  BY <2>1, <3>1, <3>2, <3>3, <3>4, <1>fitsUndisturbed
  <2>3. CASE ~cancelled
    <3> DEFINE a == activeThread
               f == [frame[t] EXCEPT !.pc = "signal", !.seen = DOMAIN observers]
               g == [frame[a] EXCEPT !.raised = (frame[a].pc \in Begun)]
    <3>1. a \in Threads \ {t}
      <4>1. stateLock = t /\ frame[t].pc \notin Inside  BY DEF InterruptSet, At, Locks, Inside
      <4>2. QED  BY <4>1 DEF Locks
    <3>2. f \in Frames /\ g \in Frames
      <4>1. "signal" \in PCs /\ DOMAIN observers \in SUBSET Nat /\ frame[t] \in Frames /\ frame[a] \in Frames
        BY <3>1, SMT DEF PCs, Typed, TypedState
      <4>2. f \in Frames  BY <4>1 DEF Frames
      <4> DEFINE b == frame[a].pc \in Begun
      <4>3. b \in BOOLEAN  BY SMT
      <4>4. g = [frame[a] EXCEPT !.raised = b]  OBVIOUS
      <4> HIDE DEF b, g
      <4>5. g \in Frames  BY <4>1, <4>3, <4>4 DEF Frames
      <4>6. QED  BY <4>2, <4>5
    <3>3. frame' = [frame EXCEPT ![t] = f, ![a] = g]
      BY <2>3, <3>1 DEF InterruptSet, Typed
    <3>4. /\ frame' \in [Threads -> Frames] /\ frame'[t] = f /\ frame'[a] = g
          /\ \A u \in Threads \ {t, a} : frame'[u] = frame[u]
      <4> HIDE DEF f, g, a
      <4>1. QED  BY <3>1, <3>2, <3>3, <1>updateTwo DEF Typed
    <3>5. frame[t] \in Frames /\ frame[a] \in Frames  BY <3>1 DEF Typed
    <3>6. Undisturbed(t)
      <4>1. \A u \in Threads \ {t, a} : frame'[u] = frame[u] /\ u # activeThread  BY <3>4
      <4>2. QED  BY <3>4, <3>5, <4>1, SMT DEF Undisturbed, Frames
    <3>7. Sets(t)
      <4>1. UNCHANGED stateLock /\ cancelled' = TRUE  BY <2>3 DEF InterruptSet
      <4>2. QED  BY <2>3, <3>1, <3>4, <3>5, <3>6, <4>1, SMTT(30) DEF Sets, Frames
    <3>8. frame'[t].op = frame[t].op /\ frame'[t].arg = frame[t].arg /\ frame'[t].pc = "signal"
      BY <3>4, <3>5 DEF Frames
    <3>9. ArgumentsFit(t)'  BY <3>8 DEF Typed, ArgumentsFit
    <3>10. UNCHANGED sessions  BY DEF InterruptSet
    <3>11. QED  BY <2>1, <3>6, <3>7, <3>9, <3>10, <1>fitsUndisturbed
  <2>4. QED  BY <2>2, <2>3
<1>interruptSignal. ASSUME InterruptSignal(t)
                    PROVE  Typed' /\ Returns(t)
  <2> USE <1>interruptSignal
  <2>1. TypedState'
    BY DEF InterruptSignal, Typed, TypedState, ontology
  <2>2. Returns(t)  BY <1>returnMoves DEF InterruptSignal, Returns
  <2>3. ArgumentsFit(t)'  BY <2>2, SMT DEF Returns, ArgumentsFit, Idle
  <2>4. UNCHANGED sessions  BY DEF InterruptSignal
  <2>5. Undisturbed(t)  BY <2>2 DEF Returns
  <2>6. QED  BY <2>1, <2>2, <2>3, <2>4, <2>5, <1>fitsUndisturbed
<1> QED  BY <1>interruptEnter, <1>interruptSet, <1>interruptSignal DEF Acts

\* A call is made with an argument that fits, or refused.
LEMMA TypedEnter ==
    ASSUME Typed, NEW t \in Threads, NEW op \in config.operations, Enter(t, op)
    PROVE  Typed' /\ Enters(t)
\* A call comes with the argument of its operation.
<1>argumentTyped. ASSUME NEW o \in Operations, NEW arg \in Arguments(o)
                  PROVE  /\ arg \in SUBSET (Axioms \cup InferenceTypes)
                         /\ o \in {"add", "remove"} => arg \subseteq Axioms
                         /\ o = "precompute" => arg \subseteq InferenceTypes
  <2> USE <1>argumentTyped
  <2>1. CASE o \in {"add", "remove"}  BY <2>1 DEF Arguments
  <2>2. CASE o = "precompute"  BY <2>2 DEF Arguments
  <2>3. CASE o \notin {"add", "remove", "precompute"}
    <3>1. Arguments(o) = {{}}  BY <2>3 DEF Arguments
    <3>2. QED  BY <2>3, <3>1
  <2>4. QED  BY <2>1, <2>2, <2>3
<1>1. op \in Operations  BY DEF Typed, TypedState, Configs
<1>2. PICK arg \in Arguments(op) :
          frame' = [frame EXCEPT ![t] = IF disposed THEN Idle
                       ELSE [Idle EXCEPT !.pc = "entered", !.op = op, !.arg = arg]]
  BY DEF Enter
<1> DEFINE e == [Idle EXCEPT !.pc = "entered", !.op = op, !.arg = arg]
           f == IF disposed THEN Idle ELSE e
<1>3. e \in Frames
  <2>1. "entered" \in PCs  BY DEF PCs
  <2>2. QED  BY <1>1, <2>1, IdleIsFrame, <1>argumentTyped DEF Frames
<1>4. f \in Frames  BY <1>3, IdleIsFrame
<1>5. Others(t) /\ frame'[t] = f
  <2>1. frame' = [frame EXCEPT ![t] = f]  BY <1>2
  <2> HIDE DEF f
  <2>2. QED  BY <1>4, <2>1, Update DEF Typed
<1>6. ArgumentsFit(t)' /\ Enters(t)
  <2>1. CASE disposed  BY <1>5, <2>1, SMT DEF ArgumentsFit, Enters, Idle
  <2>2. CASE ~disposed
    <3>1. frame'[t] = e  BY <1>5, <2>2
    <3>2. QED  BY <1>1, <1>5, <3>1, <1>argumentTyped, SMT DEF ArgumentsFit, Enters, Idle
  <2>3. QED  BY <2>1, <2>2
<1>7. TypedState' /\ Len(sessions') = Len(sessions)
  BY SMT DEF Enter, Typed, TypedState, Configs, locks, token, ontology
<1>8. QED  BY <1>5, <1>6, <1>7, FitsAfter, LengthIsNat, SMT

\* Every step of a thread does what Acts says and keeps Typed.
LEMMA TypedStep ==
    ASSUME Typed, Locks, NEW t \in Threads, Call(t) \/ Step(t)
    PROVE  Typed' /\ Acts(t)
<1>1. CASE Call(t)
  <2>1. CASE InterruptEnter(t)  BY <2>1, TypedInterrupt
  <2>2. ASSUME NEW op \in config.operations, Enter(t, op) PROVE Typed' /\ Acts(t)
    <3>1. Typed' /\ Enters(t)  BY <2>2, TypedEnter
    <3>2. QED  BY <2>2, <3>1 DEF Acts
  <2>3. QED  BY <1>1, <2>1, <2>2 DEF Call
<1>2. CASE Step(t)  BY <1>2, TypedProtocol, TypedBody, TypedInterrupt DEF Step
<1>3. QED  BY <1>1, <1>2

\* The constructor sets every field to a value of its type.
LEMMA TypedInit == Init => Typed
<1> SUFFICES ASSUME Init PROVE Typed  OBVIOUS
<1>1. config \in Configs /\ config.calls \in Nat
  BY FacadeAssumption, SMT DEF Init, Configs
<1>2. Compiled(Loaded) \in SUBSET Axioms  BY FacadeAssumption DEF Compiled
<1>3. sessions \in Seq(Sessions) /\ Len(sessions) = 1
  BY <1>2, SMT DEF Init, Sessions
<1>4. DOMAIN observers \subseteq 1..1 /\ observers \in [DOMAIN observers -> BOOLEAN]
  <2>1. CASE config.backend = "python"
    <3>1. observers = <<>>  BY <2>1 DEF Init
    <3>2. observers = [i \in {} |-> FALSE] /\ DOMAIN observers = {}  BY <3>1, SMT
    <3>3. QED  BY <3>2
  <2>2. CASE config.backend # "python"  BY <2>2, SMT DEF Init
  <2>3. QED  BY <2>1, <2>2
<1>5. TypedState
  <2>1. runtime \in [session : 1..Len(sessions), program : SUBSET Axioms,
                     computed : SUBSET InferenceTypes]
    BY <1>2, <1>3, SMT DEF Init
  <2>2. Len(sessions) <= MaxSessions /\ calls \in 0..config.calls
    BY <1>1, <1>3, FacadeAssumption, SMT DEF Init
  <2>3. /\ stateLock \in Threads \cup {Nobody} /\ operationLock \in Threads \cup {Nobody}
        /\ activeThread \in Threads \cup {Nobody}
        /\ disposed \in BOOLEAN /\ cancelled \in BOOLEAN
        /\ view \in SUBSET Axioms /\ additions \in SUBSET Axioms
        /\ removals \in SUBSET Axioms /\ wanted \in SUBSET Axioms
        /\ precomputed \in SUBSET InferenceTypes
    BY FacadeAssumption DEF Init
  <2>4. QED  BY <1>1, <1>3, <1>4, <2>1, <2>2, <2>3 DEF TypedState
<1>6. frame \in [Threads -> Frames]  BY IdleIsFrame DEF Init
<1>7. \A t \in Threads : ArgumentsFit(t)  BY DEF Init, ArgumentsFit, Idle
<1>8. QED  BY <1>5, <1>6, <1>7 DEF Typed

-----------------------------------------------------------------------------
(***************************************************************************)
(* Locks and Owed: who holds the locks, and what a flush in progress owes  *)
(* to the callers.                                                         *)
(***************************************************************************)

\* The revision in place is the compiled view, and the view with the pending changes
\* is what the callers asked for.
OwedState ==
    /\ NoLostUpdate
    /\ runtime.program = Compiled(view)
    /\ sessions[runtime.session].program = Compiled(view)

\* What a call in progress owes: a flush has proposed exactly what is wanted, and an
\* unbuffered change that returns normally leaves nothing pending.
OwedBy(t) ==
    /\ frame[t].pc \in {"delta", "create", "commit"} => frame[t].proposed = wanted
    /\ frame[t].pc = "commit" => sessions[frame[t].session].program = Compiled(wanted)
    /\ frame[t].pc = "temporary" => frame[t].op = "temporary"
    /\ frame[t].pc \in {"close", "mark"} => frame[t].op = "dispose"
    /\ frame[t].outcome # "none" => frame[t].pc \in {"mark", "finish", "release"}
    /\ ~config.buffered /\ frame[t].op \in {"add", "remove"}
          /\ (frame[t].pc = "final" \/ frame[t].outcome = "ok") =>
          additions = {} /\ removals = {}

\* What a flush in progress has proposed is what the callers want, and a session
\* to be committed runs that program.
Owed == OwedState /\ \A t \in Threads : OwedBy(t)

\* The locks: a thread between acquire and release holds the operation lock, the one
\* inside an operation is the active one, and interrupt() holds the state lock.
LEMMA LocksStep ==
    ASSUME Typed, Typed', Locks, NEW t \in Threads, Acts(t)
    PROVE  Locks'
<1>stays. ASSUME Stays(t)
          PROVE  Locks'
  <2> USE <1>stays
  <2>1. frame[t].pc \in HeldPCs /\ frame'[t].pc \in HeldPCs
        /\ frame[t].pc \notin {"set", "signal"} /\ frame'[t].pc \notin {"set", "signal"}
    BY HeldInside DEF Stays, Inside
  <2>2. \A u \in Threads : u # t => frame'[u] = frame[u]  BY DEF Stays, Others
  <2>3. \A u \in Threads : /\ frame'[u].pc \in HeldPCs <=> frame[u].pc \in HeldPCs
                           /\ frame'[u].pc \in Inside <=> frame[u].pc \in Inside
                           /\ frame'[u].pc \in {"set", "signal"} <=> frame[u].pc \in {"set", "signal"}
                           /\ frame'[u].targeted = frame[u].targeted
    <3> TAKE u \in Threads
    <3>1. CASE u = t  BY <2>1, <3>1 DEF Stays, Kept
    <3>2. CASE u # t  BY <2>2, <3>2
    <3>3. QED  BY <3>1, <3>2
  <2>4. QED  BY <2>3 DEF Locks, Stays
\* A step that moves t between two places outside the operation.
<1>outside. ASSUME Others(t), frame[t].pc \in {"idle", "entered", "acquired", "release"},
                   frame'[t].pc \in {"idle", "entered", "acquired", "release"},
                   UNCHANGED <<stateLock, activeThread>>,
                   operationLock' = IF frame'[t].pc \in HeldPCs THEN t
                                    ELSE IF frame[t].pc \in HeldPCs THEN Nobody ELSE operationLock,
                   frame'[t].pc \in HeldPCs => operationLock \in {Nobody, t}
            PROVE  Locks'
  <2> USE <1>outside
  <2>1. \A u \in Threads : u # t => frame'[u] = frame[u]  BY DEF Others
  <2>2. \A u \in Threads : frame'[u].pc \in HeldPCs <=> operationLock' = u
    BY <2>1, NobodyIsNoThread, SMT DEF Locks
  <2>3. \A u \in Threads : frame'[u].pc \in Inside <=> activeThread' = u
    BY <2>1, SMT DEF Locks, Inside
  <2>4. \A u \in Threads : frame'[u].pc \in {"set", "signal"} <=> stateLock' = u
    BY <2>1 DEF Locks
  <2>5. stateLock' \in Threads => activeThread' \in Threads /\ frame'[activeThread'].targeted
    <3>1. ASSUME stateLock \in Threads PROVE activeThread \in Threads \ {t} /\ frame[activeThread].targeted
      BY <3>1, ZenonT(30) DEF Locks, Inside
    <3>2. QED  BY <2>1, <3>1
  <2>6. QED  BY <2>2, <2>3, <2>4, <2>5 DEF Locks
<1>interrupts. ASSUME frame[t].pc \in {"idle", "set", "signal"}, Aims(t) \/ Sets(t) \/ Returns(t),
                      UNCHANGED <<operationLock, activeThread>>,
                      frame[t].pc = "idle" => stateLock = Nobody /\ Aims(t),
                      frame[t].pc = "set" => Sets(t) \/ Returns(t), frame[t].pc = "signal" => Returns(t)
               PROVE  Locks'
  <2> USE <1>interrupts
  <2>1. CASE stateLock' = stateLock /\ frame' = frame  BY <2>1 DEF Locks
  <2>2. CASE Undisturbed(t) /\ frame'[t].pc \in {"idle", "set", "signal"}
    <3>1. \A u \in Threads : u # t => frame'[u].pc = frame[u].pc  BY <2>2 DEF Undisturbed
    <3>2. \A u \in Threads : /\ frame'[u].pc \in HeldPCs <=> operationLock' = u
                             /\ frame'[u].pc \in Inside <=> activeThread' = u
      BY <2>2, <3>1, SMTT(30) DEF Locks, HeldPCs, Inside
    <3>3. /\ stateLock' = IF frame'[t].pc = "idle" THEN Nobody ELSE t
          /\ stateLock \in {Nobody, t}
      <4>1. CASE frame[t].pc = "idle"
        <5>1. stateLock = Nobody /\ Aims(t)  BY <4>1
        <5>2. \/ stateLock' = stateLock /\ frame' = frame
              \/ stateLock' = t /\ frame'[t].pc = "set"
          BY <5>1 DEF Aims
        <5>3. QED  BY <4>1, <5>1, <5>2
      <4>2. CASE frame[t].pc \in {"set", "signal"}
        <5>1. stateLock = t  BY <4>2 DEF Locks
        <5>2. \/ stateLock' = stateLock /\ frame'[t].pc = "signal"
              \/ stateLock' = Nobody /\ frame'[t].pc = "idle"
          BY <4>2, IdleIs DEF Sets, Returns
        <5>3. QED  BY <5>1, <5>2
      <4>3. QED  BY <4>1, <4>2
    <3>4. \A u \in Threads : frame'[u].pc \in {"set", "signal"} <=> stateLock' = u
      BY <2>2, <3>1, <3>3, NobodyIsNoThread, SMT DEF Locks
    <3>5. ASSUME stateLock' \in Threads PROVE activeThread' \in Threads /\ frame'[activeThread'].targeted
      BY <3>3, <3>5, NobodyIsNoThread DEF Locks, Aims, Sets, Returns, Idle
    <3>6. QED  BY <3>2, <3>4, <3>5 DEF Locks
  <2>3. Aims(t) => \/ stateLock' = stateLock /\ frame' = frame
                   \/ Undisturbed(t) /\ frame'[t].pc = "set"
    BY DEF Aims
  <2>4. Sets(t) => Undisturbed(t) /\ frame'[t].pc = "signal"  BY DEF Sets
  <2>5. Returns(t) => Undisturbed(t) /\ frame'[t].pc = "idle"  BY IdleIs DEF Returns
  <2>6. "set" \in {"idle", "set", "signal"} /\ "signal" \in {"idle", "set", "signal"}
        /\ "idle" \in {"idle", "set", "signal"}
    OBVIOUS
  <2>7. QED  BY <2>1, <2>2, <2>3, <2>4, <2>5, <2>6
<1>acquire. CASE Acquire(t) /\ Advances(t, "acquired")
  <2>1. /\ frame[t].pc = "entered" /\ operationLock = Nobody /\ operationLock' = t
        /\ UNCHANGED <<stateLock, activeThread>>
    BY <1>acquire DEF Acquire, At
  <2>2. Others(t) /\ frame'[t].pc = "acquired" /\ frame'[t].pc \in HeldPCs
    BY <1>acquire DEF Advances, HeldPCs
  <2>3. QED  BY <2>1, <2>2, <1>outside
<1>activate. CASE Activate(t) /\ Activates(t)
  <2> USE <1>activate
  <2>1. CASE disposed
    <3>1. frame'[t].pc = "release" /\ UNCHANGED activeThread  BY <2>1 DEF Activates
    <3>2. QED  BY <3>1, <1>outside DEF Activates, Activate, At, Locks, HeldPCs
  <2>2. CASE ~disposed
    <3>1. activeThread' = t /\ frame'[t].pc \in Inside \ {"set", "signal"}
      BY <2>2 DEF Activates, Inside
    <3>2. \A u \in Threads : u # t => frame'[u] = frame[u]  BY DEF Activates, Others
    <3>3. operationLock = t /\ stateLock = Nobody /\ UNCHANGED <<operationLock, stateLock>>
      BY DEF Locks, Activate, At, HeldPCs
    <3>4. \A u \in Threads : u # t => frame[u].pc \notin HeldPCs  BY <3>3 DEF Locks
    <3>5. QED  BY <3>1, <3>2, <3>3, <3>4, HeldInside, NobodyIsNoThread, SMT DEF Locks
  <2>3. QED  BY <2>1, <2>2
<1>finish. CASE Finish(t) /\ Advances(t, "release")
  <2> USE <1>finish
  <2>1. \A u \in Threads : u # t => frame'[u] = frame[u]  BY DEF Advances, Others
  <2>2. operationLock = t /\ stateLock = Nobody /\ UNCHANGED <<operationLock, stateLock>>
        /\ activeThread' = Nobody /\ frame'[t].pc = "release"
    BY DEF Locks, Finish, At, HeldPCs, Inside, Advances
  <2>3. \A u \in Threads : u # t => frame[u].pc \notin HeldPCs  BY <2>2 DEF Locks
  <2>4. "release" \in HeldPCs /\ "release" \notin Inside  BY DEF HeldPCs, Inside
  <2>5. \A u \in Threads : frame[u].pc \notin {"set", "signal"}  BY <2>2, NobodyIsNoThread DEF Locks
  <2>6. QED  BY <2>1, <2>2, <2>3, <2>4, <2>5, HeldInside, NobodyIsNoThread, SMT DEF Locks
<1>release. CASE Release(t) /\ Others(t) /\ frame'[t] = Idle
  <2>1. /\ frame[t].pc = "release" /\ operationLock' = Nobody /\ UNCHANGED <<stateLock, activeThread>>
    BY <1>release DEF Release, At
  <2>2. Others(t) /\ frame'[t].pc = "idle"  BY <1>release, IdleIs
  <2>3. frame'[t].pc \notin HeldPCs /\ frame[t].pc \in HeldPCs  BY <2>1, <2>2 DEF HeldPCs, Inside
  <2>4. QED  BY <2>1, <2>2, <2>3, <1>outside
<1>enter. CASE Enters(t) /\ \E op \in config.operations : Enter(t, op)
  <2>1. frame[t].pc = "idle" /\ UNCHANGED <<stateLock, operationLock, activeThread>>
    BY <1>enter DEF Enter, At, locks
  <2>2. Others(t) /\ frame'[t].pc \in {"idle", "entered"}  BY <1>enter DEF Enters
  <2>3. frame[t].pc \notin HeldPCs /\ frame'[t].pc \notin HeldPCs  BY <2>1, <2>2 DEF HeldPCs, Inside
  <2>4. QED  BY <2>1, <2>2, <2>3, <1>outside
<1>interruptEnter. CASE InterruptEnter(t) /\ Aims(t)
  <2>1. frame[t].pc = "idle" /\ stateLock = Nobody /\ UNCHANGED <<operationLock, activeThread>>
    BY <1>interruptEnter DEF InterruptEnter, At
  <2>2. QED  BY <1>interruptEnter, <2>1, <1>interrupts
<1>interruptSet. CASE InterruptSet(t) /\ (Returns(t) \/ Sets(t))
  <2>1. frame[t].pc = "set" /\ UNCHANGED <<operationLock, activeThread>>
    BY <1>interruptSet DEF InterruptSet, At
  <2>2. QED  BY <1>interruptSet, <2>1, <1>interrupts
<1>interruptSignal. CASE InterruptSignal(t) /\ Returns(t)
  <2>1. frame[t].pc = "signal" /\ UNCHANGED <<operationLock, activeThread>>
    BY <1>interruptSignal DEF InterruptSignal, At
  <2>2. QED  BY <1>interruptSignal, <2>1, <1>interrupts
<1> QED
  BY <1>stays, <1>acquire, <1>activate, <1>finish, <1>release, <1>enter, <1>interruptEnter,
     <1>interruptSet, <1>interruptSignal DEF Acts

\* At the start nobody holds a lock.
LEMMA LocksInit == Init => Locks
<1> SUFFICES ASSUME Init PROVE Locks  OBVIOUS
<1>1. stateLock = Nobody /\ operationLock = Nobody /\ activeThread = Nobody  BY DEF Init
<1>2. \A t \in Threads : frame[t].pc = "idle" /\ t # Nobody  BY InitIdle, IdleIs, NobodyIsNoThread
<1>3. "idle" \notin HeldPCs /\ "idle" \notin Inside  BY DEF HeldPCs, Inside
<1>4. QED  BY <1>1, <1>2, <1>3, NobodyIsNoThread DEF Locks

-----------------------------------------------------------------------------
\* What is owed: a flush in progress proposes what the callers want, a session to be
\* committed runs that program, and the committed view never loses a pending change.
LEMMA OwedStep ==
    ASSUME Typed, Typed', Locks, Owed, NEW t \in Threads, Acts(t)
    PROVE  Owed'
<1>quiet. ASSUME Same(t), UNCHANGED <<ontology, sessions, config>>, OwedBy(t)'
          PROVE  Owed'
  <2> USE <1>quiet
  <2>1. OwedState'  BY DEF Owed, OwedState, NoLostUpdate, ontology
  <2>2. \A u \in Threads \ {t} : OwedBy(u)'  BY SMT DEF Owed, OwedBy, Same, ontology
  <2>3. QED  BY <2>1, <2>2 DEF Owed
<1>active. ASSUME Stays(t), OwedState', OwedBy(t)'
           PROVE  Owed'
  <2> USE <1>active
  <2>1. \A u \in Threads \ {t} : frame[u].pc \notin HeldPCs /\ frame'[u] = frame[u]
    BY OnlyOneInside, HeldInside DEF Stays, Others
  <2>2. \A u \in Threads \ {t} : OwedBy(u)'
    BY <2>1, SMT DEF Owed, OwedBy, HeldPCs, Inside
  <2>3. QED  BY <2>2 DEF Owed
\* A backend call that fails leaves nothing behind in the frame.
<1>failed. ASSUME NEW s, Failed(t, s)
           PROVE  OwedBy(t)'
  BY <1>failed DEF Failed, OwedBy
\* A call whose outcome is open stays open.
<1>advances. ASSUME NEW pc, Advances(t, pc), frame[t].pc \notin {"mark", "finish", "release"},
                    pc \notin {"delta", "create", "commit", "temporary", "close", "mark"},
                    pc = "final" /\ ~config'.buffered /\ frame[t].op \in {"add", "remove"} =>
                        additions' = {} /\ removals' = {}
             PROVE  OwedBy(t)'
  <2> USE <1>advances
  <2>1. frame'[t].pc = pc /\ frame'[t].op = frame[t].op /\ frame'[t].outcome = "none"
    BY DEF Advances, Kept, Owed, OwedBy
  <2>2. QED  BY <2>1 DEF OwedBy
\* Opening a session moves nothing that is owed.
<1>opens. ASSUME NEW p \in SUBSET Axioms, sessions' = NewSession(p), UNCHANGED ontology
          PROVE  /\ OwedState'
                 /\ sessions'[Len(sessions')].program = p
  <2> USE <1>opens
  <2>1. sessions \in Seq(Sessions) /\ runtime.session \in 1..Len(sessions)  BY DEF Typed, TypedState
  <2>2. /\ \A s \in 1..Len(sessions) : sessions'[s] = sessions[s]
        /\ sessions'[Len(sessions')].program = p
    BY <2>1, SessionOpens
  <2>3. OwedState'  BY <2>1, <2>2 DEF Owed, OwedState, NoLostUpdate, ontology
  <2>4. QED  BY <2>2, <2>3
\* Closing a session moves nothing that is owed.
<1>closes. ASSUME NEW s \in 1..Len(sessions), sessions' = Closed(s), UNCHANGED ontology
           PROVE  OwedState'
  <2> USE <1>closes
  <2>1. sessions \in Seq(Sessions) /\ runtime.session \in 1..Len(sessions)  BY DEF Typed, TypedState
  <2>2. \A r \in 1..Len(sessions) : sessions'[r].program = sessions[r].program
    BY <2>1, SessionCloses
  <2>3. QED  BY <2>1, <2>2 DEF Owed, OwedState, NoLostUpdate, ontology
<1>check. ASSUME NEW at \in {"check", "final"}, frame[t].pc = at, Checked(t, at),
                 UNCHANGED <<ontology, sessions, config>>
          PROVE  Owed'
  <2> USE <1>check
  <2>1. frame[t].outcome = "none" /\ frame'[t].op = frame[t].op  BY DEF Owed, OwedBy, Checked, Kept
  <2>2. \/ frame'[t].pc = "finish" /\ frame'[t].outcome \in {"interrupted", "error"}
        \/ frame'[t].pc = "body" /\ frame'[t].outcome = "none"
        \/ frame'[t].pc = "finish" /\ at = "final" /\ frame'[t].outcome = "ok"
    BY <2>1 DEF Checked
  <2>3. OwedBy(t)'  BY <2>1, <2>2 DEF Owed, OwedBy, ontology
  <2>4. Same(t)  BY OthersSame DEF Checked
  <2>5. QED  BY <2>3, <2>4, <1>quiet
\* dispose() marks the reasoner; the release of the locks keeps what was owed.
<1>leaves. ASSUME NEW pc \in {"finish", "release"}, Advances(t, pc), frame[t].pc \in {"mark", "finish"},
                  UNCHANGED <<ontology, sessions, config>>
           PROVE  Owed'
  <2> USE <1>leaves
  <2>1. frame'[t].pc = pc /\ frame'[t].op = frame[t].op /\ frame'[t].outcome = frame[t].outcome
    BY DEF Advances, Kept
  <2>2. OwedBy(t)'  BY <2>1 DEF Owed, OwedBy, ontology
  <2>3. QED  BY <2>2, OthersSame, <1>quiet DEF Advances
\* A step that leaves t outside the operation, with no outcome.
<1>outside. ASSUME Same(t), frame'[t].pc \in {"idle", "entered", "acquired", "set", "signal"},
                   frame'[t].outcome = "none", UNCHANGED <<ontology, sessions, config>>
            PROVE  Owed'
  <2> USE <1>outside
  <2>1. OwedBy(t)'  BY DEF OwedBy
  <2>2. QED  BY <2>1, <1>quiet
\* The swap makes the proposal the committed view and leaves nothing pending.
<1>flushCommit. CASE /\ FlushCommit(t) /\ Stays(t)
                     /\ \/ Advances(t, "final") /\ view' = frame[t].proposed
                        \/ /\ Failed(t, frame[t].session)
                           /\ UNCHANGED <<view, additions, removals, runtime, precomputed>>
  <2> USE <1>flushCommit
  <2> DEFINE s == frame[t].session
  <2>1. /\ frame[t].pc = "commit" /\ frame[t].proposed = wanted /\ UNCHANGED <<wanted, config>>
        /\ sessions[s].program = Compiled(wanted)
    BY DEF FlushCommit, At, Owed, OwedBy
  <2>2. s \in 1..Len(sessions) /\ runtime.session \in 1..Len(sessions) /\ sessions \in Seq(Sessions)
    BY <2>1 DEF Typed, TypedState, ArgumentsFit
  <2>3. \A r \in 1..Len(sessions) : sessions'[r].program = sessions[r].program
    <3>1. sessions' \in {sessions, Closed(s), Closed(runtime.session)}  BY DEF FlushCommit
    <3>2. CASE sessions' = Closed(s)  BY <2>2, <3>2, SessionCloses
    <3>3. CASE sessions' = Closed(runtime.session)  BY <2>2, <3>3, SessionCloses
    <3>4. CASE sessions' = sessions  BY <3>4
    <3>5. QED  BY <3>1, <3>2, <3>3, <3>4
  <2>4. CASE Advances(t, "final") /\ view' = frame[t].proposed
    <3>1. /\ view' = wanted /\ additions' = {} /\ removals' = {}
          /\ runtime' = [session |-> s, program |-> Compiled(wanted), computed |-> {}]
      <4>1. frame'[t].pc = "final"  BY <2>4 DEF Advances
      <4>2. ~Fails(t, s)
        <5>1. Fails(t, s) => frame'[t].pc = "finish"  BY FailsMoves DEF Typed, Failed
        <5>2. QED  BY <4>1, <5>1
      <4>3. QED  BY <2>1, <2>4, <4>2 DEF FlushCommit
    <3>2. OwedState'  BY <2>1, <2>2, <2>3, <3>1 DEF OwedState, NoLostUpdate, Compiled
    <3>3. OwedBy(t)'  BY <2>1, <2>4, <3>1, <1>advances
    <3>4. QED  BY <3>2, <3>3, <1>active
  <2>5. CASE /\ Failed(t, s)
             /\ UNCHANGED <<view, additions, removals, runtime, precomputed>>
    <3>1. OwedState'  BY <2>1, <2>2, <2>3, <2>5 DEF Owed, OwedState, NoLostUpdate, Compiled
    <3>2. OwedBy(t)'  BY <2>5, <1>failed
    <3>3. QED  BY <3>1, <3>2, <1>active
  <2>6. QED  BY <2>4, <2>5
\* A session that took the change in place runs the wanted program.
<1>flushDelta. CASE /\ FlushDelta(t) /\ Stays(t)
                    /\ \/ /\ Compiled(frame[t].proposed) = sessions[runtime.session].program
                          /\ Taken(t, "commit", runtime.session)
                       \/ Advances(t, "create")
                       \/ Failed(t, runtime.session)
  <2> USE <1>flushDelta
  <2>1. /\ frame[t].pc = "delta" /\ UNCHANGED <<ontology, sessions, config>>
        /\ frame[t].proposed = wanted /\ frame[t].outcome = "none"
    BY DEF FlushDelta, At, Owed, OwedBy
  <2>2. CASE /\ Compiled(frame[t].proposed) = sessions[runtime.session].program
             /\ Taken(t, "commit", runtime.session)
    <3>1. /\ frame'[t].pc = "commit" /\ frame'[t].session = runtime.session
          /\ frame'[t].outcome = "none" /\ frame'[t].proposed = wanted /\ wanted' = wanted
          /\ sessions' = sessions /\ sessions[runtime.session].program = Compiled(wanted)
      BY <2>1, <2>2 DEF Taken, ontology
    <3>2. OwedBy(t)'  BY <3>1 DEF OwedBy, Compiled
    <3>3. QED  BY <2>1, <2>2, <3>2, OthersSame, <1>quiet DEF Taken
  <2>3. CASE Advances(t, "create")
    <3>1. /\ frame'[t].pc = "create" /\ frame'[t].outcome = "none" /\ frame'[t].proposed = wanted
          /\ wanted' = wanted
      BY <2>1, <2>3 DEF Advances, Working, ontology
    <3>2. OwedBy(t)'  BY <3>1 DEF OwedBy
    <3>3. QED  BY <2>1, <2>3, <3>2, OthersSame, <1>quiet DEF Advances
  <2>4. CASE Failed(t, runtime.session)
    <3>1. OwedBy(t)'  BY <2>4, <1>failed
    <3>2. QED  BY <2>1, <2>4, <3>1, OthersSame, <1>quiet DEF Failed
  <2>5. QED  BY <2>2, <2>3, <2>4
<1>precomputeType. CASE PrecomputeType(t) /\ Stays(t)
                          /\ (Completes(t) \/ (Failed(t, runtime.session) /\ UNCHANGED runtime))
  <2> USE <1>precomputeType
  <2>1. /\ frame[t].pc = "body" /\ frame[t].op = "precompute" /\ frame[t].outcome = "none"
        /\ UNCHANGED <<view, additions, removals, wanted, sessions, config>>
    BY DEF PrecomputeType, At, Owed, OwedBy
  <2>2. OwedState'
    <3>1. runtime'.program = runtime.program /\ runtime'.session = runtime.session
      BY DEF Completes, Typed, TypedState
    <3>2. QED  BY <2>1, <3>1 DEF Owed, OwedState, NoLostUpdate, Compiled
  <2>3. OwedBy(t)'
    <3>1. CASE Completes(t)
      <4>1. frame'[t].pc = "body" /\ frame'[t].outcome = "none"  BY <2>1, <3>1 DEF Completes
      <4>2. QED  BY <4>1 DEF OwedBy
    <3>2. QED  BY <3>1, <1>failed
  <2>4. QED  BY <2>2, <2>3, <1>active
\* A session made for the proposal runs the wanted program.
<1>flushCreate. CASE /\ FlushCreate(t) /\ Stays(t)
                     /\ \/ /\ ~cancelled /\ sessions' = NewSession(Compiled(frame[t].proposed))
                           /\ observers' = Attached(Len(sessions')) /\ Taken(t, "commit", Len(sessions'))
                        \/ Failed(t, 0) /\ UNCHANGED <<observers, sessions>>
  <2> USE <1>flushCreate
  <2>1. /\ frame[t].pc = "create" /\ UNCHANGED <<ontology, config>>
        /\ frame[t].proposed = wanted /\ frame[t].outcome = "none"
    BY DEF FlushCreate, At, Owed, OwedBy
  <2>2. CASE sessions' = NewSession(Compiled(frame[t].proposed)) /\ Taken(t, "commit", Len(sessions'))
    <3>1. Compiled(wanted) \in SUBSET Axioms  BY DEF Typed, TypedState, Compiled
    <3>2. sessions' = NewSession(Compiled(wanted))  BY <2>1, <2>2
    <3>3. OwedState' /\ sessions'[Len(sessions')].program = Compiled(wanted)
      BY <2>1, <3>1, <3>2, <1>opens
    <3>4. /\ frame'[t].pc = "commit" /\ frame'[t].session = Len(sessions')
          /\ frame'[t].outcome = "none" /\ frame'[t].proposed = wanted /\ wanted' = wanted
      BY <2>1, <2>2 DEF Taken, ontology
    <3>5. OwedBy(t)'  BY <3>3, <3>4 DEF OwedBy, Compiled
    <3>6. QED  BY <3>3, <3>5, <1>active
  <2>3. CASE Failed(t, 0) /\ UNCHANGED <<observers, sessions>>
    <3>1. OwedBy(t)'  BY <2>3, <1>failed
    <3>2. QED  BY <2>1, <2>3, <3>1, OthersSame, <1>quiet DEF Failed
  <2>4. QED  BY <2>2, <2>3
\* What a flush compiles is what the callers want.
<1>flushCompile. CASE /\ FlushCompile(t) /\ Stays(t)
                      /\ \/ additions = {} /\ removals = {} /\ Advances(t, "final")
                         \/ Proposed(t)
                         \/ Failed(t, 0)
  <2> USE <1>flushCompile
  <2>1. frame[t].pc = "flush" /\ UNCHANGED <<ontology, sessions, config>>  BY DEF FlushCompile, At
  <2>2. CASE additions = {} /\ removals = {} /\ Advances(t, "final")
    <3>1. additions' = {} /\ removals' = {}  BY <2>1, <2>2 DEF ontology
    <3>2. OwedBy(t)'  BY <2>1, <2>2, <3>1, <1>advances
    <3>3. QED  BY <2>1, <2>2, <3>2, OthersSame, <1>quiet DEF Advances
  <2>3. CASE Proposed(t)
    <3>1. /\ frame'[t].pc \in {"create", "delta"} /\ frame'[t].proposed = wanted
          /\ frame'[t].outcome = "none" /\ wanted' = wanted
      BY <2>1, <2>3 DEF Proposed, Owed, OwedState, NoLostUpdate, OwedBy, ontology
    <3>2. OwedBy(t)'  BY <3>1 DEF OwedBy
    <3>3. QED  BY <2>1, <2>3, <3>2, OthersSame, <1>quiet DEF Proposed
  <2>4. CASE Failed(t, 0)
    <3>1. OwedBy(t)'  BY <2>4, <1>failed
    <3>2. QED  BY <2>1, <2>4, <3>1, OthersSame, <1>quiet DEF Failed
  <2>5. QED  BY <2>2, <2>3, <2>4
<1>checkTemporary. CASE CheckTemporary(t) /\ Stays(t) /\ (Advances(t, "final") \/ Failed(t, frame[t].session))
  <2> USE <1>checkTemporary
  <2>1. /\ frame[t].pc = "temporary" /\ frame[t].op = "temporary" /\ UNCHANGED <<ontology, config>>
        /\ sessions' = Closed(frame[t].session)
    BY DEF CheckTemporary, At, Owed, OwedBy
  <2>2. frame[t].session \in 1..Len(sessions)  BY <2>1 DEF Typed, ArgumentsFit
  <2>3. OwedState'  BY <2>1, <2>2, <1>closes
  <2>4. OwedBy(t)'  BY <2>1, <1>failed, <1>advances
  <2>5. QED  BY <2>3, <2>4, <1>active
<1>openTemporary. CASE /\ OpenTemporary(t) /\ Stays(t)
                       /\ \/ /\ ~cancelled /\ sessions' = NewSession(Compiled(view))
                             /\ observers' = Attached(Len(sessions'))
                             /\ Taken(t, "temporary", Len(sessions'))
                          \/ Failed(t, 0) /\ UNCHANGED <<observers, sessions>>
  <2> USE <1>openTemporary
  <2>1. /\ frame[t].pc = "body" /\ frame[t].op = "temporary" /\ UNCHANGED <<ontology, config>>
        /\ frame[t].outcome = "none"
    BY DEF OpenTemporary, At, Owed, OwedBy
  <2>2. CASE sessions' = NewSession(Compiled(view)) /\ Taken(t, "temporary", Len(sessions'))
    <3>1. Compiled(view) \in SUBSET Axioms  BY DEF Typed, TypedState, Compiled
    <3>2. OwedState'  BY <2>1, <2>2, <3>1, <1>opens
    <3>3. frame'[t].pc = "temporary" /\ frame'[t].op = "temporary" /\ frame'[t].outcome = "none"
      BY <2>1, <2>2 DEF Taken, Kept
    <3>4. OwedBy(t)'  BY <3>3 DEF OwedBy
    <3>5. QED  BY <3>2, <3>4, <1>active
  <2>3. CASE Failed(t, 0) /\ UNCHANGED <<observers, sessions>>
    <3>1. OwedBy(t)'  BY <2>3, <1>failed
    <3>2. QED  BY <2>1, <2>3, <3>1, OthersSame, <1>quiet DEF Failed
  <2>4. QED  BY <2>2, <2>3
\* Adding and removing keep the two pending sets exact deltas.
<1>addAxioms. CASE AddAxioms(t) /\ Stays(t) /\ Advances(t, IF config.buffered THEN "final" ELSE "flush")
  <2> USE <1>addAxioms
  <2>1. frame[t].pc = "body" /\ UNCHANGED <<view, runtime, sessions, config>>
    BY DEF AddAxioms, At
  <2>2. OwedState'  BY <2>1 DEF Owed, OwedState, NoLostUpdate, AddAxioms
  <2>3. OwedBy(t)'
    <3>1. CASE config.buffered  BY <2>1, <3>1, <1>advances
    <3>2. CASE ~config.buffered  BY <2>1, <3>2, <1>advances
    <3>3. QED  BY <3>1, <3>2
  <2>4. QED  BY <2>2, <2>3, <1>active
<1>removeAxioms. CASE RemoveAxioms(t) /\ Stays(t) /\ Advances(t, IF config.buffered THEN "final" ELSE "flush")
  <2> USE <1>removeAxioms
  <2>1. frame[t].pc = "body" /\ UNCHANGED <<view, runtime, sessions, config>>
    BY DEF RemoveAxioms, At
  <2>2. OwedState'  BY <2>1 DEF Owed, OwedState, NoLostUpdate, RemoveAxioms
  <2>3. OwedBy(t)'
    <3>1. CASE config.buffered  BY <2>1, <3>1, <1>advances
    <3>2. CASE ~config.buffered  BY <2>1, <3>2, <1>advances
    <3>3. QED  BY <3>1, <3>2
  <2>4. QED  BY <2>2, <2>3, <1>active
<1>disposeClose. CASE DisposeClose(t) /\ Stays(t) /\ Closes(t)
  <2> USE <1>disposeClose
  <2>1. frame[t].pc = "close" /\ frame[t].op = "dispose" /\ UNCHANGED <<ontology, config>>
    BY DEF DisposeClose, At, Owed, OwedBy
  <2>2. frame'[t].pc \in {"mark", "finish"} /\ frame'[t].op = "dispose"
        /\ sessions' \in {Closed(runtime.session), sessions}
    BY <2>1 DEF Closes, Kept
  <2>3. OwedState'
    <3>1. runtime.session \in 1..Len(sessions)  BY DEF Typed, TypedState
    <3>2. CASE sessions' = sessions  BY <2>1, <3>2 DEF Owed, OwedState, NoLostUpdate, ontology
    <3>3. QED  BY <2>1, <2>2, <3>1, <3>2, <1>closes
  <2>4. OwedBy(t)'  BY <2>2 DEF OwedBy
  <2>5. QED  BY <2>3, <2>4, <1>active
<1>beginClear. CASE BeginClear(t) /\ Stays(t) /\ Clears(t)
  <2> USE <1>beginClear
  <2>1. OwedBy(t)'
    <3>1. frame'[t].pc = "reset" /\ frame'[t].outcome = "none"
      BY DEF Clears, Owed, OwedBy, BeginClear, At
    <3>2. QED  BY <3>1 DEF OwedBy
  <2>2. Same(t) /\ UNCHANGED <<ontology, sessions, config>>  BY OthersSame DEF Clears, BeginClear
  <2>3. QED  BY <2>1, <2>2, <1>quiet
<1>beginReset. CASE BeginReset(t) /\ Stays(t) /\ Advances(t, "check")
  <2> USE <1>beginReset
  <2>1. OwedBy(t)'  BY <1>advances DEF BeginReset, At
  <2>2. Same(t) /\ UNCHANGED <<ontology, sessions, config>>  BY OthersSame DEF Advances, BeginReset
  <2>3. QED  BY <2>1, <2>2, <1>quiet
<1>query. CASE Query(t) /\ Stays(t) /\ (Advances(t, "final") \/ Failed(t, runtime.session))
  <2> USE <1>query
  <2>1. frame[t].pc = "body" /\ frame[t].op = "query" /\ UNCHANGED <<ontology, sessions, config>>
    BY DEF Query, At
  <2>2. OwedBy(t)'  BY <2>1, <1>failed, <1>advances
  <2>3. Same(t)  BY OthersSame DEF Advances, Failed
  <2>4. QED  BY <2>1, <2>2, <2>3, <1>quiet
<1>callbackRaises. CASE CallbackRaises(t) /\ Stays(t) /\ frame'[t].pc = "finish" /\ frame'[t].outcome = "error"
  <2> USE <1>callbackRaises
  <2>1. OwedBy(t)'  BY DEF OwedBy
  <2>2. UNCHANGED <<ontology, sessions, config>>  BY DEF CallbackRaises
  <2>3. QED  BY <2>1, <2>2, OthersSame, <1>quiet DEF Stays
<1>flush. CASE Flush(t) /\ Stays(t) /\ Advances(t, "flush")
  <2> USE <1>flush
  <2>1. OwedBy(t)'  BY <1>advances DEF Flush, At
  <2>2. Same(t) /\ UNCHANGED <<ontology, sessions, config>>  BY OthersSame DEF Advances, Flush
  <2>3. QED  BY <2>1, <2>2, <1>quiet
<1>precomputeDone. CASE PrecomputeDone(t) /\ Stays(t) /\ Advances(t, "final")
  <2> USE <1>precomputeDone
  <2>1. /\ frame[t].pc = "body" /\ frame[t].op = "precompute"
        /\ UNCHANGED <<view, additions, removals, runtime, wanted, sessions, config>>
    BY DEF PrecomputeDone, At
  <2>2. OwedState'  BY <2>1 DEF Owed, OwedState, NoLostUpdate, Compiled
  <2>3. OwedBy(t)'  BY <2>1, <1>advances
  <2>4. QED  BY <2>2, <2>3, <1>active
<1>acquire. CASE Acquire(t) /\ Advances(t, "acquired")
  <2>1. frame[t].outcome = "none" /\ UNCHANGED <<ontology, sessions, config>>
    BY <1>acquire DEF Acquire, At, Owed, OwedBy
  <2>2. Same(t) /\ frame'[t].pc = "acquired" /\ frame'[t].outcome = "none"
    BY <1>acquire, <2>1, OthersSame DEF Advances
  <2>3. QED  BY <2>1, <2>2, <1>outside
<1>activate. CASE Activate(t) /\ Activates(t)
  <2> USE <1>activate
  <2>1. frame[t].outcome = "none" /\ UNCHANGED <<ontology, sessions, config>>
    BY DEF Activate, At, Owed, OwedBy
  <2>2. frame'[t].op = frame[t].op  BY DEF Activates, Kept
  <2>3. \/ frame'[t].pc = "release" /\ frame'[t].outcome = "disposed"
        \/ frame'[t].pc = "close" /\ frame[t].op = "dispose" /\ frame'[t].outcome = "none"
        \/ frame'[t].pc = "begin" /\ frame'[t].outcome = "none"
    BY <2>1 DEF Activates
  <2>4. OwedBy(t)'  BY <2>2, <2>3 DEF OwedBy
  <2>5. QED  BY <2>1, <2>4, OthersSame, <1>quiet DEF Activates
<1>firstCheck. CASE FirstCheck(t) /\ Stays(t) /\ Checked(t, "check")
  <2>1. frame[t].pc = "check" /\ UNCHANGED <<ontology, sessions, config>>
    BY <1>firstCheck DEF FirstCheck, At
  <2>2. QED  BY <1>firstCheck, <2>1, <1>check
<1>finalCheck. CASE FinalCheck(t) /\ Stays(t) /\ Checked(t, "final")
  <2>1. frame[t].pc = "final" /\ UNCHANGED <<ontology, sessions, config>>
    BY <1>finalCheck DEF FinalCheck, At
  <2>2. QED  BY <1>finalCheck, <2>1, <1>check
<1>disposeMark. CASE DisposeMark(t) /\ Stays(t) /\ Advances(t, "finish")
  <2>1. frame[t].pc = "mark" /\ UNCHANGED <<ontology, sessions, config>>
    BY <1>disposeMark DEF DisposeMark, At
  <2>2. QED  BY <1>disposeMark, <2>1, <1>leaves
<1>finish. CASE Finish(t) /\ Advances(t, "release")
  <2>1. frame[t].pc = "finish" /\ UNCHANGED <<ontology, sessions, config>>
    BY <1>finish DEF Finish, At
  <2>2. QED  BY <1>finish, <2>1, <1>leaves
<1>release. CASE Release(t) /\ Others(t) /\ frame'[t] = Idle
  <2>1. UNCHANGED <<ontology, sessions, config>>  BY <1>release DEF Release
  <2>2. QED  BY <1>release, <2>1, <1>outside, OthersSame, IdleIs
<1>enter. CASE Enters(t) /\ \E op \in config.operations : Enter(t, op)
  <2>1. UNCHANGED <<ontology, sessions, config>>  BY <1>enter DEF Enter
  <2>2. QED  BY <1>enter, <2>1, <1>outside, OthersSame DEF Enters
<1>interruptEnter. CASE InterruptEnter(t) /\ Aims(t)
  <2>1. UNCHANGED <<ontology, sessions, config>> /\ frame[t].pc = "idle" /\ frame[t].outcome = "none"
    BY <1>interruptEnter DEF InterruptEnter, At, Owed, OwedBy
  <2>2. Same(t) /\ frame'[t].pc \in {"idle", "set"} /\ frame'[t].outcome = "none"
    BY <1>interruptEnter, <2>1, OthersSame DEF Aims, Same
  <2>3. QED  BY <2>1, <2>2, <1>outside
<1>interruptSet. CASE InterruptSet(t) /\ (Returns(t) \/ Sets(t))
  <2>1. UNCHANGED <<ontology, sessions, config>> /\ frame[t].outcome = "none"
    BY <1>interruptSet DEF InterruptSet, At, Owed, OwedBy
  <2>2. Same(t) /\ frame'[t].pc \in {"idle", "signal"} /\ frame'[t].outcome = "none"
    BY <1>interruptSet, <2>1, OthersSame, IdleIs DEF Sets, Returns
  <2>3. QED  BY <2>1, <2>2, <1>outside
<1>interruptSignal. CASE InterruptSignal(t) /\ Returns(t)
  <2>1. UNCHANGED <<ontology, sessions, config>>  BY <1>interruptSignal DEF InterruptSignal
  <2>2. QED  BY <1>interruptSignal, <2>1, <1>outside, OthersSame, IdleIs DEF Returns
<1> QED
  BY <1>acquire, <1>activate, <1>beginClear, <1>beginReset, <1>firstCheck, <1>finalCheck, <1>finish,
     <1>release, <1>query, <1>openTemporary, <1>checkTemporary, <1>callbackRaises, <1>addAxioms,
     <1>removeAxioms, <1>flush, <1>flushCompile, <1>flushDelta, <1>flushCreate, <1>flushCommit,
     <1>precomputeType, <1>precomputeDone, <1>disposeClose, <1>disposeMark, <1>enter, <1>interruptEnter,
     <1>interruptSet, <1>interruptSignal, ZenonT(60) DEF Acts

\* At the start nothing is pending.
LEMMA OwedInit == Init => Owed
<1> SUFFICES ASSUME Init PROVE Owed  OBVIOUS
<1>1. OwedState  BY DEF Init, OwedState, NoLostUpdate
<1>2. \A t \in Threads : OwedBy(t)  BY DEF Init, OwedBy, Idle
<1>3. QED  BY <1>1, <1>2 DEF Owed
=============================================================================
