--------------------------- MODULE FacadeProofs -----------------------------
(***************************************************************************)
(* What is proved of the public reasoner for any threads, axioms,          *)
(* inference types and configurations: its sessions stay sound, its        *)
(* updates and its interrupts stay exact, and every step of a call brings  *)
(* that call nearer to its return.  The inductive invariant is the         *)
(* conjunction of the layers of the modules this one extends, and the      *)
(* bound on the callers.                                                   *)
(***************************************************************************)
EXTENDS FacadeLayers, FiniteSetTheorems

\* The leaves are first-order: Zenon proves them, and SMT those that need arithmetic,
\* sequences, records or a wide case split.
USE Zenon

\* The callers inside a call are as many as the configuration allows.
Counted == IsFiniteSet(Calling) /\ Cardinality(Calling) <= config.callers

\* The layers together.
Layered == Typed /\ Locks /\ Owed /\ Ready /\ Marked /\ Opened

\* The control flow of a call.
Onward(p, q) ==
    \/ p = "entered" /\ q = "acquired"
    \/ p = "acquired" /\ q \in {"release", "close", "begin"}
    \/ p = "begin" /\ q = "reset"
    \/ p = "reset" /\ q = "check"
    \/ p = "check" /\ q \in {"body", "finish"}
    \/ p = "body" /\ q \in {"temporary", "flush", "final", "finish"}
    \/ p = "temporary" /\ q \in {"final", "finish"}
    \/ p = "flush" /\ q \in {"delta", "create", "final", "finish"}
    \/ p = "delta" /\ q \in {"create", "commit", "finish"}
    \/ p = "create" /\ q \in {"commit", "finish"}
    \/ p = "commit" /\ q \in {"final", "finish"}
    \/ p = "final" /\ q = "finish"
    \/ p = "close" /\ q \in {"mark", "finish"}
    \/ p = "mark" /\ q = "finish"
    \/ p = "finish" /\ q = "release"
    \/ p = "release" /\ q = "idle"
    \/ p = "set" /\ q \in {"signal", "idle"}
    \/ p = "signal" /\ q = "idle"

\* A step of a call goes onward, or completes one more inference type.
Moves(t) ==
    /\ Same(t) /\ UNCHANGED <<config, calls>>
    /\ \/ Onward(frame[t].pc, frame'[t].pc)
       \/ /\ frame[t].pc = "body" /\ frame'[t].pc = "body"
          /\ \E type \in InferenceTypes \ frame[t].completed :
                frame'[t].completed = frame[t].completed \cup {type}

\* The inductive invariant.
Inv == Layered /\ Counted

-----------------------------------------------------------------------------
\* Every action leaves the other calls where they are and moves its own call onward,
\* unless it begins one.
LEMMA MovesStep ==
    ASSUME NEW t \in Threads, Acts(t)
    PROVE  Same(t) /\ UNCHANGED config /\ (frame[t].pc = "idle" \/ Moves(t))
<1>stays. ASSUME Stays(t), Onward(frame[t].pc, frame'[t].pc)
          PROVE  Same(t) /\ UNCHANGED config /\ Moves(t)
  BY <1>stays, OthersSame DEF Stays, Moves
<1>beginClear. CASE BeginClear(t) /\ Stays(t) /\ Clears(t)
  <2>1. frame[t].pc = "begin" /\ frame'[t].pc = "reset"  BY <1>beginClear DEF BeginClear, At, Clears
  <2>2. QED  BY <1>beginClear, <2>1, <1>stays DEF Onward
<1>beginReset. CASE BeginReset(t) /\ Stays(t) /\ Advances(t, "check")
  <2>1. frame[t].pc = "reset" /\ frame'[t].pc = "check"
    BY <1>beginReset DEF BeginReset, At, Advances
  <2>2. QED  BY <1>beginReset, <2>1, <1>stays DEF Onward
<1>firstCheck. CASE FirstCheck(t) /\ Stays(t) /\ Checked(t, "check")
  <2>1. frame[t].pc = "check" /\ frame'[t].pc \in {"body", "finish"}
    BY <1>firstCheck DEF FirstCheck, At, Checked
  <2>2. QED  BY <1>firstCheck, <2>1, <1>stays DEF Onward
<1>finalCheck. CASE FinalCheck(t) /\ Stays(t) /\ Checked(t, "final")
  <2>1. frame[t].pc = "final" /\ frame'[t].pc = "finish"
    BY <1>finalCheck DEF FinalCheck, At, Checked
  <2>2. QED  BY <1>finalCheck, <2>1, <1>stays DEF Onward
<1>query. CASE Query(t) /\ Stays(t) /\ (Advances(t, "final") \/ Failed(t, runtime.session))
  <2>1. frame[t].pc = "body" /\ frame'[t].pc \in {"final", "finish"}
    BY <1>query DEF Query, At, Advances, Failed
  <2>2. QED  BY <1>query, <2>1, <1>stays DEF Onward
<1>openTemporary. CASE /\ OpenTemporary(t) /\ Stays(t)
                       /\ \/ /\ ~cancelled /\ sessions' = NewSession(Compiled(view))
                             /\ observers' = Attached(Len(sessions'))
                             /\ Taken(t, "temporary", Len(sessions'))
                          \/ Failed(t, 0) /\ UNCHANGED <<observers, sessions>>
  <2>1. frame[t].pc = "body" /\ frame'[t].pc \in {"temporary", "finish"}
    BY <1>openTemporary DEF OpenTemporary, At, Taken, Failed
  <2>2. QED  BY <1>openTemporary, <2>1, <1>stays DEF Onward
<1>checkTemporary. CASE CheckTemporary(t) /\ Stays(t) /\ (Advances(t, "final") \/ Failed(t, frame[t].session))
  <2>1. frame[t].pc = "temporary" /\ frame'[t].pc \in {"final", "finish"}
    BY <1>checkTemporary DEF CheckTemporary, At, Advances, Failed
  <2>2. QED  BY <1>checkTemporary, <2>1, <1>stays DEF Onward
<1>callbackRaises. CASE CallbackRaises(t) /\ Stays(t) /\ frame'[t].pc = "finish" /\ frame'[t].outcome = "error"
  <2>1. frame[t].pc = "body" /\ frame'[t].pc = "finish"  BY <1>callbackRaises DEF CallbackRaises, At
  <2>2. QED  BY <1>callbackRaises, <2>1, <1>stays DEF Onward
<1>addAxioms. CASE AddAxioms(t) /\ Stays(t) /\ Advances(t, IF config.buffered THEN "final" ELSE "flush")
  <2>1. frame[t].pc = "body" /\ frame'[t].pc \in {"final", "flush"}
    BY <1>addAxioms DEF AddAxioms, At, Advances
  <2>2. QED  BY <1>addAxioms, <2>1, <1>stays DEF Onward
<1>removeAxioms. CASE RemoveAxioms(t) /\ Stays(t) /\ Advances(t, IF config.buffered THEN "final" ELSE "flush")
  <2>1. frame[t].pc = "body" /\ frame'[t].pc \in {"final", "flush"}
    BY <1>removeAxioms DEF RemoveAxioms, At, Advances
  <2>2. QED  BY <1>removeAxioms, <2>1, <1>stays DEF Onward
<1>flush. CASE Flush(t) /\ Stays(t) /\ Advances(t, "flush")
  <2>1. frame[t].pc = "body" /\ frame'[t].pc = "flush"  BY <1>flush DEF Flush, At, Advances
  <2>2. QED  BY <1>flush, <2>1, <1>stays DEF Onward
<1>flushCompile. CASE /\ FlushCompile(t) /\ Stays(t)
                      /\ \/ additions = {} /\ removals = {} /\ Advances(t, "final")
                         \/ Proposed(t)
                         \/ Failed(t, 0)
  <2>1. frame[t].pc = "flush" /\ frame'[t].pc \in {"final", "create", "delta", "finish"}
    BY <1>flushCompile DEF FlushCompile, At, Advances, Proposed, Failed
  <2>2. QED  BY <1>flushCompile, <2>1, <1>stays DEF Onward
<1>flushDelta. CASE /\ FlushDelta(t) /\ Stays(t)
                    /\ \/ /\ Compiled(frame[t].proposed) = sessions[runtime.session].program
                          /\ Taken(t, "commit", runtime.session)
                       \/ Advances(t, "create")
                       \/ Failed(t, runtime.session)
  <2>1. frame[t].pc = "delta" /\ frame'[t].pc \in {"commit", "create", "finish"}
    BY <1>flushDelta DEF FlushDelta, At, Advances, Taken, Failed
  <2>2. QED  BY <1>flushDelta, <2>1, <1>stays DEF Onward
<1>flushCreate. CASE /\ FlushCreate(t) /\ Stays(t)
                     /\ \/ /\ ~cancelled /\ sessions' = NewSession(Compiled(frame[t].proposed))
                           /\ observers' = Attached(Len(sessions')) /\ Taken(t, "commit", Len(sessions'))
                        \/ Failed(t, 0) /\ UNCHANGED <<observers, sessions>>
  <2>1. frame[t].pc = "create" /\ frame'[t].pc \in {"commit", "finish"}
    BY <1>flushCreate DEF FlushCreate, At, Taken, Failed
  <2>2. QED  BY <1>flushCreate, <2>1, <1>stays, ZenonT(30) DEF Onward
<1>flushCommit. CASE /\ FlushCommit(t) /\ Stays(t)
                     /\ \/ Advances(t, "final") /\ view' = frame[t].proposed
                        \/ /\ Failed(t, frame[t].session)
                           /\ UNCHANGED <<view, additions, removals, runtime, precomputed>>
  <2>1. frame[t].pc = "commit" /\ frame'[t].pc \in {"final", "finish"}
    BY <1>flushCommit DEF FlushCommit, At, Advances, Failed
  <2>2. QED  BY <1>flushCommit, <2>1, <1>stays DEF Onward
<1>precomputeDone. CASE PrecomputeDone(t) /\ Stays(t) /\ Advances(t, "final")
  <2>1. frame[t].pc = "body" /\ frame'[t].pc = "final"
    BY <1>precomputeDone DEF PrecomputeDone, At, Advances
  <2>2. QED  BY <1>precomputeDone, <2>1, <1>stays DEF Onward
<1>disposeClose. CASE DisposeClose(t) /\ Stays(t) /\ Closes(t)
  <2>1. frame[t].pc = "close" /\ frame'[t].pc \in {"mark", "finish"}
    BY <1>disposeClose DEF DisposeClose, At, Closes
  <2>2. QED  BY <1>disposeClose, <2>1, <1>stays DEF Onward
<1>disposeMark. CASE DisposeMark(t) /\ Stays(t) /\ Advances(t, "finish")
  <2>1. frame[t].pc = "mark" /\ frame'[t].pc = "finish"
    BY <1>disposeMark DEF DisposeMark, At, Advances
  <2>2. QED  BY <1>disposeMark, <2>1, <1>stays DEF Onward
<1>precomputeType. CASE PrecomputeType(t) /\ Stays(t)
                          /\ (Completes(t) \/ (Failed(t, runtime.session) /\ UNCHANGED runtime))
  <2>1. frame[t].pc = "body"  BY <1>precomputeType DEF PrecomputeType, At
  <2>2. CASE Completes(t)
    BY <1>precomputeType, <2>1, <2>2, OthersSame, ZenonT(30) DEF Completes, Moves, Stays
  <2>3. CASE Failed(t, runtime.session)
    BY <1>precomputeType, <2>1, <2>3, <1>stays, ZenonT(60) DEF Onward, Failed
  <2>4. QED  BY <1>precomputeType, <2>2, <2>3
<1>acquire. CASE Acquire(t) /\ Advances(t, "acquired")
  <2>1. frame[t].pc = "entered" /\ UNCHANGED <<config, calls>>  BY <1>acquire DEF Acquire, At
  <2>2. Same(t) /\ frame'[t].pc = "acquired"  BY <1>acquire, OthersSame DEF Advances
  <2>3. QED  BY <2>1, <2>2 DEF Moves, Onward
<1>activate. CASE Activate(t) /\ Activates(t)
  <2>1. frame[t].pc = "acquired" /\ UNCHANGED <<config, calls>>  BY <1>activate DEF Activate, At
  <2>2. Same(t) /\ frame'[t].pc \in {"release", "close", "begin"}
    BY <1>activate, OthersSame DEF Activates
  <2>3. QED  BY <2>1, <2>2, SMTT(30) DEF Moves, Onward
<1>finish. CASE Finish(t) /\ Advances(t, "release")
  <2>1. frame[t].pc = "finish" /\ UNCHANGED <<config, calls>>  BY <1>finish DEF Finish, At
  <2>2. Same(t) /\ frame'[t].pc = "release"  BY <1>finish, OthersSame DEF Advances
  <2>3. QED  BY <2>1, <2>2, SMTT(30) DEF Moves, Onward
<1>release. CASE Release(t) /\ Others(t) /\ frame'[t] = Idle
  <2>1. frame[t].pc = "release" /\ UNCHANGED <<config, calls>>  BY <1>release DEF Release, At
  <2>2. Same(t) /\ frame'[t].pc = "idle"  BY <1>release, OthersSame, IdleIs
  <2>3. QED  BY <2>1, <2>2, SMTT(30) DEF Moves, Onward
<1>interruptSet. CASE InterruptSet(t) /\ (Returns(t) \/ Sets(t))
  <2>1. frame[t].pc = "set" /\ UNCHANGED <<config, calls>>  BY <1>interruptSet DEF InterruptSet, At
  <2>2. Same(t) /\ frame'[t].pc \in {"signal", "idle"}
    BY <1>interruptSet, OthersSame, IdleIs, SMTT(30) DEF Sets, Returns
  <2>3. QED  BY <2>1, <2>2 DEF Moves, Onward
<1>interruptSignal. CASE InterruptSignal(t) /\ Returns(t)
  <2>1. frame[t].pc = "signal" /\ UNCHANGED <<config, calls>>
    BY <1>interruptSignal DEF InterruptSignal, At
  <2>2. Same(t) /\ frame'[t].pc = "idle"
    BY <1>interruptSignal, OthersSame, IdleIs, ZenonT(30) DEF Returns
  <2>3. QED  BY <2>1, <2>2 DEF Moves, Onward
<1>enter. CASE Enters(t) /\ \E op \in config.operations : Enter(t, op)
  <2>1. frame[t].pc = "idle" /\ UNCHANGED config  BY <1>enter DEF Enter, At
  <2>2. QED  BY <1>enter, <2>1, OthersSame DEF Enters
<1>interruptEnter. CASE InterruptEnter(t) /\ Aims(t)
  <2>1. frame[t].pc = "idle" /\ UNCHANGED config  BY <1>interruptEnter DEF InterruptEnter, At
  <2>2. QED  BY <1>interruptEnter, <2>1, OthersSame DEF Aims, Same
<1> QED
  BY <1>acquire, <1>activate, <1>beginClear, <1>beginReset, <1>firstCheck, <1>finalCheck, <1>finish,
     <1>release, <1>query, <1>openTemporary, <1>checkTemporary, <1>callbackRaises, <1>addAxioms,
     <1>removeAxioms, <1>flush, <1>flushCompile, <1>flushDelta, <1>flushCreate, <1>flushCommit,
     <1>precomputeType, <1>precomputeDone, <1>disposeClose, <1>disposeMark, <1>enter, <1>interruptEnter,
     <1>interruptSet, <1>interruptSignal, ZenonT(60) DEF Acts

\* A thread that steps is inside a call.
LEMMA StepBusy == ASSUME NEW t \in Threads, Step(t) PROVE frame[t].pc # "idle"
<1>1. CASE Protocol(t)
  BY <1>1
      DEF Protocol, At, Acquire, Activate, BeginClear, BeginReset, FirstCheck, FinalCheck, Finish, Release
<1>2. CASE Query(t) \/ OpenTemporary(t) \/ CheckTemporary(t) \/ CallbackRaises(t) \/ PrecomputeType(t)
  BY <1>2 DEF At, Query, OpenTemporary, CheckTemporary, CallbackRaises, PrecomputeType
<1>3. CASE AddAxioms(t) \/ RemoveAxioms(t) \/ Flush(t) \/ FlushCompile(t) \/ PrecomputeDone(t)
  BY <1>3 DEF At, AddAxioms, RemoveAxioms, Flush, FlushCompile, PrecomputeDone
<1>4. CASE FlushDelta(t) \/ FlushCreate(t) \/ FlushCommit(t) \/ DisposeClose(t) \/ DisposeMark(t)
  BY <1>4 DEF At, FlushDelta, FlushCreate, FlushCommit, DisposeClose, DisposeMark
<1>5. CASE InterruptSet(t) \/ InterruptSignal(t)  BY <1>5 DEF At, InterruptSet, InterruptSignal
<1>6. QED  BY <1>1, <1>2, <1>3, <1>4, <1>5 DEF Step, Body

\* Every call and every step keeps the layers.
LEMMA LayeredStep ==
    ASSUME Layered, NEW t \in Threads, Call(t) \/ Step(t)
    PROVE  Layered' /\ Acts(t)
<1>1. Typed /\ Locks /\ Owed /\ Ready /\ Marked /\ Opened  BY DEF Layered
<1>2. Typed' /\ Acts(t)  BY <1>1, TypedStep
<1>3. Locks'  BY <1>1, <1>2, LocksStep
<1>4. Owed'  BY <1>1, <1>2, OwedStep
<1>5. Ready'  BY <1>1, <1>2, ReadyStep
<1>6. Marked'  BY <1>1, <1>2, MarkedStep
<1>7. Opened'  BY <1>1, <1>2, OpenedStep
<1>8. QED  BY <1>2, <1>3, <1>4, <1>5, <1>6, <1>7, ZenonT(30) DEF Layered

\* A step inside a call keeps them and moves the call onward.
LEMMA StepKeeps ==
    ASSUME Layered, NEW t \in Threads, Step(t)
    PROVE  Layered' /\ Moves(t)
BY LayeredStep, MovesStep, StepBusy

\* A call that begins keeps them and leaves the other calls alone.
LEMMA CallKeeps ==
    ASSUME Layered, NEW t \in Threads, Call(t)
    PROVE  Layered' /\ Same(t) /\ UNCHANGED config
BY LayeredStep, MovesStep

\* A call from inside an operation is rejected: nothing but the count of calls
\* changes.
LEMMA ReenterKeeps ==
    ASSUME Layered, NEW t \in Threads, Reenter(t)
    PROVE  Layered' /\ frame' = frame /\ config' = config /\ calls' = calls + 1
<1>1. Typed /\ Locks /\ TypedState  BY DEF Layered, Typed
<1>2. activeThread = t
  <2>1. frame[t].pc = "body"  BY DEF Reenter, At
  <2>2. "body" \in Inside  BY DEF Inside
  <2>3. QED  BY <1>1, <2>1, <2>2 DEF Locks
<1>3. /\ frame' = frame /\ config' = config /\ calls' = calls + 1 /\ calls < config.calls
      /\ sessions' = sessions /\ stateLock' = stateLock /\ operationLock' = operationLock
      /\ activeThread' = activeThread /\ disposed' = disposed
      /\ cancelled' = cancelled /\ observers' = observers
      /\ view' = view /\ additions' = additions /\ removals' = removals /\ runtime' = runtime
      /\ precomputed' = precomputed /\ wanted' = wanted
  BY <1>2 DEF Reenter, locks, token, ontology
<1>4. calls' \in 0..config.calls  BY <1>1, <1>3, SMT DEF TypedState, Configs
<1>5. TypedState'  BY <1>1, <1>3, <1>4, SMTT(30) DEF TypedState
<1>6. Typed'  BY <1>1, <1>3, <1>5, SMTT(30) DEF Typed, ArgumentsFit
<1>7. (Locks /\ Owed /\ Ready /\ Marked /\ Opened)' = (Locks /\ Owed /\ Ready /\ Marked /\ Opened)
  BY <1>3, SMTT(30)
      DEF Locks, Owed, OwedState, NoLostUpdate, OwedBy, Ready, ReadyBy, Marked, MarkedBy, Opened,
          OpenedObservers, OpenSessions, Borrows
<1>8. QED  BY <1>3, <1>6, <1>7, ZenonT(30) DEF Layered

\* The layers hold at the start.
LEMMA LayeredInit == Init => Layered
BY TypedInit, LocksInit, OwedInit, ReadyInit, MarkedInit, OpenedInit DEF Layered

-----------------------------------------------------------------------------
\* A step inside a call begins no other call.
LEMMA StepCounted ==
    ASSUME Counted, config.callers \in Nat, NEW t \in Threads, Moves(t)
    PROVE  Counted'
<1>1. \A u \in Threads \ {t} : frame'[u].pc = frame[u].pc  BY DEF Moves, Same
<1>2. frame[t].pc # "idle"  BY DEF Moves, Onward
<1>3. Calling' \subseteq Calling  BY <1>1, <1>2 DEF Calling, At
<1>4. IsFiniteSet(Calling') /\ Cardinality(Calling') <= Cardinality(Calling)
  BY <1>3, FS_Subset DEF Counted
<1>5. IsFiniteSet(Calling) /\ Cardinality(Calling) \in Nat /\ Cardinality(Calling') \in Nat
  BY <1>4, FS_CardinalityType DEF Counted
<1>6. config' = config  BY DEF Moves
<1>7. QED  BY <1>4, <1>5, <1>6, SMTT(30) DEF Counted

\* A call begins only while fewer callers are inside one than the workload has.
LEMMA CallCounted ==
    ASSUME Counted, config.callers \in Nat, NEW t \in Threads, Same(t), UNCHANGED config,
           Cardinality(Calling) < config.callers
    PROVE  Counted'
<1>1. \A u \in Threads \ {t} : frame'[u].pc = frame[u].pc  BY DEF Same
<1>2. Calling' \subseteq Calling \cup {t}  BY <1>1 DEF Calling, At
<1>3. /\ IsFiniteSet(Calling \cup {t})
      /\ \/ Cardinality(Calling \cup {t}) = Cardinality(Calling)
         \/ Cardinality(Calling \cup {t}) = Cardinality(Calling) + 1
  <2>1. IsFiniteSet(Calling)  BY DEF Counted
  <2>2. QED  BY <2>1, FS_AddElement
<1>4. IsFiniteSet(Calling') /\ Cardinality(Calling') <= Cardinality(Calling \cup {t})
  BY <1>2, <1>3, FS_Subset, ZenonT(30)
<1>5. Cardinality(Calling) \in Nat /\ Cardinality(Calling') \in Nat
  BY <1>4, FS_CardinalityType DEF Counted
<1>6. QED  BY <1>3, <1>4, <1>5, SMTT(30) DEF Counted

\* The invariant holds at the start, before any call.
LEMMA InvInit == Init => Inv
<1> SUFFICES ASSUME Init PROVE Inv  OBVIOUS
<1>1. Layered  BY LayeredInit
<1>2. Calling = {}  BY DEF Init, Calling, At, Idle
<1>3. config.callers \in Nat  BY <1>1 DEF Layered, Typed, TypedState, Configs
<1>4. IsFiniteSet(Calling) /\ Cardinality(Calling) = 0  BY <1>2, FS_EmptySet
<1>5. QED  BY <1>1, <1>3, <1>4, SMTT(30) DEF Inv, Counted

\* Every step of any thread keeps the invariant.
LEMMA InvNext == Inv /\ [Next]_vars => Inv'
<1> SUFFICES ASSUME Inv, [Next]_vars PROVE Inv'  OBVIOUS
<1>1. CASE UNCHANGED vars
  <2>1. Layered' = Layered
    BY <1>1, SMTT(30)
        DEF vars, locks, token, ontology, Layered, Typed, TypedState, ArgumentsFit, Locks, Owed, OwedState,
       NoLostUpdate, OwedBy, Ready, ReadyBy, Marked, MarkedBy, Opened, OpenedObservers, OpenSessions, Borrows
  <2>2. Counted' = Counted  BY <1>1 DEF vars, Counted, Calling, At
  <2>3. QED  BY <2>1, <2>2, ZenonT(30) DEF Inv
<1>2. ASSUME NEW t \in Threads, Call(t) PROVE Inv'
  <2>1. Layered' /\ Same(t) /\ UNCHANGED config  BY <1>2, CallKeeps DEF Inv
  <2>2. config.callers \in Nat  BY DEF Inv, Layered, Typed, TypedState, Configs
  <2>3. Cardinality(Calling) < config.callers  BY <1>2 DEF Call
  <2>4. QED  BY <2>1, <2>2, <2>3, CallCounted, ZenonT(30) DEF Inv
<1>3. ASSUME NEW t \in Threads, Step(t) PROVE Inv'
  <2>1. Layered' /\ Moves(t)  BY <1>3, StepKeeps DEF Inv
  <2>2. config.callers \in Nat  BY DEF Inv, Layered, Typed, TypedState, Configs
  <2>3. QED  BY <2>1, <2>2, StepCounted, ZenonT(30) DEF Inv
<1>4. ASSUME NEW t \in Threads, Reenter(t) PROVE Inv'
  <2>1. Layered' /\ frame' = frame /\ config' = config  BY <1>4, ReenterKeeps DEF Inv
  <2>2. Counted' = Counted  BY <2>1 DEF Counted, Calling, At
  <2>3. QED  BY <2>1, <2>2, ZenonT(30) DEF Inv
<1>5. QED  BY <1>1, <1>2, <1>3, <1>4, ZenonT(30) DEF Next, AllReturned

\* So it holds in every state of the facade.
LEMMA Invariance == Spec => []Inv
BY InvInit, InvNext, PTL DEF Spec

-----------------------------------------------------------------------------
\* The invariant gives the variables their types.
LEMMA SoundTypes == Inv => TypeOK
<1> SUFFICES ASSUME Inv PROVE TypeOK  OBVIOUS
<1>1. TypedState /\ frame \in [Threads -> Frames] /\ Cardinality(Calling) <= config.callers
  BY DEF Inv, Layered, Typed, Counted
<1>2. /\ {stateLock, operationLock, activeThread} \subseteq Threads \cup {Nobody}
      /\ disposed \in BOOLEAN /\ cancelled \in BOOLEAN
      /\ config.backend \in Backends /\ calls \in 0..config.calls
      /\ {view, additions, removals, wanted} \subseteq SUBSET Axioms
      /\ precomputed \subseteq InferenceTypes
  BY <1>1 DEF TypedState, Configs
<1>3. /\ sessions \in Seq([open : BOOLEAN, program : SUBSET Axioms]) /\ Len(sessions) <= MaxSessions
      /\ DOMAIN sessions = 1..Len(sessions)
  BY <1>1, SMTT(30) DEF TypedState, Sessions
<1>4. /\ runtime.session \in DOMAIN sessions
      /\ runtime.program \subseteq Axioms /\ runtime.computed \subseteq InferenceTypes
  BY <1>1, <1>3 DEF TypedState
<1>5. DOMAIN observers \subseteq DOMAIN sessions /\ \A s \in DOMAIN observers : observers[s] \in BOOLEAN
  <2>1. DOMAIN observers \subseteq DOMAIN sessions  BY <1>1, <1>3 DEF TypedState
  <2>2. observers \in [DOMAIN observers -> BOOLEAN]  BY <1>1 DEF TypedState
  <2>3. QED  BY <2>1, <2>2
<1>6. \A t \in Threads : frame[t].pc \in PCs /\ frame[t].outcome \in Outcomes
  BY <1>1 DEF Frames
<1>7. QED  BY <1>1, <1>2, <1>3, <1>4, <1>5, <1>6, ZenonT(30) DEF TypeOK, PCs, Outcomes

\* A body runs on an open session of a reasoner that is not disposed, for the active thread.
LEMMA SoundUse == Inv => NoUseAfterDispose
<1> SUFFICES ASSUME Inv, NEW t \in Threads,
                    frame[t].pc \in {"body", "temporary", "flush", "delta", "create", "commit"}
             PROVE  ~disposed /\ sessions[runtime.session].open /\ activeThread = t
  BY DEF NoUseAfterDispose
<1>1. frame[t].pc \in Inside \ {"finish"} /\ frame[t].pc \in HeldPCs /\ frame[t].pc # "mark"
  BY DEF Inside, HeldPCs
<1>2. ~disposed  BY <1>1 DEF Inv, Layered, Opened
<1>3. activeThread = t  BY <1>1 DEF Inv, Layered, Locks
<1>4. runtime.session \in 1..Len(sessions)  BY DEF Inv, Layered, Typed, TypedState
<1>5. OpenedBy(t)  BY <1>1, OpenedSeen DEF Inv, Layered
<1>6. sessions[runtime.session].open  BY <1>1, <1>2, <1>4, <1>5, ZenonT(30) DEF OpenedBy
<1>7. QED  BY <1>2, <1>3, <1>6

\* Between operations the runtime's session is the only open one, and after dispose() none is.
LEMMA SoundSessions == Inv => NoSessionLeak
<1> SUFFICES ASSUME Inv, ~Busy
             PROVE  /\ OpenSessions = IF disposed THEN {} ELSE {runtime.session}
                    /\ config.backend # "python" => DOMAIN observers = OpenSessions
  BY DEF NoSessionLeak
<1>1. \A t \in Threads : frame[t].pc \notin {"temporary", "commit", "mark"}  BY DEF Busy, Inside
<1>2. \A s \in 1..Len(sessions) : sessions[s].open <=> ~disposed /\ s = runtime.session
  BY <1>1 DEF Inv, Layered, Opened, Borrows
<1>3. DOMAIN sessions = 1..Len(sessions) /\ runtime.session \in 1..Len(sessions)
  BY SMT DEF Inv, Layered, Typed, TypedState
<1>4. OpenSessions = IF disposed THEN {} ELSE {runtime.session}
  BY <1>2, <1>3, SMTT(30) DEF OpenSessions
<1>5. QED  BY <1>4 DEF Inv, Layered, Opened, OpenedObservers

\* No operation uses a closed session or a disposed reasoner, and no session outlives
\* the operation that made it: facade.py closes the loser of a swap and every temporary.
THEOREM SessionsStaySound == Spec => []SessionsSound
<1>1. Inv => SessionsSound  BY SoundTypes, SoundUse, SoundSessions DEF SessionsSound
<1>2. QED  BY <1>1, Invariance, PTL

\* The committed view is what the callers asked for, less what is pending: no concurrent
\* add, remove, flush or failed flush loses or invents an axiom, and services that are
\* reported computed belong to the committed revision.
THEOREM UpdatesStayExact == Spec => []UpdatesExact
<1>1. ASSUME Inv PROVE UpdatesExact
  <2>1. OwedState  BY <1>1 DEF Inv, Layered, Owed
  <2>2. RevisionCoherent /\ NoLostUpdate  BY <2>1 DEF OwedState, RevisionCoherent
  <2>3. ImmediateCommits
    <3> SUFFICES ASSUME NEW t \in Threads,
                        ~config.buffered, frame[t].op \in {"add", "remove"}, frame[t].outcome = "ok"
                 PROVE  additions = {} /\ removals = {} /\ view = wanted
      BY DEF ImmediateCommits
    <3>1. additions = {} /\ removals = {}  BY <1>1 DEF Inv, Layered, Owed, OwedBy
    <3>2. QED  BY <2>2, <3>1 DEF NoLostUpdate
  <2>4. PrecomputedReady  BY <1>1 DEF Inv, Layered, Ready, PrecomputedReady
  <2>5. QED  BY <2>2, <2>3, <2>4 DEF UpdatesExact
<1>2. QED  BY <1>1, Invariance, PTL

\* Only an operation that interrupt() aimed at ends as interrupted, and an operation past
\* its clear that was interrupted does not return normally.
THEOREM InterruptsStayExact == Spec => []InterruptsExact
<1>1. Inv => InterruptsExact
  BY DEF Inv, Layered, Marked, MarkedBy, InterruptsExact, NoCarryOver, InterruptHonoured
<1>2. QED  BY <1>1, Invariance, PTL

-----------------------------------------------------------------------------
\* The holder of a lock never waits for the other one in a cycle.
LEMMA NobodyWaits == Inv => NoWaitCycle
<1> SUFFICES ASSUME Inv, Calling # {}
             PROVE  \E t \in Calling :
                        ~ \/ frame[t].pc = "entered" /\ operationLock # Nobody
                          \/ frame[t].pc \in {"acquired", "finish", "mark"} /\ stateLock # Nobody
  BY DEF NoWaitCycle, At
<1>1. stateLock \in Threads \cup {Nobody} /\ operationLock \in Threads \cup {Nobody}
  BY DEF Inv, Layered, Typed, TypedState
<1>2. CASE stateLock \in Threads
  <2>1. frame[stateLock].pc \in {"set", "signal"}  BY <1>2 DEF Inv, Layered, Locks
  <2>2. stateLock \in Calling  BY <1>2, <2>1 DEF Calling, At
  <2>3. QED  BY <2>1, <2>2
<1>3. CASE stateLock = Nobody /\ operationLock \in Threads
  <2>1. frame[operationLock].pc \in HeldPCs  BY <1>3 DEF Inv, Layered, Locks
  <2>2. frame[operationLock].pc \notin {"idle", "entered"}  BY <2>1 DEF HeldPCs, Inside
  <2>3. operationLock \in Calling  BY <1>3, <2>2 DEF Calling, At
  <2>4. QED  BY <1>3, <2>2, <2>3
<1>4. CASE stateLock = Nobody /\ operationLock = Nobody  BY <1>4
<1>5. QED  BY <1>1, <1>2, <1>3, <1>4

\* The place of a phase in the order in which Distance counts them.
Index(p) == CHOOSE i \in DOMAIN Phases : Phases[i] = p

\* The places, one by one.
LEMMA Indices ==
    /\ Index("signal") = 1 /\ Index("set") = 2 /\ Index("release") = 3 /\ Index("finish") = 4
    /\ Index("mark") = 5 /\ Index("close") = 6 /\ Index("final") = 7 /\ Index("commit") = 8
    /\ Index("create") = 9 /\ Index("delta") = 10 /\ Index("flush") = 11
    /\ Index("temporary") = 12 /\ Index("body") = 13 /\ Index("check") = 14
    /\ Index("reset") = 15 /\ Index("begin") = 16 /\ Index("acquired") = 17
    /\ Index("entered") = 18
<1>1. DOMAIN Phases = 1..18  BY SMT DEF Phases
<1>2. \A i, j \in 1..18 : Phases[i] = Phases[j] => i = j  BY SMT DEF Phases
<1>3. \A i \in 1..18 : Index(Phases[i]) = i
  <2> SUFFICES ASSUME NEW i \in 1..18 PROVE Index(Phases[i]) = i  OBVIOUS
  <2>1. Index(Phases[i]) \in 1..18 /\ Phases[Index(Phases[i])] = Phases[i]  BY <1>1 DEF Index
  <2>2. QED  BY <1>2, <2>1
<1>4. QED  BY <1>3, SMT DEF Phases

\* The control flow only goes to an earlier place.
LEMMA OnwardIsNearer ==
    ASSUME NEW p, NEW q, Onward(p, q), q # "idle"
    PROVE  Index(p) \in 1..18 /\ Index(q) \in 1..18 /\ Index(q) < Index(p)
BY Indices, SMT DEF Onward

\* An earlier place outweighs any number of inference types left.
LEMMA Lexicographic ==
    ASSUME NEW n \in Nat, NEW i \in Nat, NEW j \in Nat, j < i, NEW c \in 0..n, NEW d \in 0..n
    PROVE  j * (n + 1) + c < i * (n + 1) + d
<1>1. PICK k \in Nat : i = j + 1 + k
  <2>1. i - j - 1 \in Nat  BY SMT
  <2>2. QED  BY <2>1, SMT
<1>2. i * (n + 1) = j * (n + 1) + (n + 1) + k * (n + 1)  BY <1>1, SMTT(30)
<1>3. k * (n + 1) >= 0 /\ k * (n + 1) \in Nat /\ j * (n + 1) \in Nat  BY SMT
<1>4. QED  BY <1>2, <1>3, SMTT(30)

\* The inference types a precomputation has left to compute.
Left(t) == Cardinality(InferenceTypes \ frame[t].completed)

\* They are at most all of them.
LeftFits ==
    /\ Cardinality(InferenceTypes) \in Nat
    /\ \A t \in Threads : Left(t) \in 0..Cardinality(InferenceTypes)

\* The inference types left are finitely many.
LEMMA LeftBounded == LeftFits
<1> SUFFICES ASSUME NEW t \in Threads
             PROVE  Cardinality(InferenceTypes) \in Nat /\ Left(t) \in 0..Cardinality(InferenceTypes)
  BY FS_CardinalityType, FacadeAssumption DEF LeftFits
<1>1. IsFiniteSet(InferenceTypes)  BY FacadeAssumption
<1>2. InferenceTypes \ frame[t].completed \in SUBSET InferenceTypes  OBVIOUS
<1>3. IsFiniteSet(InferenceTypes \ frame[t].completed) /\ Left(t) <= Cardinality(InferenceTypes)
  BY <1>1, <1>2, FS_Subset DEF Left
<1>4. Cardinality(InferenceTypes) \in Nat /\ Left(t) \in Nat
  BY <1>1, <1>3, FS_CardinalityType DEF Left
<1>5. QED  BY <1>3, <1>4, SMT

\* Distance in terms of the place and of what is left.
DistanceFits ==
    \A t \in Threads :
        Distance(t) = IF frame[t].pc = "idle" THEN 0
                      ELSE Index(frame[t].pc) * (Cardinality(InferenceTypes) + 1) + Left(t)

\* The specification's Distance is that number.
LEMMA DistanceIs == DistanceFits
BY DEF DistanceFits, Distance, At, Index, Left

\* No call is a negative distance from its return.
DistanceNatural == \A t \in Threads : Distance(t) \in Nat

\* A distance is a natural number.
LEMMA DistanceBounded == Typed => DistanceNatural
<1> SUFFICES ASSUME Typed, NEW t \in Threads PROVE Distance(t) \in Nat  BY DEF DistanceNatural
<1>1. Cardinality(InferenceTypes) \in Nat /\ Left(t) \in Nat  BY LeftBounded, SMT DEF LeftFits
<1>2. frame[t].pc \in PCs  BY DEF Typed, Frames
<1>3. frame[t].pc = "idle" \/ Index(frame[t].pc) \in Nat  BY <1>2, Indices, SMTT(30) DEF PCs, Inside
<1>4. \A i, n, d \in Nat : i * (n + 1) + d \in Nat
  <2> TAKE i, n, d \in Nat
  <2>1. n + 1 \in Nat  BY SMT
  <2>2. \A a, b \in Nat : a * b \in Nat  BY SMT
  <2>3. i * (n + 1) \in Nat  BY <2>1, <2>2
  <2>4. QED  BY <2>3, SMT
<1>5. Distance(t) = IF frame[t].pc = "idle" THEN 0
                    ELSE Index(frame[t].pc) * (Cardinality(InferenceTypes) + 1) + Left(t)
  BY DistanceIs DEF DistanceFits
<1>6. CASE frame[t].pc = "idle"  BY <1>5, <1>6, SMTT(30)
<1>7. CASE frame[t].pc # "idle"
  <2>1. Index(frame[t].pc) * (Cardinality(InferenceTypes) + 1) + Left(t) \in Nat
    BY <1>1, <1>3, <1>4, <1>7
  <2>2. QED  BY <1>5, <1>7, <2>1, ZenonT(60)
<1>8. QED  BY <1>6, <1>7

\* A step inside a call brings that call nearer to its return.
LEMMA MovesIsNearer ==
    ASSUME Typed, Typed', NEW t \in Threads, Moves(t)
    PROVE  Distance(t)' < Distance(t)
<1> DEFINE n == Cardinality(InferenceTypes)
<1>1. n \in Nat /\ Left(t) \in 0..n /\ Left(t)' \in 0..n
  <2>1. LeftFits /\ LeftFits'  BY LeftBounded, PTL
  <2>2. QED  BY <2>1 DEF LeftFits
<1>2. /\ Distance(t) = IF frame[t].pc = "idle" THEN 0 ELSE Index(frame[t].pc) * (n + 1) + Left(t)
      /\ Distance(t)' = IF frame'[t].pc = "idle" THEN 0 ELSE Index(frame'[t].pc) * (n + 1) + Left(t)'
  <2>1. DistanceFits /\ DistanceFits'  BY DistanceIs, PTL
  <2>2. QED  BY <2>1 DEF DistanceFits
<1>3. frame[t].pc # "idle" /\ Index(frame[t].pc) \in 1..18  BY Indices, SMT DEF Moves, Onward
<1> HIDE DEF n
<1>4. CASE Onward(frame[t].pc, frame'[t].pc) /\ frame'[t].pc # "idle"
  <2>1. Index(frame'[t].pc) \in 1..18 /\ Index(frame'[t].pc) < Index(frame[t].pc)
    BY <1>4, OnwardIsNearer
  <2> DEFINE i == Index(frame[t].pc)  j == Index(frame'[t].pc)  c == Left(t)'  d == Left(t)
  <2>2. i \in Nat /\ j \in Nat /\ j < i /\ c \in 0..n /\ d \in 0..n  BY <1>1, <1>3, <2>1, SMT
  <2>3. Distance(t) = i * (n + 1) + d /\ Distance(t)' = j * (n + 1) + c  BY <1>2, <1>3, <1>4
  <2> HIDE DEF i, j, c, d
  <2>4. QED  BY <1>1, <2>2, <2>3, Lexicographic
<1>5. CASE frame'[t].pc = "idle"
  <2> DEFINE i == Index(frame[t].pc)  d == Left(t)
  <2>1. Distance(t)' = 0 /\ Distance(t) = i * (n + 1) + d /\ i \in 1..18 /\ d \in Nat
    BY <1>1, <1>2, <1>3, <1>5, SMTT(30)
  <2> HIDE DEF i, d
  <2>2. 0 * (n + 1) + 0 < i * (n + 1) + d
    <3>1. i \in Nat /\ 0 < i /\ 0 \in 0..n /\ d \in 0..n  BY <1>1, <2>1, SMT DEF d
    <3>2. QED  BY <1>1, <3>1, Lexicographic
  <2>3. QED  BY <1>1, <2>1, <2>2, SMT
<1>6. CASE frame[t].pc = "body" /\ frame'[t].pc = "body"
  <2>1. PICK type \in InferenceTypes \ frame[t].completed :
            frame'[t].completed = frame[t].completed \cup {type}
    BY <1>6 DEF Moves, Onward
  <2> DEFINE S == InferenceTypes \ frame[t].completed
  <2>2. InferenceTypes \ frame'[t].completed = S \ {type} /\ type \in S  BY <2>1
  <2>3. IsFiniteSet(S)  BY FacadeAssumption, FS_Subset
  <2>4. Cardinality(S \ {type}) = Cardinality(S) - 1  BY <2>2, <2>3, FS_RemoveElement
  <2>5. Left(t)' = Left(t) - 1  BY <2>2, <2>4 DEF Left
  <2> DEFINE i == Index("body")
  <2>6. /\ Distance(t) = i * (n + 1) + Left(t) /\ Distance(t)' = i * (n + 1) + Left(t)'
        /\ i = 13
    BY <1>2, <1>6, Indices
  <2> HIDE DEF i
  <2>7. QED  BY <1>1, <2>5, <2>6, SMTT(30)
<1>7. QED  BY <1>4, <1>5, <1>6 DEF Moves

\* No call can be blocked by another one for ever: in every state some call can go on, and
\* every step that begins no call brings one nearer to its return and takes none further
\* away.
THEOREM EveryCallReturns == Spec => CallsReturn
<1> DEFINE Nearer == /\ \E t \in Threads : Distance(t)' < Distance(t)
                     /\ \A t \in Threads : Distance(t)' <= Distance(t)
<1>1. ASSUME Inv, Inv', [Next]_vars
      PROVE  [NoWaitCycle' /\ (calls' = calls => Nearer)]_vars
  <2>1. NoWaitCycle'  BY <1>1, NobodyWaits, PTL
  <2>2. Typed /\ Typed' /\ calls \in Int
    BY <1>1, SMTT(30) DEF Inv, Layered, Typed, TypedState, Configs
  <2>3. ASSUME NEW t \in Threads, Call(t) PROVE calls' # calls
    <3>1. calls' = calls + 1  BY <2>3 DEF Call, Enter, InterruptEnter
    <3>2. QED  BY <2>2, <3>1, SMT
  <2>4. ASSUME NEW t \in Threads, Step(t) PROVE Nearer
    <3>1. Moves(t)  BY <1>1, <2>4, StepKeeps DEF Inv
    <3>2. Distance(t)' < Distance(t) /\ Distance(t) \in Nat /\ Distance(t)' \in Nat
      <4>1. Distance(t)' < Distance(t)  BY <2>2, <3>1, MovesIsNearer
      <4>2. DistanceNatural /\ DistanceNatural'  BY <2>2, DistanceBounded, PTL
      <4>3. QED  BY <4>1, <4>2 DEF DistanceNatural
    <3>3. \A u \in Threads \ {t} : Distance(u)' = Distance(u) /\ Distance(u) \in Nat
      <4> SUFFICES ASSUME NEW u \in Threads \ {t}
                   PROVE  Distance(u)' = Distance(u) /\ Distance(u) \in Nat
        OBVIOUS
      <4>1. frame'[u].pc = frame[u].pc /\ frame'[u].completed = frame[u].completed
        BY <3>1 DEF Moves, Same
      <4>2. Distance(u)' = Distance(u)  BY <4>1, SMT DEF Distance, At
      <4>3. QED  BY <2>2, <4>2, DistanceBounded DEF DistanceNatural
    <3> HIDE DEF Nearer
    <3>4. \A u \in Threads : Distance(u)' <= Distance(u)  BY <3>2, <3>3, SMT
    <3>5. QED  BY <3>2, <3>4 DEF Nearer
  <2>5. ASSUME NEW t \in Threads, Reenter(t) PROVE calls' # calls
    <3>1. calls' = calls + 1  BY <2>5 DEF Reenter
    <3>2. QED  BY <2>2, <3>1, SMT
  <2> HIDE DEF Nearer
  <2>6. QED  BY <1>1, <2>1, <2>3, <2>4, <2>5 DEF Next, AllReturned
<1>2. QED  BY <1>1, Invariance, PTL DEF Spec, CallsReturn
=============================================================================
