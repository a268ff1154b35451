----------------------------- MODULE FacadeLayers -----------------------------
(***************************************************************************)
(* Ready, Marked and Opened: what the services have computed, for whom a   *)
(* cancellation token or a session's observer is set, and which sessions   *)
(* are open and observe the token.  Every step keeps each of them, given   *)
(* the layers before it.                                                   *)
(***************************************************************************)
EXTENDS FacadeSteps

\* The leaves are first-order: Zenon proves them, and SMT those that need arithmetic,
\* sequences, records or a wide case split.
USE Zenon

\* What the precomputation of t has completed belongs to the current services.
ReadyBy(t) ==
    /\ frame[t].pc \in {"idle", "entered", "acquired", "begin", "reset", "check"} =>
          frame[t].completed = {}
    /\ frame[t].pc = "body" => frame[t].completed \subseteq runtime.computed

\* What this precomputation has completed, the current services have computed.
Ready == precomputed \subseteq runtime.computed /\ \A t \in Threads : ReadyBy(t)

\* A token or an observer that is set while t is past its clear was set for t.
MarkedBy(t) ==
    /\ frame[t].pc \in Begun /\ cancelled => frame[t].targeted
    /\ frame[t].pc \in Begun \ {"reset"} =>
          \A s \in DOMAIN observers : observers[s] => frame[t].targeted
    /\ frame[t].pc = "reset" => DOMAIN observers \subseteq frame[t].seen
    /\ frame[t].outcome = "interrupted" => frame[t].targeted
    /\ frame[t].raised =>
          /\ frame[t].pc \in Begun \cup {"finish", "release"}
          /\ frame[t].pc \in Begun => cancelled
          /\ frame[t].outcome # "ok"

\* A token or an observer that is set was set for the operation that sees it.
Marked == \A t \in Threads : MarkedBy(t)

\* What is computed: precompute() reports a type only once the current services have it,
\* and a new revision starts with none.
LEMMA ReadyStep ==
    ASSUME Typed, Typed', Locks, Ready, NEW t \in Threads, Acts(t)
    PROVE  Ready'
\* Nothing is computed: a call that has not reached its body has completed nothing.
<1>quiet. ASSUME Same(t), UNCHANGED <<precomputed, runtime>>,
                 frame'[t].pc \in {"idle", "entered", "acquired", "begin", "reset", "check", "body"} =>
                     frame'[t].completed = {}
          PROVE  Ready'
  <2> USE <1>quiet
  <2>1. ReadyBy(t)'  BY DEF ReadyBy
  <2>2. \A u \in Threads \ {t} : ReadyBy(u)'  BY SMT DEF Ready, ReadyBy, Same
  <2>3. QED  BY <2>1, <2>2 DEF Ready
<1>active. ASSUME Stays(t), precomputed' \subseteq runtime'.computed, ReadyBy(t)'
           PROVE  Ready'
  <2> USE <1>active
  <2>1. \A u \in Threads \ {t} : frame[u].pc # "body" /\ frame'[u] = frame[u]
    BY OnlyOneInside, HeldInside DEF Stays, Others, Inside
  <2>2. \A u \in Threads \ {t} : ReadyBy(u)'  BY <2>1 DEF Ready, ReadyBy
  <2>3. QED  BY <2>2 DEF Ready
<1>precomputeType. CASE PrecomputeType(t) /\ Stays(t)
                          /\ (Completes(t) \/ (Failed(t, runtime.session) /\ UNCHANGED runtime))
  <2> USE <1>precomputeType
  <2>1. frame[t].pc = "body" /\ UNCHANGED precomputed  BY DEF PrecomputeType, At
  <2>2. CASE Completes(t)
    <3>1. PICK type \in InferenceTypes :
              /\ frame'[t].completed = frame[t].completed \cup {type}
              /\ runtime' = [runtime EXCEPT !.computed = @ \cup {type}]
      BY <2>2 DEF Completes
    <3>2. runtime'.computed = runtime.computed \cup {type}  BY <3>1 DEF Typed, TypedState
    <3>3. ReadyBy(t)'  BY <2>1, <2>2, <3>1, <3>2 DEF Completes, Ready, ReadyBy
    <3>4. QED  BY <2>1, <3>2, <3>3, <1>active DEF Ready
  <2>3. CASE Failed(t, runtime.session) /\ UNCHANGED runtime
    BY <2>1, <2>3, <1>quiet, OthersSame DEF Failed
  <2>4. QED  BY <2>2, <2>3
<1>precomputeDone. CASE PrecomputeDone(t) /\ Stays(t) /\ Advances(t, "final")
  <2> USE <1>precomputeDone
  <2>1. frame[t].pc = "body" /\ UNCHANGED runtime /\ precomputed' = precomputed \cup frame[t].completed
    BY DEF PrecomputeDone, At
  <2>2. ReadyBy(t)'  BY DEF Advances, ReadyBy
  <2>3. QED  BY <2>1, <2>2, <1>active DEF Ready, ReadyBy
\* New services have computed nothing, and nothing is reported ready.
<1>flushCommit. CASE /\ FlushCommit(t) /\ Stays(t)
                     /\ \/ Advances(t, "final") /\ view' = frame[t].proposed
                        \/ /\ Failed(t, frame[t].session)
                           /\ UNCHANGED <<view, additions, removals, runtime, precomputed>>
  <2> USE <1>flushCommit
  <2>1. precomputed' = {} \/ UNCHANGED <<precomputed, runtime>>  BY DEF FlushCommit
  <2>2. ReadyBy(t)'  BY DEF Advances, Failed, ReadyBy
  <2>3. QED  BY <2>1, <2>2, <1>active DEF Ready
\* A step inside an operation that computes nothing and leaves the body, or comes after it.
<1>later. ASSUME Stays(t), UNCHANGED <<precomputed, runtime>>,
                 frame'[t].pc \notin {"begin", "reset", "check", "body"}
          PROVE  Ready'
  <2>1. Same(t) /\ frame'[t].pc \notin {"idle", "entered", "acquired"}
    BY <1>later, OthersSame DEF Stays, Inside
  <2>2. QED  BY <1>later, <2>1, <1>quiet
<1>query. CASE Query(t) /\ Stays(t) /\ (Advances(t, "final") \/ Failed(t, runtime.session))
  <2>1. UNCHANGED <<precomputed, runtime>> /\ frame'[t].pc \notin {"begin", "reset", "check", "body"}
    BY <1>query DEF Query, Advances, Failed, ontology
  <2>2. QED  BY <1>query, <2>1, <1>later
<1>openTemporary. CASE /\ OpenTemporary(t) /\ Stays(t)
                       /\ \/ /\ ~cancelled /\ sessions' = NewSession(Compiled(view))
                             /\ observers' = Attached(Len(sessions'))
                             /\ Taken(t, "temporary", Len(sessions'))
                          \/ Failed(t, 0) /\ UNCHANGED <<observers, sessions>>
  <2>1. UNCHANGED <<precomputed, runtime>> /\ frame'[t].pc \notin {"begin", "reset", "check", "body"}
    BY <1>openTemporary DEF OpenTemporary, Taken, Failed, ontology
  <2>2. QED  BY <1>openTemporary, <2>1, <1>later
<1>checkTemporary. CASE CheckTemporary(t) /\ Stays(t) /\ (Advances(t, "final") \/ Failed(t, frame[t].session))
  <2>1. UNCHANGED <<precomputed, runtime>> /\ frame'[t].pc \notin {"begin", "reset", "check", "body"}
    BY <1>checkTemporary DEF CheckTemporary, Advances, Failed, ontology
  <2>2. QED  BY <1>checkTemporary, <2>1, <1>later
<1>callbackRaises. CASE CallbackRaises(t) /\ Stays(t) /\ frame'[t].pc = "finish" /\ frame'[t].outcome = "error"
  <2>1. UNCHANGED <<precomputed, runtime>> /\ frame'[t].pc \notin {"begin", "reset", "check", "body"}
    BY <1>callbackRaises DEF CallbackRaises, ontology
  <2>2. QED  BY <1>callbackRaises, <2>1, <1>later
<1>addAxioms. CASE AddAxioms(t) /\ Stays(t) /\ Advances(t, IF config.buffered THEN "final" ELSE "flush")
  <2>1. UNCHANGED <<precomputed, runtime>> /\ frame'[t].pc \notin {"begin", "reset", "check", "body"}
    BY <1>addAxioms DEF AddAxioms, Advances, ontology
  <2>2. QED  BY <1>addAxioms, <2>1, <1>later
<1>removeAxioms. CASE RemoveAxioms(t) /\ Stays(t) /\ Advances(t, IF config.buffered THEN "final" ELSE "flush")
  <2>1. UNCHANGED <<precomputed, runtime>> /\ frame'[t].pc \notin {"begin", "reset", "check", "body"}
    BY <1>removeAxioms DEF RemoveAxioms, Advances, ontology
  <2>2. QED  BY <1>removeAxioms, <2>1, <1>later
<1>flush. CASE Flush(t) /\ Stays(t) /\ Advances(t, "flush")
  <2>1. UNCHANGED <<precomputed, runtime>> /\ frame'[t].pc \notin {"begin", "reset", "check", "body"}
    BY <1>flush DEF Flush, Advances, ontology
  <2>2. QED  BY <1>flush, <2>1, <1>later
<1>flushCompile. CASE /\ FlushCompile(t) /\ Stays(t)
                      /\ \/ additions = {} /\ removals = {} /\ Advances(t, "final")
                         \/ Proposed(t)
                         \/ Failed(t, 0)
  <2>1. UNCHANGED <<precomputed, runtime>> /\ frame'[t].pc \notin {"begin", "reset", "check", "body"}
    BY <1>flushCompile DEF FlushCompile, Advances, Proposed, Failed, ontology
  <2>2. QED  BY <1>flushCompile, <2>1, <1>later
<1>flushDelta. CASE /\ FlushDelta(t) /\ Stays(t)
                    /\ \/ /\ Compiled(frame[t].proposed) = sessions[runtime.session].program
                          /\ Taken(t, "commit", runtime.session)
                       \/ Advances(t, "create")
                       \/ Failed(t, runtime.session)
  <2>1. UNCHANGED <<precomputed, runtime>> /\ frame'[t].pc \notin {"begin", "reset", "check", "body"}
    BY <1>flushDelta DEF FlushDelta, Taken, Advances, Failed, ontology
  <2>2. QED  BY <1>flushDelta, <2>1, <1>later
<1>flushCreate. CASE /\ FlushCreate(t) /\ Stays(t)
                     /\ \/ /\ ~cancelled /\ sessions' = NewSession(Compiled(frame[t].proposed))
                           /\ observers' = Attached(Len(sessions')) /\ Taken(t, "commit", Len(sessions'))
                        \/ Failed(t, 0) /\ UNCHANGED <<observers, sessions>>
  <2>1. UNCHANGED <<precomputed, runtime>> /\ frame'[t].pc \notin {"begin", "reset", "check", "body"}
    BY <1>flushCreate DEF FlushCreate, Taken, Failed, ontology
  <2>2. QED  BY <1>flushCreate, <2>1, <1>later
<1>disposeClose. CASE DisposeClose(t) /\ Stays(t) /\ Closes(t)
  <2>1. UNCHANGED <<precomputed, runtime>> /\ frame'[t].pc \notin {"begin", "reset", "check", "body"}
    BY <1>disposeClose DEF DisposeClose, Closes, ontology
  <2>2. QED  BY <1>disposeClose, <2>1, <1>later
<1>disposeMark. CASE DisposeMark(t) /\ Stays(t) /\ Advances(t, "finish")
  <2>1. UNCHANGED <<precomputed, runtime>> /\ frame'[t].pc \notin {"begin", "reset", "check", "body"}
    BY <1>disposeMark DEF DisposeMark, Advances, ontology
  <2>2. QED  BY <1>disposeMark, <2>1, <1>later
<1>finalCheck. CASE FinalCheck(t) /\ Stays(t) /\ Checked(t, "final")
  <2>1. UNCHANGED <<precomputed, runtime>> /\ frame'[t].pc \notin {"begin", "reset", "check", "body"}
    BY <1>finalCheck DEF FinalCheck, Checked, ontology
  <2>2. QED  BY <1>finalCheck, <2>1, <1>later
\* A step before the body, where nothing is completed yet.
<1>early. ASSUME Others(t), UNCHANGED <<precomputed, runtime>>, frame'[t].completed = frame[t].completed,
                 frame[t].pc \in {"entered", "acquired", "begin", "reset", "check"}
          PROVE  Ready'
  <2>1. Same(t) /\ frame'[t].completed = {}  BY <1>early, OthersSame DEF Ready, ReadyBy
  <2>2. QED  BY <1>early, <2>1, <1>quiet
<1>acquire. CASE Acquire(t) /\ Advances(t, "acquired")
  BY <1>acquire, <1>early DEF Acquire, Advances, Working, At, ontology
<1>activate. CASE Activate(t) /\ Activates(t)
  BY <1>activate, <1>early DEF Activate, Activates, Working, At, ontology
<1>beginClear. CASE BeginClear(t) /\ Stays(t) /\ Clears(t)
  BY <1>beginClear, <1>early DEF BeginClear, Clears, At, ontology
<1>beginReset. CASE BeginReset(t) /\ Stays(t) /\ Advances(t, "check")
  BY <1>beginReset, <1>early DEF BeginReset, Advances, Working, At, ontology
<1>firstCheck. CASE FirstCheck(t) /\ Stays(t) /\ Checked(t, "check")
  BY <1>firstCheck, <1>early DEF FirstCheck, Checked, Working, At, ontology
<1>finish. CASE Finish(t) /\ Advances(t, "release")
  <2>1. Same(t) /\ UNCHANGED <<precomputed, runtime>> /\ frame'[t].pc = "release"
    BY <1>finish, OthersSame DEF Finish, Advances, ontology
  <2>2. QED  BY <2>1, <1>quiet
<1>release. CASE Release(t) /\ Others(t) /\ frame'[t] = Idle
  BY <1>release, <1>quiet, OthersSame, IdleIs DEF Release, ontology
<1>enter. CASE Enters(t) /\ \E op \in config.operations : Enter(t, op)
  <2>1. UNCHANGED <<precomputed, runtime>>  BY <1>enter DEF Enter, ontology
  <2>2. QED  BY <1>enter, <2>1, <1>quiet, OthersSame DEF Enters
<1>interruptEnter. CASE InterruptEnter(t) /\ Aims(t)
  <2>1. UNCHANGED <<precomputed, runtime>> /\ frame[t].completed = {}
    BY <1>interruptEnter DEF InterruptEnter, At, ontology, Ready, ReadyBy
  <2>2. Same(t) /\ frame'[t].completed = {}  BY <1>interruptEnter, <2>1, OthersSame DEF Aims, Same
  <2>3. QED  BY <2>1, <2>2, <1>quiet
<1>interruptSet. CASE InterruptSet(t) /\ (Returns(t) \/ Sets(t))
  <2>1. UNCHANGED <<precomputed, runtime>>  BY <1>interruptSet DEF InterruptSet, ontology
  <2>2. Same(t) /\ (frame'[t].pc = "signal" \/ frame'[t].completed = {})
    BY <1>interruptSet, OthersSame, IdleIs DEF Sets, Returns
  <2>3. QED  BY <2>1, <2>2, <1>quiet
<1>interruptSignal. CASE InterruptSignal(t) /\ Returns(t)
  <2>1. UNCHANGED <<precomputed, runtime>>  BY <1>interruptSignal DEF InterruptSignal, ontology
  <2>2. QED  BY <1>interruptSignal, <2>1, <1>quiet, OthersSame, IdleIs DEF Returns
<1> QED
  BY <1>acquire, <1>activate, <1>beginClear, <1>beginReset, <1>firstCheck, <1>finalCheck, <1>finish,
     <1>release, <1>query, <1>openTemporary, <1>checkTemporary, <1>callbackRaises, <1>addAxioms,
     <1>removeAxioms, <1>flush, <1>flushCompile, <1>flushDelta, <1>flushCreate, <1>flushCommit,
     <1>precomputeType, <1>precomputeDone, <1>disposeClose, <1>disposeMark, <1>enter, <1>interruptEnter,
     <1>interruptSet, <1>interruptSignal, ZenonT(60) DEF Acts

\* At the start nothing is computed.
LEMMA ReadyInit == Init => Ready
<1> SUFFICES ASSUME Init PROVE Ready  OBVIOUS
<1>1. precomputed \subseteq runtime.computed  BY DEF Init
<1>2. ASSUME NEW t \in Threads PROVE ReadyBy(t)
  <2>1. frame[t].pc = "idle" /\ frame[t].completed = {}  BY InitIdle, IdleIs
  <2>2. QED  BY <2>1 DEF ReadyBy
<1>3. QED  BY <1>1, <1>2 DEF Ready

-----------------------------------------------------------------------------
\* What is marked: an operation past its clear that sees the token or an observer set is
\* one that interrupt() aimed at, and only such an operation ends as interrupted.
LEMMA MarkedStep ==
    ASSUME Typed, Typed', Locks, Owed, Marked, NEW t \in Threads, Acts(t)
    PROVE  Marked'
<1>quiet. ASSUME Others(t), UNCHANGED token, MarkedBy(t)'
          PROVE  Marked'
  <2> USE <1>quiet
  <2>1. \A u \in Threads \ {t} : MarkedBy(u)'  BY SMT DEF Marked, MarkedBy, Others, token
  <2>2. QED  BY <2>1 DEF Marked
<1>active. ASSUME Stays(t), MarkedBy(t)'
           PROVE  Marked'
  <2> USE <1>active
  <2>1. \A u \in Threads \ {t} : frame[u].pc \notin Begun /\ frame'[u] = frame[u]
    BY OnlyOneInside, HeldInside DEF Stays, Others
  <2>2. "reset" \in Begun  BY DEF Begun
  <2>3. \A u \in Threads \ {t} : MarkedBy(u)'  BY <2>1, <2>2, SMT DEF Marked, MarkedBy
  <2>4. QED  BY <2>3 DEF Marked
\* An operation that failed as interrupted saw its own interrupt.
<1>failed. ASSUME NEW s, frame[t].pc \in Begun \ {"reset"}, Failed(t, s)
           PROVE  MarkedBy(t)'
  <2> USE <1>failed
  <2>1. /\ frame'[t].pc = "finish" /\ frame'[t].outcome \in {"interrupted", "error"}
        /\ frame'[t].targeted = frame[t].targeted /\ frame'[t].raised = frame[t].raised
        /\ frame'[t].outcome = "interrupted" => frame[t].targeted
    BY DEF Failed, Kept, Interrupted, Marked, MarkedBy
  <2>2. QED  BY <2>1 DEF MarkedBy, Begun
\* An operation on its way stays marked while no observer is newly set.
<1>goesOn. ASSUME frame[t].pc \in Begun \ {"reset"}, frame'[t].pc \in Begun \ {"reset"}, Kept(t),
                  frame'[t].outcome = frame[t].outcome, UNCHANGED cancelled,
                  \A s \in DOMAIN observers' : observers'[s] => s \in DOMAIN observers /\ observers[s]
           PROVE  MarkedBy(t)'
  <2> USE <1>goesOn
  <2>1. frame'[t].targeted = frame[t].targeted /\ frame'[t].raised = frame[t].raised  BY DEF Kept
  <2>2. QED  BY <2>1 DEF Marked, MarkedBy
\* A step of the body that goes on, or fails, and does not touch the token.
<1>goes. ASSUME frame[t].pc \in Begun \ {"reset"}, Stays(t), UNCHANGED cancelled,
                \A s \in DOMAIN observers' : observers'[s] => s \in DOMAIN observers /\ observers[s],
                \/ frame'[t].pc \in Begun \ {"reset"} /\ frame'[t].outcome = frame[t].outcome
                \/ \E s : Failed(t, s)
         PROVE  Marked'
  <2> USE <1>goes
  <2>1. CASE frame'[t].pc \in Begun \ {"reset"} /\ frame'[t].outcome = frame[t].outcome
    BY <2>1, <1>goesOn, <1>active DEF Stays
  <2>2. CASE \E s : Failed(t, s)
    BY <2>2, <1>failed, <1>active
  <2>3. QED  BY <2>1, <2>2
<1>checks. ASSUME NEW at \in {"check", "final"}, frame[t].pc = at, Stays(t), Checked(t, at), UNCHANGED token
           PROVE  Marked'
  <2> USE <1>checks
  <2>1. {"check", "final", "body"} \subseteq Begun \ {"reset"} /\ "finish" \notin Begun
    BY DEF Begun
  <2>2. /\ frame'[t].raised = frame[t].raised /\ frame'[t].targeted = frame[t].targeted
        /\ cancelled' = cancelled /\ observers' = observers
    BY DEF Checked, Kept, token
  <2>3. frame[t].outcome = "none"  BY DEF Owed, OwedBy
  <2>4. MarkedBy(t)'
    <3>1. CASE /\ frame'[t].pc = "finish" /\ frame'[t].outcome \in {"interrupted", "error"}
               /\ frame'[t].outcome = "interrupted" => cancelled
      BY <2>1, <2>2, <3>1 DEF Marked, MarkedBy
    <3>2. CASE frame'[t].pc = "body" /\ frame'[t].outcome = frame[t].outcome
      BY <2>1, <2>2, <2>3, <3>2 DEF Marked, MarkedBy
    <3>3. CASE ~cancelled /\ frame'[t].pc = "finish" /\ frame'[t].outcome = "ok"
      BY <2>1, <2>2, <3>3 DEF Marked, MarkedBy
    <3>4. QED  BY <3>1, <3>2, <3>3 DEF Checked
  <2>5. QED  BY <2>4, <1>active
\* A handle attached to a token that is not set is not set.
<1>attached. ASSUME ~cancelled, NEW s, observers' = Attached(s)
             PROVE  \A o \in DOMAIN observers' : observers'[o] => o \in DOMAIN observers /\ observers[o]
  <2> USE <1>attached
  <2>1. CASE config.backend = "python"  BY <2>1 DEF Attached
  <2>2. CASE config.backend # "python"
    <3>1. observers' = [o \in DOMAIN observers \cup {s} |-> IF o = s THEN cancelled ELSE observers[o]]
      BY <2>2 DEF Attached
    <3>2. QED  BY <3>1
  <2>3. QED  BY <2>1, <2>2
<1>detached. ASSUME NEW s, observers' = Detached(s)
             PROVE  \A o \in DOMAIN observers' : observers'[o] => o \in DOMAIN observers /\ observers[o]
  BY <1>detached DEF Detached
\* Once an operation has passed its last check the token no longer concerns it.
<1>leaves. ASSUME Others(t), Kept(t), UNCHANGED cancelled,
                  frame[t].pc \in {"close", "mark", "finish", "acquired"},
                  frame'[t].pc \in {"mark", "finish", "release", "begin", "close"},
                  frame'[t].pc \in {"mark", "begin", "close"} => frame[t].pc # "finish",
                  \/ frame'[t].outcome = frame[t].outcome
                  \/ frame[t].pc # "finish" /\ frame'[t].outcome \in {"ok", "error", "disposed"}
           PROVE  MarkedBy(t)'
  <2> USE <1>leaves
  <2>1. frame'[t].raised = frame[t].raised /\ frame'[t].targeted = frame[t].targeted  BY DEF Kept
  <2>2. frame[t].pc # "finish" => ~frame[t].raised  BY DEF Marked, MarkedBy, Begun
  <2>3. frame'[t].pc \notin Begun  BY DEF Begun
  <2>4. QED  BY <2>1, <2>2, <2>3, SMT DEF Marked, MarkedBy, Begun
\* A thread outside the operation is not marked.
<1>outside. ASSUME frame'[t].pc \in {"idle", "entered", "acquired", "set", "signal"},
                   frame'[t].outcome = "none", ~frame'[t].raised
            PROVE  MarkedBy(t)'
  BY <1>outside DEF MarkedBy, Begun
\* A returning interrupt() may have set the observers of the operation it aimed at.
<1>returns. ASSUME frame[t].pc \in {"set", "signal"}, Returns(t), DOMAIN observers' = DOMAIN observers
            PROVE  Marked'
  <2> USE <1>returns
  <2>1. /\ stateLock = t /\ activeThread \in Threads \ {t} /\ frame[activeThread].targeted
        /\ \A u \in Threads : frame[u].pc \in Begun => u = activeThread
    BY HeldInside, ZenonT(60) DEF Locks, Inside
  <2>2. MarkedBy(t)'
    <3>1. frame'[t] = Idle  BY DEF Returns
    <3>2. frame'[t].pc = "idle" /\ frame'[t].outcome = "none" /\ ~frame'[t].raised  BY <3>1, IdleIs
    <3>3. QED  BY <3>2, <1>outside
  <2>3. \A u \in Threads \ {t} :
           /\ frame'[u].pc = frame[u].pc /\ frame'[u].seen = frame[u].seen
           /\ frame'[u].outcome = frame[u].outcome
           /\ frame'[u].targeted = frame[u].targeted /\ frame'[u].raised = frame[u].raised
    BY DEF Returns, Undisturbed
  <2>4. UNCHANGED cancelled  BY DEF Returns
  <2>5. ASSUME NEW u \in Threads \ {t} PROVE MarkedBy(u)'
    <3>1. MarkedBy(u) /\ (frame[u].pc \in Begun => frame[u].targeted)  BY <2>1 DEF Marked
    <3>2. /\ frame'[u].pc = frame[u].pc /\ frame'[u].seen = frame[u].seen
          /\ frame'[u].outcome = frame[u].outcome
          /\ frame'[u].targeted = frame[u].targeted /\ frame'[u].raised = frame[u].raised
      BY <2>3
    <3>3. QED  BY <2>4, <3>1, <3>2 DEF MarkedBy
  <2>6. QED  BY <2>2, <2>5 DEF Marked
<1>sets. ASSUME frame[t].pc = "set", Sets(t), UNCHANGED observers
         PROVE  Marked'
  <2> USE <1>sets
  <2>0. /\ activeThread \in Threads \ {t} /\ frame[activeThread].targeted
        /\ \A u \in Threads : frame[u].pc \in Begun => u = activeThread
    BY HeldInside DEF Locks, Inside
  <2>1. PICK a \in Threads \ {t} :
            /\ a = activeThread /\ frame[a].targeted
            /\ \A u \in Threads : frame[u].pc \in Begun => u = a
    BY <2>0
  <2>2. MarkedBy(t)'
    <3>1. frame'[t].pc = "signal" /\ frame'[t].outcome = "none" /\ ~frame'[t].raised
      BY DEF Sets, Owed, OwedBy, Marked, MarkedBy, Begun
    <3>2. QED  BY <3>1, <1>outside
  <2>3. MarkedBy(a)'
    <3>1. /\ frame'[a].pc = frame[a].pc /\ frame'[a].seen = frame[a].seen
          /\ frame'[a].outcome = frame[a].outcome
          /\ frame'[a].targeted /\ frame'[a].raised = (frame[a].pc \in Begun) /\ cancelled'
      BY <2>1 DEF Sets, Undisturbed
    <3>2. frame[a].pc \in Begun => frame[a].outcome = "none"  BY <2>1 DEF Owed, OwedBy, Begun
    <3>3. QED  BY <2>1, <3>1, <3>2, ZenonT(60) DEF Marked, MarkedBy
  <2>4. \A u \in Threads \ {t, a} : MarkedBy(u)'
    <3>1. \A u \in Threads \ {t, a} : frame'[u] = frame[u] /\ frame[u].pc \notin Begun
      BY <2>1 DEF Sets, Undisturbed
    <3>2. "reset" \in Begun  BY DEF Begun
    <3>3. QED  BY <3>1, <3>2, SMT DEF Marked, MarkedBy
  <2>5. QED  BY <2>1, <2>2, <2>3, <2>4 DEF Marked
\* A step of the body that leaves the token and its observers alone.
<1>body. ASSUME Stays(t), UNCHANGED token, frame[t].pc \in {"body", "flush", "delta"},
                \/ frame'[t].pc \in {"body", "flush", "delta", "create", "commit", "final"}
                      /\ frame'[t].outcome = frame[t].outcome
                \/ \E s : Failed(t, s)
         PROVE  Marked'
  <2>1. {"body", "flush", "delta", "create", "commit", "final"} \subseteq Begun \ {"reset"}
    BY DEF Begun
  <2>2. UNCHANGED cancelled /\ \A s \in DOMAIN observers' : observers'[s] => s \in DOMAIN observers
                                  /\ observers[s]
    BY <1>body DEF token
  <2>3. QED  BY <1>body, <2>1, <2>2, <1>goes
<1>beginClear. CASE BeginClear(t) /\ Stays(t) /\ Clears(t)
  <2> USE <1>beginClear
  <2>1. /\ frame[t].pc = "begin" /\ frame[t].outcome = "none" /\ ~frame[t].raised
        /\ cancelled' = FALSE /\ UNCHANGED observers
    BY DEF BeginClear, At, Owed, OwedBy, Marked, MarkedBy, Begun
  <2>2. /\ frame'[t].pc = "reset" /\ frame'[t].seen = DOMAIN observers /\ frame'[t].outcome = "none"
        /\ frame'[t].raised = frame[t].raised
    BY <2>1 DEF Clears, Kept
  <2>3. MarkedBy(t)'  BY <2>1, <2>2 DEF MarkedBy
  <2>4. QED  BY <2>3, <1>active
\* Every observer a new operation can see has been reset.
<1>beginReset. CASE BeginReset(t) /\ Stays(t) /\ Advances(t, "check")
  <2> USE <1>beginReset
  <2>1. /\ frame[t].pc = "reset" /\ DOMAIN observers \subseteq frame[t].seen
        /\ UNCHANGED cancelled
    BY DEF BeginReset, At, Marked, MarkedBy
  <2>2. DOMAIN observers' = DOMAIN observers /\ \A s \in DOMAIN observers' : ~observers'[s]
    BY <2>1 DEF BeginReset
  <2>3. /\ frame'[t].pc = "check" /\ frame'[t].outcome = frame[t].outcome
        /\ frame'[t].raised = frame[t].raised /\ frame'[t].targeted = frame[t].targeted
    BY DEF Advances, Kept
  <2>4. {"reset", "check"} \subseteq Begun  BY DEF Begun
  <2>5. MarkedBy(t)'  BY <2>1, <2>2, <2>3, <2>4 DEF Marked, MarkedBy
  <2>6. QED  BY <2>5, <1>active
<1>callbackRaises. CASE CallbackRaises(t) /\ Stays(t) /\ frame'[t].pc = "finish" /\ frame'[t].outcome = "error"
  <2> USE <1>callbackRaises
  <2>1. MarkedBy(t)'  BY DEF MarkedBy, Begun
  <2>2. QED  BY <2>1, <1>active
\* interrupt() marks the operation it is meant for before it sets anything.
<1>interruptEnter. CASE InterruptEnter(t) /\ Aims(t)
  <2> USE <1>interruptEnter
  <2>1. UNCHANGED token /\ frame[t].pc = "idle"  BY DEF InterruptEnter, At
  <2>2. CASE UNCHANGED frame  BY <2>1, <2>2 DEF Marked, MarkedBy, token
  <2>3. CASE Undisturbed(t) /\ activeThread \in Threads \ {t} /\ frame'[t].pc = "set"
             /\ frame'[t].outcome = frame[t].outcome /\ frame'[t].raised = frame[t].raised
             /\ frame'[activeThread].raised = frame[activeThread].raised
    <3>1. MarkedBy(t)'
      BY <2>1, <2>3, <1>outside DEF Owed, OwedBy, Marked, MarkedBy, Begun
    <3>2. \A u \in Threads \ {t} : frame'[u].raised = frame[u].raised  BY <2>3 DEF Undisturbed
    <3>3. ASSUME NEW u \in Threads \ {t} PROVE MarkedBy(u)'
      <4>1. /\ MarkedBy(u) /\ frame'[u].raised = frame[u].raised /\ UNCHANGED <<cancelled, observers>>
        BY <2>1, <3>2 DEF Marked, token
      <4>2. /\ frame'[u].pc = frame[u].pc /\ frame'[u].seen = frame[u].seen
            /\ frame'[u].outcome = frame[u].outcome /\ (frame[u].targeted => frame'[u].targeted)
        BY <2>3 DEF Undisturbed
      <4>3. QED  BY <4>1, <4>2 DEF MarkedBy
    <3>4. QED  BY <3>1, <3>3 DEF Marked
  <2>4. QED  BY <2>2, <2>3 DEF Aims
<1>firstCheck. CASE FirstCheck(t) /\ Stays(t) /\ Checked(t, "check")
  <2>1. frame[t].pc = "check" /\ UNCHANGED token  BY <1>firstCheck DEF FirstCheck, At
  <2>2. QED  BY <1>firstCheck, <2>1, <1>checks
<1>finalCheck. CASE FinalCheck(t) /\ Stays(t) /\ Checked(t, "final")
  <2>1. frame[t].pc = "final" /\ UNCHANGED token  BY <1>finalCheck DEF FinalCheck, At
  <2>2. QED  BY <1>finalCheck, <2>1, <1>checks
<1>query. CASE Query(t) /\ Stays(t) /\ (Advances(t, "final") \/ Failed(t, runtime.session))
  <2>1. frame[t].pc = "body" /\ UNCHANGED token  BY <1>query DEF Query, At
  <2>2. \/ frame'[t].pc = "final" /\ frame'[t].outcome = frame[t].outcome
        \/ \E s : Failed(t, s)
    BY <1>query DEF Advances
  <2>3. QED  BY <1>query, <2>1, <2>2, <1>body
<1>addAxioms. CASE AddAxioms(t) /\ Stays(t) /\ Advances(t, IF config.buffered THEN "final" ELSE "flush")
  <2>1. frame[t].pc = "body" /\ UNCHANGED token  BY <1>addAxioms DEF AddAxioms, At
  <2>2. frame'[t].pc \in {"final", "flush"} /\ frame'[t].outcome = frame[t].outcome
    BY <1>addAxioms DEF Advances
  <2>3. QED  BY <1>addAxioms, <2>1, <2>2, <1>body
<1>removeAxioms. CASE RemoveAxioms(t) /\ Stays(t) /\ Advances(t, IF config.buffered THEN "final" ELSE "flush")
  <2>1. frame[t].pc = "body" /\ UNCHANGED token  BY <1>removeAxioms DEF RemoveAxioms, At
  <2>2. frame'[t].pc \in {"final", "flush"} /\ frame'[t].outcome = frame[t].outcome
    BY <1>removeAxioms DEF Advances
  <2>3. QED  BY <1>removeAxioms, <2>1, <2>2, <1>body
<1>flush. CASE Flush(t) /\ Stays(t) /\ Advances(t, "flush")
  <2>1. frame[t].pc = "body" /\ UNCHANGED token  BY <1>flush DEF Flush, At
  <2>2. frame'[t].pc = "flush" /\ frame'[t].outcome = frame[t].outcome  BY <1>flush DEF Advances
  <2>3. QED  BY <1>flush, <2>1, <2>2, <1>body
<1>flushCompile. CASE /\ FlushCompile(t) /\ Stays(t)
                      /\ \/ additions = {} /\ removals = {} /\ Advances(t, "final")
                         \/ Proposed(t)
                         \/ Failed(t, 0)
  <2>1. frame[t].pc = "flush" /\ UNCHANGED token  BY <1>flushCompile DEF FlushCompile, At
  <2>2. \/ frame'[t].pc \in {"final", "delta", "create"} /\ frame'[t].outcome = frame[t].outcome
        \/ \E s : Failed(t, s)
    BY <1>flushCompile DEF Advances, Proposed
  <2>3. QED  BY <1>flushCompile, <2>1, <2>2, <1>body
<1>flushDelta. CASE /\ FlushDelta(t) /\ Stays(t)
                    /\ \/ /\ Compiled(frame[t].proposed) = sessions[runtime.session].program
                          /\ Taken(t, "commit", runtime.session)
                       \/ Advances(t, "create")
                       \/ Failed(t, runtime.session)
  <2>1. frame[t].pc = "delta" /\ UNCHANGED token  BY <1>flushDelta DEF FlushDelta, At
  <2>2. \/ frame'[t].pc \in {"commit", "create"} /\ frame'[t].outcome = frame[t].outcome
        \/ \E s : Failed(t, s)
    BY <1>flushDelta DEF Advances, Taken
  <2>3. QED  BY <1>flushDelta, <2>1, <2>2, <1>body
<1>precomputeType. CASE PrecomputeType(t) /\ Stays(t)
                          /\ (Completes(t) \/ (Failed(t, runtime.session) /\ UNCHANGED runtime))
  <2>1. frame[t].pc = "body" /\ UNCHANGED token  BY <1>precomputeType DEF PrecomputeType, At
  <2>2. \/ frame'[t].pc = "body" /\ frame'[t].outcome = frame[t].outcome
        \/ \E s : Failed(t, s)
    BY <1>precomputeType DEF Completes
  <2>3. QED  BY <1>precomputeType, <2>1, <2>2, <1>body
<1>precomputeDone. CASE PrecomputeDone(t) /\ Stays(t) /\ Advances(t, "final")
  <2>1. frame[t].pc = "body" /\ UNCHANGED token  BY <1>precomputeDone DEF PrecomputeDone, At
  <2>2. frame'[t].pc = "final" /\ frame'[t].outcome = frame[t].outcome
    BY <1>precomputeDone DEF Advances
  <2>3. QED  BY <1>precomputeDone, <2>1, <2>2, <1>body
<1>openTemporary. CASE /\ OpenTemporary(t) /\ Stays(t)
                       /\ \/ /\ ~cancelled /\ sessions' = NewSession(Compiled(view))
                             /\ observers' = Attached(Len(sessions'))
                             /\ Taken(t, "temporary", Len(sessions'))
                          \/ Failed(t, 0) /\ UNCHANGED <<observers, sessions>>
  <2>1. frame[t].pc = "body" /\ UNCHANGED cancelled  BY <1>openTemporary DEF OpenTemporary, At
  <2>2. \/ frame'[t].pc = "temporary" /\ frame'[t].outcome = frame[t].outcome
        \/ \E s : Failed(t, s)
    BY <1>openTemporary DEF Taken
  <2>3. \A s \in DOMAIN observers' : observers'[s] => s \in DOMAIN observers /\ observers[s]
    BY <1>openTemporary, <1>attached
  <2>4. {"body", "temporary"} \subseteq Begun \ {"reset"}  BY DEF Begun
  <2>5. QED  BY <1>openTemporary, <2>1, <2>2, <2>3, <2>4, <1>goes, SMTT(30)
<1>flushCreate. CASE /\ FlushCreate(t) /\ Stays(t)
                     /\ \/ /\ ~cancelled /\ sessions' = NewSession(Compiled(frame[t].proposed))
                           /\ observers' = Attached(Len(sessions')) /\ Taken(t, "commit", Len(sessions'))
                        \/ Failed(t, 0) /\ UNCHANGED <<observers, sessions>>
  <2>1. frame[t].pc = "create" /\ UNCHANGED cancelled  BY <1>flushCreate DEF FlushCreate, At
  <2>2. \/ frame'[t].pc = "commit" /\ frame'[t].outcome = frame[t].outcome
        \/ \E s : Failed(t, s)
    BY <1>flushCreate DEF Taken
  <2>3. \A s \in DOMAIN observers' : observers'[s] => s \in DOMAIN observers /\ observers[s]
    BY <1>flushCreate, <1>attached
  <2>4. {"create", "commit"} \subseteq Begun \ {"reset"}  BY DEF Begun
  <2>5. QED  BY <1>flushCreate, <2>1, <2>2, <2>3, <2>4, <1>goes
<1>checkTemporary. CASE CheckTemporary(t) /\ Stays(t) /\ (Advances(t, "final") \/ Failed(t, frame[t].session))
  <2>1. frame[t].pc = "temporary" /\ UNCHANGED cancelled
    BY <1>checkTemporary DEF CheckTemporary, At
  <2>2. \/ frame'[t].pc = "final" /\ frame'[t].outcome = frame[t].outcome
        \/ \E s : Failed(t, s)
    BY <1>checkTemporary DEF Advances
  <2>3. \A s \in DOMAIN observers' : observers'[s] => s \in DOMAIN observers /\ observers[s]
    <3>1. observers' \in {observers, Detached(frame[t].session), Detached(runtime.session)}
      BY <1>checkTemporary DEF CheckTemporary
    <3>2. QED  BY <3>1, <1>detached
  <2>4. {"temporary", "final"} \subseteq Begun \ {"reset"}  BY DEF Begun
  <2>5. QED  BY <1>checkTemporary, <2>1, <2>2, <2>3, <2>4, <1>goes
<1>flushCommit. CASE /\ FlushCommit(t) /\ Stays(t)
                     /\ \/ Advances(t, "final") /\ view' = frame[t].proposed
                        \/ /\ Failed(t, frame[t].session)
                           /\ UNCHANGED <<view, additions, removals, runtime, precomputed>>
  <2>1. frame[t].pc = "commit" /\ UNCHANGED cancelled  BY <1>flushCommit DEF FlushCommit, At
  <2>2. \/ frame'[t].pc = "final" /\ frame'[t].outcome = frame[t].outcome
        \/ \E s : Failed(t, s)
    BY <1>flushCommit DEF Advances
  <2>3. \A s \in DOMAIN observers' : observers'[s] => s \in DOMAIN observers /\ observers[s]
    <3>1. observers' \in {observers, Detached(frame[t].session), Detached(runtime.session)}
      BY <1>flushCommit DEF FlushCommit
    <3>2. QED  BY <3>1, <1>detached
  <2>4. {"commit", "final"} \subseteq Begun \ {"reset"}  BY DEF Begun
  <2>5. QED  BY <1>flushCommit, <2>1, <2>2, <2>3, <2>4, <1>goes
<1>disposeClose. CASE DisposeClose(t) /\ Stays(t) /\ Closes(t)
  <2>1. frame[t].pc = "close" /\ UNCHANGED cancelled  BY <1>disposeClose DEF DisposeClose, At
  <2>2. MarkedBy(t)'  BY <1>disposeClose, <2>1, <1>leaves DEF Closes
  <2>3. QED  BY <1>disposeClose, <2>2, <1>active
<1>disposeMark. CASE DisposeMark(t) /\ Stays(t) /\ Advances(t, "finish")
  <2>1. frame[t].pc = "mark" /\ UNCHANGED cancelled  BY <1>disposeMark DEF DisposeMark, At, token
  <2>2. MarkedBy(t)'  BY <1>disposeMark, <2>1, <1>leaves DEF Advances
  <2>3. QED  BY <1>disposeMark, <2>2, <1>active
<1>activate. CASE Activate(t) /\ Activates(t)
  <2>1. frame[t].pc = "acquired" /\ UNCHANGED token  BY <1>activate DEF Activate, At
  <2>2. MarkedBy(t)'  BY <1>activate, <2>1, <1>leaves DEF Activates, token
  <2>3. QED  BY <1>activate, <2>1, <2>2, <1>quiet DEF Activates
<1>finish. CASE Finish(t) /\ Advances(t, "release")
  <2>1. frame[t].pc = "finish" /\ UNCHANGED token  BY <1>finish DEF Finish, At
  <2>2. MarkedBy(t)'  BY <1>finish, <2>1, <1>leaves DEF Advances, token
  <2>3. QED  BY <1>finish, <2>1, <2>2, <1>quiet DEF Advances
<1>acquire. CASE Acquire(t) /\ Advances(t, "acquired")
  <2>1. frame[t].pc = "entered" /\ UNCHANGED token  BY <1>acquire DEF Acquire, At
  <2>2. frame[t].outcome = "none" /\ ~frame[t].raised
    BY <2>1 DEF Owed, OwedBy, Marked, MarkedBy, Begun
  <2>3. MarkedBy(t)'  BY <1>acquire, <2>2, <1>outside DEF Advances, Kept
  <2>4. QED  BY <1>acquire, <2>1, <2>3, <1>quiet DEF Advances
<1>release. CASE Release(t) /\ Others(t) /\ frame'[t] = Idle
  <2>1. UNCHANGED token  BY <1>release DEF Release
  <2>2. MarkedBy(t)'  BY <1>release, <1>outside, IdleIs
  <2>3. QED  BY <1>release, <2>1, <2>2, <1>quiet
<1>enter. CASE Enters(t) /\ \E op \in config.operations : Enter(t, op)
  <2>1. UNCHANGED token  BY <1>enter DEF Enter
  <2>2. MarkedBy(t)'  BY <1>enter, <1>outside DEF Enters
  <2>3. QED  BY <1>enter, <2>1, <2>2, <1>quiet DEF Enters
<1>interruptSet. CASE InterruptSet(t) /\ (Returns(t) \/ Sets(t))
  <2>1. frame[t].pc = "set" /\ UNCHANGED observers  BY <1>interruptSet DEF InterruptSet, At
  <2>2. QED  BY <1>interruptSet, <2>1, <1>returns, <1>sets
<1>interruptSignal. CASE InterruptSignal(t) /\ Returns(t)
  <2>1. frame[t].pc = "signal" /\ DOMAIN observers' = DOMAIN observers
    BY <1>interruptSignal DEF InterruptSignal, At
  <2>2. QED  BY <1>interruptSignal, <2>1, <1>returns
<1> QED
  BY <1>acquire, <1>activate, <1>beginClear, <1>beginReset, <1>firstCheck, <1>finalCheck, <1>finish,
     <1>release, <1>query, <1>openTemporary, <1>checkTemporary, <1>callbackRaises, <1>addAxioms,
     <1>removeAxioms, <1>flush, <1>flushCompile, <1>flushDelta, <1>flushCreate, <1>flushCommit,
     <1>precomputeType, <1>precomputeDone, <1>disposeClose, <1>disposeMark, <1>enter, <1>interruptEnter,
     <1>interruptSet, <1>interruptSignal, ZenonT(60) DEF Acts

\* At the start nothing is set or aimed at.
LEMMA MarkedInit == Init => Marked
<1> SUFFICES ASSUME Init, NEW t \in Threads PROVE MarkedBy(t)  BY DEF Marked
<1>1. frame[t].pc = "idle" /\ frame[t].outcome = "none" /\ frame[t].raised = FALSE
  BY InitIdle, IdleIs
<1>2. QED  BY <1>1 DEF MarkedBy, Begun

-----------------------------------------------------------------------------
(***************************************************************************)
(* Opened: the session of the runtime and the one a call has just made are *)
(* open and observe the token at every step, and no other; once the        *)
(* reasoner is disposed none is.                                           *)
(***************************************************************************)

\* The session a call in progress has opened and not yet handed over or closed.
Borrows(t, s) == frame[t].pc \in {"temporary", "commit"} /\ frame[t].session = s

\* The native sessions that observe the token are the open ones.
OpenedObservers == config.backend # "python" => DOMAIN observers = OpenSessions

\* Which sessions are open, at every step.
Opened ==
    /\ \A t \in Threads : frame[t].pc \in Inside \ {"finish"} => ~disposed
    /\ \A t \in Threads : frame[t].pc = "temporary" => frame[t].session # runtime.session
    /\ \A s \in 1..Len(sessions) :
          sessions[s].open <=>
              /\ ~disposed /\ \A t \in Threads : frame[t].pc # "mark"
              /\ s = runtime.session \/ \E t \in Threads : Borrows(t, s)
    /\ OpenedObservers

\* The same, as the one call inside an operation sees it.
OpenedBy(t) ==
    /\ frame[t].pc \in Inside \ {"finish"} => ~disposed
    /\ frame[t].pc = "temporary" => frame[t].session # runtime.session
    /\ \A s \in 1..Len(sessions) :
          sessions[s].open <=>
              ~disposed /\ frame[t].pc # "mark" /\ (s = runtime.session \/ Borrows(t, s))
    /\ OpenedObservers

\* The call that holds the operation lock is the only one that can have opened a session.
LEMMA OpenedSeen ==
    ASSUME Typed, Locks, Opened, NEW t \in Threads, frame[t].pc \in HeldPCs
    PROVE  OpenedBy(t)
<1>1. \A u \in Threads \ {t} : frame[u].pc \notin {"temporary", "commit", "mark"}
  BY OnlyOneInside, HeldInside DEF Inside
<1>2. \A s \in 1..Len(sessions) : (\E u \in Threads : Borrows(u, s)) <=> Borrows(t, s)
  BY <1>1 DEF Borrows
<1>3. (\A u \in Threads : frame[u].pc # "mark") <=> frame[t].pc # "mark"  BY <1>1
<1>4. QED  BY <1>2, <1>3 DEF Opened, OpenedBy

\* The open sessions stay the runtime's and the borrowed one.
LEMMA OpenedStep ==
    ASSUME Typed, Typed', Locks, Opened, NEW t \in Threads, Acts(t)
    PROVE  Opened'
<1>active. ASSUME Stays(t), OpenedBy(t)'
           PROVE  Opened'
  <2> USE <1>active
  <2>1. \A u \in Threads \ {t} : frame[u].pc \notin Inside /\ frame'[u] = frame[u]
    BY OnlyOneInside, HeldInside DEF Stays, Others
  <2>2. {"temporary", "commit", "mark"} \subseteq Inside  BY DEF Inside
  <2>3. \A s \in 1..Len(sessions') : (\E u \in Threads : Borrows(u, s)') <=> Borrows(t, s)'
    BY <2>1, <2>2 DEF Borrows
  <2>4. (\A u \in Threads : frame'[u].pc # "mark") <=> frame'[t].pc # "mark"  BY <2>1, <2>2
  <2>5. QED  BY <2>1, <2>2, <2>3, <2>4, SMTT(30) DEF Opened, OpenedBy
\* A step that opens and closes nothing.
<1>quiet. ASSUME Same(t), UNCHANGED <<disposed, sessions, config>>, DOMAIN observers' = DOMAIN observers,
                 runtime'.session = runtime.session, frame[t].pc \notin {"temporary", "commit", "mark"},
                 frame'[t].pc \notin {"temporary", "commit", "mark"},
                 frame'[t].pc \in Inside \ {"finish"} => ~disposed
          PROVE  Opened'
  <2> USE <1>quiet
  <2>1. \A u \in Threads \ {t} : frame'[u].pc = frame[u].pc /\ frame'[u].session = frame[u].session
    BY DEF Same
  <2>2. \A u \in Threads, s \in 1..Len(sessions) : Borrows(u, s)' <=> Borrows(u, s)
    BY <2>1 DEF Borrows
  <2>3. \A u \in Threads : frame'[u].pc = "mark" <=> frame[u].pc = "mark"  BY <2>1
  <2>4. OpenedObservers'  BY DEF Opened, OpenedObservers, OpenSessions
  <2>5. \A u \in Threads : frame'[u].pc \in Inside \ {"finish"} => ~disposed'  BY <2>1 DEF Opened
  <2>6. \A u \in Threads : frame'[u].pc = "temporary" => frame'[u].session # runtime'.session
    BY <2>1, SMT DEF Opened
  <2>7. \A s \in 1..Len(sessions') :
           sessions'[s].open <=>
                /\ ~disposed' /\ \A u \in Threads : frame'[u].pc # "mark"
                /\ s = runtime'.session \/ \E u \in Threads : Borrows(u, s)'
    BY <2>2, <2>3 DEF Opened
  <2>8. QED  BY <2>4, <2>5, <2>6, <2>7 DEF Opened
\* A step inside an operation that opens and closes nothing.
<1>inside. ASSUME Stays(t), UNCHANGED <<disposed, sessions>>, DOMAIN observers' = DOMAIN observers,
                  runtime'.session = runtime.session,
                  frame[t].pc \notin {"temporary", "commit", "mark", "finish"},
                  frame'[t].pc \notin {"temporary", "commit", "mark"}
           PROVE  Opened'
  <2> USE <1>inside
  <2>1. ~disposed  BY DEF Opened, Stays
  <2>2. Same(t) /\ UNCHANGED config  BY OthersSame DEF Stays
  <2>3. QED  BY <2>1, <2>2, <1>quiet
\* A new session observes the token from the start.
<1>observersOpen. ASSUME OpenedObservers, NEW p \in SUBSET Axioms, sessions' = NewSession(p),
                         observers' = Attached(Len(sessions')), UNCHANGED config
                  PROVE  OpenedObservers'
  <2> USE <1>observersOpen
  <2>1. /\ sessions \in Seq(Sessions) /\ sessions' \in Seq(Sessions) /\ Len(sessions') = Len(sessions) + 1
        /\ \A s \in 1..Len(sessions) : sessions'[s] = sessions[s]
        /\ sessions'[Len(sessions')].open = TRUE
    BY SessionOpens DEF Typed, TypedState
  <2>2. DOMAIN sessions = 1..Len(sessions) /\ DOMAIN sessions' = 1..Len(sessions') /\ Len(sessions) \in Nat
    BY <2>1, SMT
  <2>3. OpenSessions' = OpenSessions \cup {Len(sessions')}  BY <2>1, <2>2, SMT DEF OpenSessions
  <2>4. CASE config.backend # "python"
    <3>1. DOMAIN observers' = DOMAIN observers \cup {Len(sessions')}  BY <2>4 DEF Attached
    <3>2. QED  BY <2>3, <2>4, <3>1 DEF OpenedObservers
  <2>5. CASE config.backend = "python"  BY <2>5 DEF OpenedObservers
  <2>6. QED  BY <2>4, <2>5
\* A closed session observes it no longer.
<1>observersClose. ASSUME OpenedObservers, NEW s \in 1..Len(sessions), sessions' = Closed(s),
                          observers' = Detached(s), UNCHANGED config
                   PROVE  OpenedObservers'
  <2> USE <1>observersClose
  <2>1. /\ sessions \in Seq(Sessions) /\ sessions' \in Seq(Sessions) /\ Len(sessions') = Len(sessions)
        /\ \A r \in 1..Len(sessions) \ {s} : sessions'[r] = sessions[r]
        /\ ~sessions'[s].open
    BY SessionCloses DEF Typed, TypedState
  <2>2. DOMAIN sessions = 1..Len(sessions) /\ DOMAIN sessions' = 1..Len(sessions')
    BY <2>1, SMT
  <2>3. OpenSessions' = OpenSessions \ {s}  BY <2>1, <2>2 DEF OpenSessions
  <2>4. DOMAIN observers' = DOMAIN observers \ {s}  BY DEF Detached
  <2>5. QED  BY <2>3, <2>4 DEF OpenedObservers
\* A session made by the call is the only one besides the runtime's.
<1>taken. ASSUME Stays(t), NEW pc \in {"temporary", "commit"}, NEW p \in SUBSET Axioms,
                 frame[t].pc \in {"body", "create"}, sessions' = NewSession(p),
                 observers' = Attached(Len(sessions')), Taken(t, pc, Len(sessions')),
                 UNCHANGED <<disposed, runtime, config>>
          PROVE  Opened'
  <2> USE <1>taken
  <2>1. frame[t].pc \in HeldPCs /\ frame[t].pc \in Inside \ {"finish"}  BY DEF HeldPCs, Inside
  <2>2. OpenedBy(t)  BY <2>1, OpenedSeen
  <2>3. /\ sessions \in Seq(Sessions) /\ Len(sessions) \in Nat /\ Len(sessions') = Len(sessions) + 1
        /\ \A s \in 1..Len(sessions) : sessions'[s] = sessions[s]
        /\ sessions'[Len(sessions')].open = TRUE
    <3>1. sessions \in Seq(Sessions) /\ Len(sessions) \in Nat  BY LengthIsNat DEF Typed, TypedState
    <3>2. QED  BY <3>1, SessionOpens
  <2>4. OpenedObservers'  BY <2>2, <1>observersOpen DEF OpenedBy
  <2>5. frame'[t].pc = pc /\ frame'[t].session = Len(sessions')  BY DEF Taken
  <2>6. runtime.session \in 1..Len(sessions)  BY DEF Typed, TypedState
  <2>7. \A s \in 1..Len(sessions) : sessions[s].open <=> s = runtime.session
    BY <2>1, <2>2 DEF OpenedBy, Borrows
  <2>8. \A s \in 1..Len(sessions') :
           sessions'[s].open <=> s = runtime.session \/ s = Len(sessions')
    BY <2>3, <2>6, <2>7, SMTT(30)
  <2>9. ~disposed /\ ~disposed'  BY <2>1, <2>2 DEF OpenedBy
  <2>10. OpenedBy(t)'
    <3>1. frame'[t].session # runtime'.session  BY <2>3, <2>5, <2>6, SMTT(30)
    <3>2. \A s \in 1..Len(sessions') : Borrows(t, s)' <=> s = Len(sessions')  BY <2>5 DEF Borrows
    <3>3. QED  BY <2>4, <2>5, <2>8, <2>9, <3>1, <3>2, ZenonT(30) DEF OpenedBy
  <2>11. QED  BY <2>10, <1>active
\* The swap closes the old session, a failure closes the new one.
<1>flushCommit. CASE /\ FlushCommit(t) /\ Stays(t)
                     /\ \/ Advances(t, "final") /\ view' = frame[t].proposed
                        \/ /\ Failed(t, frame[t].session)
                           /\ UNCHANGED <<view, additions, removals, runtime, precomputed>>
  <2> USE <1>flushCommit
  <2> frame'[t].pc \in {"final", "finish"}  BY DEF Advances, Failed
  <2> DEFINE s == frame[t].session
  <2>1. /\ frame[t].pc = "commit" /\ frame[t].pc \in HeldPCs /\ frame[t].pc \in Inside \ {"finish"}
        /\ UNCHANGED <<disposed, config>>
    BY DEF FlushCommit, At, HeldPCs, Inside, locks
  <2>2. OpenedBy(t) /\ ~disposed  BY <2>1, OpenedSeen DEF Opened
  <2>3. s \in 1..Len(sessions) /\ runtime.session \in 1..Len(sessions) /\ sessions \in Seq(Sessions)
    BY <2>1 DEF Typed, TypedState, ArgumentsFit
  <2>4. \A r \in 1..Len(sessions) : sessions[r].open <=> r = runtime.session \/ r = s
    BY <2>1, <2>2 DEF OpenedBy, Borrows
  <2>5. \/ s = runtime.session /\ UNCHANGED <<sessions, observers>> /\ runtime'.session = s
        \/ s # runtime.session /\ sessions' = Closed(runtime.session)
              /\ observers' = Detached(runtime.session) /\ runtime'.session = s
        \/ s # runtime.session /\ sessions' = Closed(s)
              /\ observers' = Detached(s) /\ runtime'.session = runtime.session
    BY SMT DEF FlushCommit
  <2>6. ASSUME NEW c \in 1..Len(sessions), NEW k \in 1..Len(sessions), c # k, {c, k} = {s, runtime.session},
               sessions' = Closed(c), observers' = Detached(c), runtime'.session = k
        PROVE  OpenedBy(t)'
    <3>1. /\ Len(sessions') = Len(sessions) /\ ~sessions'[c].open
          /\ \A r \in 1..Len(sessions) \ {c} : sessions'[r] = sessions[r]
      BY <2>3, <2>6, SessionCloses
    <3>2. OpenedObservers'  BY <2>1, <2>2, <2>6, <1>observersClose DEF OpenedBy
    <3>3. \A r \in 1..Len(sessions) : sessions'[r].open <=> r = runtime'.session
      <4> TAKE r \in 1..Len(sessions)
      <4>1. CASE r = c  BY <2>6, <3>1, <4>1
      <4>2. CASE r # c
        <5>1. sessions'[r] = sessions[r]  BY <3>1, <4>2
        <5>2. sessions[r].open <=> r = k  BY <2>4, <2>6, <4>2
        <5>3. QED  BY <2>6, <5>1, <5>2
      <4>3. QED  BY <4>1, <4>2
    <3>4. QED  BY <2>1, <2>2, <3>1, <3>2, <3>3 DEF OpenedBy, Borrows
  <2>7. ASSUME s = runtime.session, UNCHANGED <<sessions, observers>>, runtime'.session = s
        PROVE  OpenedBy(t)'
    BY <2>1, <2>2, <2>4, <2>7 DEF OpenedBy, Borrows, OpenedObservers, OpenSessions
  <2>8. OpenedBy(t)'  BY <2>3, <2>5, <2>6, <2>7
  <2>9. QED  BY <2>8, <1>active
\* The delta is committed to the runtime's own session.
\* The delta is committed to the runtime's own session.
<1>flushDelta. CASE /\ FlushDelta(t) /\ Stays(t)
                    /\ \/ /\ Compiled(frame[t].proposed) = sessions[runtime.session].program
                          /\ Taken(t, "commit", runtime.session)
                       \/ Advances(t, "create")
                       \/ Failed(t, runtime.session)
  <2> USE <1>flushDelta
  <2>1. /\ frame[t].pc = "delta" /\ frame[t].pc \in HeldPCs /\ frame[t].pc \in Inside \ {"finish"}
        /\ UNCHANGED <<disposed, runtime, config, sessions, observers>>
    BY DEF FlushDelta, At, HeldPCs, Inside, locks, ontology, token
  <2>2. OpenedBy(t) /\ ~disposed  BY <2>1, OpenedSeen DEF Opened
  <2>3. OpenedObservers'  BY <2>1, <2>2 DEF OpenedBy, OpenedObservers, OpenSessions
  <2>4. CASE Taken(t, "commit", runtime.session)
    <3>1. frame'[t].pc = "commit" /\ frame'[t].session = runtime.session  BY <2>4 DEF Taken
    <3>2. OpenedBy(t)'  BY <2>1, <2>2, <2>3, <3>1 DEF OpenedBy, Borrows
    <3>3. QED  BY <3>2, <1>active
  <2>5. CASE Advances(t, "create") \/ Failed(t, runtime.session)
    <3>1. frame'[t].pc \in {"create", "finish"}  BY <2>5 DEF Advances, Failed
    <3>2. OpenedBy(t)'  BY <2>1, <2>2, <2>3, <3>1 DEF OpenedBy, Borrows
    <3>3. QED  BY <3>2, <1>active
  <2>6. QED  BY <2>4, <2>5
<1>checkTemporary. CASE CheckTemporary(t) /\ Stays(t) /\ (Advances(t, "final") \/ Failed(t, frame[t].session))
  <2> USE <1>checkTemporary
  <2> frame'[t].pc \in {"final", "finish"}  BY DEF Advances, Failed
  <2> DEFINE s == frame[t].session
  <2>1. /\ frame[t].pc = "temporary" /\ frame[t].pc \in HeldPCs /\ frame[t].pc \in Inside \ {"finish"}
        /\ sessions' = Closed(s) /\ observers' = Detached(s) /\ UNCHANGED <<disposed, runtime, config>>
    BY DEF CheckTemporary, At, HeldPCs, Inside, locks, ontology
  <2>2. OpenedBy(t)  BY <2>1, OpenedSeen
  <2>3. s \in 1..Len(sessions) /\ sessions \in Seq(Sessions)
    BY <2>1 DEF Typed, TypedState, ArgumentsFit
  <2>4. /\ Len(sessions') = Len(sessions) /\ ~sessions'[s].open
        /\ \A r \in 1..Len(sessions) \ {s} : sessions'[r] = sessions[r]
    BY <2>1, <2>3, SessionCloses
  <2>5. OpenedObservers'  BY <2>1, <2>2, <2>3, <1>observersClose DEF OpenedBy
  <2>6. s # runtime.session /\ ~disposed  BY <2>1, <2>2 DEF OpenedBy
  <2>7. \A r \in 1..Len(sessions) : sessions[r].open <=> r = runtime.session \/ r = s
    BY <2>1, <2>2, <2>6 DEF OpenedBy, Borrows
  <2>8. \A r \in 1..Len(sessions) : sessions'[r].open <=> r = runtime.session
    BY <2>4, <2>6, <2>7
  <2>9. OpenedBy(t)'  BY <2>1, <2>4, <2>5, <2>6, <2>8 DEF OpenedBy, Borrows
  <2>10. QED  BY <2>9, <1>active
<1>disposeClose. CASE DisposeClose(t) /\ Stays(t) /\ Closes(t)
  <2> USE <1>disposeClose
  <2>1. /\ frame[t].pc = "close" /\ frame[t].pc \in HeldPCs /\ frame[t].pc \in Inside \ {"finish"}
        /\ UNCHANGED <<disposed, runtime, config>>
    BY DEF DisposeClose, At, HeldPCs, Inside, locks, ontology
  <2>2. OpenedBy(t) /\ ~disposed  BY <2>1, OpenedSeen DEF Opened
  <2>3. runtime.session \in 1..Len(sessions) /\ sessions \in Seq(Sessions)  BY DEF Typed, TypedState
  <2>4. \A r \in 1..Len(sessions) : sessions[r].open <=> r = runtime.session
    BY <2>1, <2>2 DEF OpenedBy, Borrows
  <2>5. CASE /\ sessions' = Closed(runtime.session) /\ observers' = Detached(runtime.session)
             /\ frame'[t].pc = "mark"
    <3>1. /\ Len(sessions') = Len(sessions) /\ ~sessions'[runtime.session].open
          /\ \A r \in 1..Len(sessions) \ {runtime.session} : sessions'[r] = sessions[r]
      BY <2>3, <2>5, SessionCloses
    <3>2. OpenedObservers'  BY <2>1, <2>2, <2>3, <2>5, <1>observersClose DEF OpenedBy
    <3>3. \A r \in 1..Len(sessions) : ~sessions'[r].open  BY <2>4, <3>1
    <3>4. OpenedBy(t)'  BY <2>1, <2>2, <2>5, <3>1, <3>2, <3>3 DEF OpenedBy, Borrows
    <3>5. QED  BY <3>4, <1>active
  <2>6. CASE UNCHANGED <<sessions, observers>> /\ frame'[t].pc = "finish"
    <3>1. OpenedBy(t)'
      BY <2>1, <2>2, <2>4, <2>6 DEF OpenedBy, Borrows, OpenedObservers, OpenSessions
    <3>2. QED  BY <3>1, <1>active
  <2>7. QED  BY <2>5, <2>6 DEF Closes
<1>disposeMark. CASE DisposeMark(t) /\ Stays(t) /\ Advances(t, "finish")
  <2> USE <1>disposeMark
  <2>1. /\ frame[t].pc = "mark" /\ frame[t].pc \in HeldPCs /\ disposed' = TRUE
        /\ UNCHANGED <<sessions, observers, runtime, config>>
    BY DEF DisposeMark, At, HeldPCs, Inside, ontology, token
  <2>2. OpenedBy(t)  BY <2>1, OpenedSeen
  <2>3. \A r \in 1..Len(sessions) : ~sessions[r].open  BY <2>1, <2>2 DEF OpenedBy
  <2>4. OpenedObservers'  BY <2>1, <2>2 DEF OpenedBy, OpenedObservers, OpenSessions
  <2>5. frame'[t].pc = "finish"  BY DEF Advances
  <2>6. OpenedBy(t)'  BY <2>1, <2>3, <2>4, <2>5 DEF OpenedBy
  <2>7. QED  BY <2>6, <1>active
\* A step of the body that opens and closes nothing.
<1>body. ASSUME Stays(t), UNCHANGED <<disposed, observers, sessions>>, runtime'.session = runtime.session,
                frame[t].pc \in {"check", "body", "flush", "create", "final"},
                frame'[t].pc \in {"body", "flush", "delta", "create", "final", "finish"}
         PROVE  Opened'
  BY <1>body, <1>inside
<1>firstCheck. CASE FirstCheck(t) /\ Stays(t) /\ Checked(t, "check")
  <2>1. frame[t].pc = "check" /\ UNCHANGED <<disposed, observers, sessions, runtime>>
    BY <1>firstCheck DEF FirstCheck, At, locks, token, ontology
  <2>2. frame'[t].pc \in {"body", "flush", "delta", "create", "final", "finish"}
    BY <1>firstCheck DEF Checked
  <2>3. QED  BY <1>firstCheck, <2>1, <2>2, <1>body
<1>finalCheck. CASE FinalCheck(t) /\ Stays(t) /\ Checked(t, "final")
  <2>1. frame[t].pc = "final" /\ UNCHANGED <<disposed, observers, sessions, runtime>>
    BY <1>finalCheck DEF FinalCheck, At, locks, token, ontology
  <2>2. frame'[t].pc \in {"body", "flush", "delta", "create", "final", "finish"}
    BY <1>finalCheck DEF Checked
  <2>3. QED  BY <1>finalCheck, <2>1, <2>2, <1>body
<1>query. CASE Query(t) /\ Stays(t) /\ (Advances(t, "final") \/ Failed(t, runtime.session))
  <2>1. frame[t].pc = "body" /\ UNCHANGED <<disposed, observers, sessions, runtime>>
    BY <1>query DEF Query, At, locks, token, ontology
  <2>2. frame'[t].pc \in {"body", "flush", "delta", "create", "final", "finish"}
    BY <1>query DEF Advances, Failed
  <2>3. QED  BY <1>query, <2>1, <2>2, <1>body
<1>addAxioms. CASE AddAxioms(t) /\ Stays(t) /\ Advances(t, IF config.buffered THEN "final" ELSE "flush")
  <2>1. frame[t].pc = "body" /\ UNCHANGED <<disposed, observers, sessions, runtime>>
    BY <1>addAxioms DEF AddAxioms, At, locks, token, ontology
  <2>2. frame'[t].pc \in {"body", "flush", "delta", "create", "final", "finish"}
    BY <1>addAxioms DEF Advances
  <2>3. QED  BY <1>addAxioms, <2>1, <2>2, <1>body
<1>removeAxioms. CASE RemoveAxioms(t) /\ Stays(t) /\ Advances(t, IF config.buffered THEN "final" ELSE "flush")
  <2>1. frame[t].pc = "body" /\ UNCHANGED <<disposed, observers, sessions, runtime>>
    BY <1>removeAxioms DEF RemoveAxioms, At, locks, token, ontology
  <2>2. frame'[t].pc \in {"body", "flush", "delta", "create", "final", "finish"}
    BY <1>removeAxioms DEF Advances
  <2>3. QED  BY <1>removeAxioms, <2>1, <2>2, <1>body
<1>flush. CASE Flush(t) /\ Stays(t) /\ Advances(t, "flush")
  <2>1. frame[t].pc = "body" /\ UNCHANGED <<disposed, observers, sessions, runtime>>
    BY <1>flush DEF Flush, At, locks, token, ontology
  <2>2. frame'[t].pc \in {"body", "flush", "delta", "create", "final", "finish"}
    BY <1>flush DEF Advances
  <2>3. QED  BY <1>flush, <2>1, <2>2, <1>body
<1>flushCompile. CASE /\ FlushCompile(t) /\ Stays(t)
                      /\ \/ additions = {} /\ removals = {} /\ Advances(t, "final")
                         \/ Proposed(t)
                         \/ Failed(t, 0)
  <2>1. frame[t].pc = "flush" /\ UNCHANGED <<disposed, observers, sessions, runtime>>
    BY <1>flushCompile DEF FlushCompile, At, locks, token, ontology
  <2>2. frame'[t].pc \in {"body", "flush", "delta", "create", "final", "finish"}
    BY <1>flushCompile DEF Advances, Proposed, Failed
  <2>3. QED  BY <1>flushCompile, <2>1, <2>2, <1>body
<1>precomputeDone. CASE PrecomputeDone(t) /\ Stays(t) /\ Advances(t, "final")
  <2>1. frame[t].pc = "body" /\ UNCHANGED <<disposed, observers, sessions, runtime>>
    BY <1>precomputeDone DEF PrecomputeDone, At, locks, token, ontology
  <2>2. frame'[t].pc \in {"body", "flush", "delta", "create", "final", "finish"}
    BY <1>precomputeDone DEF Advances
  <2>3. QED  BY <1>precomputeDone, <2>1, <2>2, <1>body
<1>precomputeType. CASE PrecomputeType(t) /\ Stays(t)
                          /\ (Completes(t) \/ (Failed(t, runtime.session) /\ UNCHANGED runtime))
  <2>1. frame[t].pc = "body" /\ UNCHANGED <<disposed, observers, sessions>>
    BY <1>precomputeType DEF PrecomputeType, At, locks, token
  <2>2. runtime'.session = runtime.session /\ frame'[t].pc \in {"body", "finish"}
    BY <1>precomputeType DEF Completes, Failed, Typed, TypedState
  <2>3. QED  BY <1>precomputeType, <2>1, <2>2, <1>body
<1>callbackRaises. CASE CallbackRaises(t) /\ Stays(t) /\ frame'[t].pc = "finish" /\ frame'[t].outcome = "error"
  <2>1. /\ frame[t].pc = "body" /\ UNCHANGED <<disposed, runtime, sessions>>
        /\ DOMAIN observers' = DOMAIN observers
    BY <1>callbackRaises DEF CallbackRaises, At, locks, ontology
  <2>2. QED  BY <1>callbackRaises, <2>1, <1>inside
<1>beginClear. CASE BeginClear(t) /\ Stays(t) /\ Clears(t)
  <2>1. frame[t].pc = "begin" /\ frame'[t].pc = "reset" /\ UNCHANGED <<disposed, observers, sessions, runtime>>
    BY <1>beginClear DEF BeginClear, At, Clears, locks, ontology
  <2>2. QED  BY <1>beginClear, <2>1, <1>inside
<1>beginReset. CASE BeginReset(t) /\ Stays(t) /\ Advances(t, "check")
  <2>1. /\ frame[t].pc = "reset" /\ frame'[t].pc = "check" /\ UNCHANGED <<disposed, sessions, runtime>>
        /\ DOMAIN observers' = DOMAIN observers
    BY <1>beginReset DEF BeginReset, At, Advances, locks, ontology
  <2>2. QED  BY <1>beginReset, <2>1, <1>inside
<1>openTemporary. CASE /\ OpenTemporary(t) /\ Stays(t)
                       /\ \/ /\ ~cancelled /\ sessions' = NewSession(Compiled(view))
                             /\ observers' = Attached(Len(sessions'))
                             /\ Taken(t, "temporary", Len(sessions'))
                          \/ Failed(t, 0) /\ UNCHANGED <<observers, sessions>>
  <2>1. frame[t].pc = "body" /\ UNCHANGED <<disposed, runtime, config>>
    BY <1>openTemporary DEF OpenTemporary, At, locks, ontology
  <2>2. CASE Failed(t, 0) /\ UNCHANGED <<observers, sessions>>
    <3>1. frame'[t].pc = "finish"  BY <2>2 DEF Failed
    <3>2. QED  BY <1>openTemporary, <2>1, <2>2, <3>1, <1>body
  <2>3. CASE /\ sessions' = NewSession(Compiled(view)) /\ observers' = Attached(Len(sessions'))
             /\ Taken(t, "temporary", Len(sessions'))
    <3>1. Compiled(view) \in SUBSET Axioms  BY DEF Typed, TypedState, Compiled
    <3>2. QED  BY <1>openTemporary, <2>1, <2>3, <3>1, <1>taken
  <2>4. QED  BY <1>openTemporary, <2>2, <2>3
<1>flushCreate. CASE /\ FlushCreate(t) /\ Stays(t)
                     /\ \/ /\ ~cancelled /\ sessions' = NewSession(Compiled(frame[t].proposed))
                           /\ observers' = Attached(Len(sessions')) /\ Taken(t, "commit", Len(sessions'))
                        \/ Failed(t, 0) /\ UNCHANGED <<observers, sessions>>
  <2>1. frame[t].pc = "create" /\ UNCHANGED <<disposed, runtime, config>>
    BY <1>flushCreate DEF FlushCreate, At, locks, ontology
  <2>2. CASE Failed(t, 0) /\ UNCHANGED <<observers, sessions>>
    <3>1. frame'[t].pc = "finish"  BY <2>2 DEF Failed
    <3>2. QED  BY <1>flushCreate, <2>1, <2>2, <3>1, <1>body
  <2>3. CASE /\ sessions' = NewSession(Compiled(frame[t].proposed)) /\ observers' = Attached(Len(sessions'))
             /\ Taken(t, "commit", Len(sessions'))
    <3>1. Compiled(frame[t].proposed) \in SUBSET Axioms  BY DEF Typed, Frames, Compiled
    <3>2. QED  BY <1>flushCreate, <2>1, <2>3, <3>1, <1>taken
  <2>4. QED  BY <1>flushCreate, <2>2, <2>3
<1>activate. CASE Activate(t) /\ Activates(t)
  <2>1. frame[t].pc = "acquired" /\ UNCHANGED <<disposed, observers, sessions, runtime, config>>
    BY <1>activate DEF Activate, At, token, ontology
  <2>2. Same(t) /\ frame'[t].pc \in {"release", "close", "begin"} /\ (frame'[t].pc # "release" => ~disposed)
    BY <1>activate, OthersSame DEF Activates
  <2>3. QED  BY <2>1, <2>2, <1>quiet DEF Inside
<1>finish. CASE Finish(t) /\ Advances(t, "release")
  <2>1. frame[t].pc = "finish" /\ UNCHANGED <<disposed, observers, sessions, runtime, config>>
    BY <1>finish DEF Finish, At, token, ontology
  <2>2. Same(t) /\ frame'[t].pc = "release"  BY <1>finish, OthersSame DEF Advances
  <2>3. QED  BY <2>1, <2>2, <1>quiet DEF Inside
\* A step of a thread that is not inside an operation and does not enter one.
<1>outside. ASSUME Same(t), UNCHANGED <<disposed, sessions, runtime, config>>,
                   DOMAIN observers' = DOMAIN observers,
                   frame[t].pc \in {"idle", "entered", "release", "set", "signal"},
                   frame'[t].pc \in {"idle", "entered", "acquired", "set", "signal"}
            PROVE  Opened'
  BY <1>outside, <1>quiet DEF Inside
<1>acquire. CASE Acquire(t) /\ Advances(t, "acquired")
  <2>1. frame[t].pc = "entered" /\ UNCHANGED <<disposed, sessions, runtime, config>>
          /\ DOMAIN observers' = DOMAIN observers
    BY <1>acquire DEF Acquire, At, locks, token, ontology
  <2>2. Same(t) /\ frame'[t].pc \in {"idle", "entered", "acquired", "set", "signal"}
    BY <1>acquire, OthersSame DEF Advances
  <2>3. QED  BY <2>1, <2>2, <1>outside
<1>release. CASE Release(t) /\ Others(t) /\ frame'[t] = Idle
  <2>1. frame[t].pc = "release" /\ UNCHANGED <<disposed, sessions, runtime, config>>
          /\ DOMAIN observers' = DOMAIN observers
    BY <1>release DEF Release, At, locks, token, ontology
  <2>2. Same(t) /\ frame'[t].pc \in {"idle", "entered", "acquired", "set", "signal"}
    BY <1>release, OthersSame, IdleIs
  <2>3. QED  BY <2>1, <2>2, <1>outside
<1>enter. CASE Enters(t) /\ \E op \in config.operations : Enter(t, op)
  <2>1. frame[t].pc = "idle" /\ UNCHANGED <<disposed, sessions, runtime, config>>
          /\ DOMAIN observers' = DOMAIN observers
    BY <1>enter DEF Enter, At, locks, token, ontology
  <2>2. Same(t) /\ frame'[t].pc \in {"idle", "entered", "acquired", "set", "signal"}
    BY <1>enter, OthersSame DEF Enters
  <2>3. QED  BY <2>1, <2>2, <1>outside
<1>interruptEnter. CASE InterruptEnter(t) /\ Aims(t)
  <2>1. frame[t].pc = "idle" /\ UNCHANGED <<disposed, sessions, runtime, config>>
          /\ DOMAIN observers' = DOMAIN observers
    BY <1>interruptEnter DEF InterruptEnter, At, locks, token, ontology
  <2>2. Same(t) /\ frame'[t].pc \in {"idle", "entered", "acquired", "set", "signal"}
    BY <1>interruptEnter, <2>1, OthersSame DEF Aims, Same
  <2>3. QED  BY <2>1, <2>2, <1>outside
<1>interruptSet. CASE InterruptSet(t) /\ (Returns(t) \/ Sets(t))
  <2>1. frame[t].pc = "set" /\ UNCHANGED <<disposed, sessions, runtime, config>>
          /\ DOMAIN observers' = DOMAIN observers
    BY <1>interruptSet DEF InterruptSet, At, locks, token, ontology
  <2>2. Same(t) /\ frame'[t].pc \in {"idle", "entered", "acquired", "set", "signal"}
    BY <1>interruptSet, OthersSame, IdleIs DEF Sets, Returns
  <2>3. QED  BY <2>1, <2>2, <1>outside
<1>interruptSignal. CASE InterruptSignal(t) /\ Returns(t)
  <2>1. frame[t].pc = "signal" /\ UNCHANGED <<disposed, sessions, runtime, config>>
          /\ DOMAIN observers' = DOMAIN observers
    BY <1>interruptSignal DEF InterruptSignal, At, locks, token, ontology
  <2>2. Same(t) /\ frame'[t].pc \in {"idle", "entered", "acquired", "set", "signal"}
    BY <1>interruptSignal, OthersSame, IdleIs DEF Returns
  <2>3. QED  BY <2>1, <2>2, <1>outside
<1> QED
  BY <1>acquire, <1>activate, <1>beginClear, <1>beginReset, <1>firstCheck, <1>finalCheck, <1>finish,
     <1>release, <1>query, <1>openTemporary, <1>checkTemporary, <1>callbackRaises, <1>addAxioms,
     <1>removeAxioms, <1>flush, <1>flushCompile, <1>flushDelta, <1>flushCreate, <1>flushCommit,
     <1>precomputeType, <1>precomputeDone, <1>disposeClose, <1>disposeMark, <1>enter, <1>interruptEnter,
     <1>interruptSet, <1>interruptSignal, ZenonT(60) DEF Acts

\* At the start the first session is open, and it is the runtime's.
LEMMA OpenedInit == Init => Opened
<1> SUFFICES ASSUME Init PROVE Opened  OBVIOUS
<1>1. sessions = <<[open |-> TRUE, program |-> Compiled(Loaded)]>> /\ runtime.session = 1 /\ ~disposed
      /\ \A t \in Threads : frame[t].pc = "idle"
  BY DEF Init, Idle
<1>2. Len(sessions) = 1 /\ sessions[1].open /\ DOMAIN sessions = {1}  BY <1>1, SMT
<1>3. OpenedObservers
  <2>1. OpenSessions = {1}  BY <1>2 DEF OpenSessions
  <2>2. QED  BY <2>1 DEF Init, OpenedObservers
<1>4. QED  BY <1>1, <1>2, <1>3, SMT DEF Opened, Borrows, Inside
=============================================================================
