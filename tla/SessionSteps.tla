----------------------------- MODULE SessionSteps -----------------------------
(***************************************************************************)
(* The effects of the steps of a check, and that every step of a scheduler *)
(* call keeps the invariant of SessionLedger.                              *)
(***************************************************************************)
EXTENDS SessionLedger

\* The leaves are first-order: Zenon proves them, and SMT those that need arithmetic,
\* sequences, records or a wide case split.
USE Zenon

-----------------------------------------------------------------------------
(***************************************************************************)
(* What a step of a check does.                                            *)
(***************************************************************************)
\* A verdict taken without a run is the verdict of the ontology.
LEMMA KnownTrue ==
    ASSUME IInv, NEW subject \in Subjects, Known(subject) # "unknown"
    PROVE  Known(subject) = truth[subject]
BY DEF IInv, Cached, Known, Subjects

\* The frame after a query of a check has been answered with v.
LEMMA DecideFrame ==
    ASSUME NEW t \in Threads, Typed, frame[t].todo # <<>>, NEW v \in Verdicts,
           Goto(t, [frame[t] EXCEPT !.todo = Tail(@), !.done = Append(@, v)], "next")
    PROVE  /\ Others(t) /\ Held(t) /\ frame'[t].pc = "next"
           /\ frame'[t].todo = Tail(frame[t].todo) /\ frame'[t].done = Append(frame[t].done, v)
           /\ frame'[t].id = frame[t].id /\ frame'[t].error = frame[t].error
<1>1. PICK h \in Frames : h = frame[t]  BY DEF Typed
<1>2. h.todo \in Seq(Subjects) /\ h.done \in Seq(Verdicts) /\ h.todo # <<>>  BY <1>1 DEF Frames
<1>a. Tail(h.todo) \in Seq(Subjects) /\ Append(h.done, v) \in Seq(Verdicts)  BY <1>2, SMT
<1>3. PICK todo \in Seq(Subjects) : todo = Tail(h.todo)  BY <1>a
<1>4. PICK done \in Seq(Verdicts) : done = Append(h.done, v)  BY <1>a
<1> DEFINE k == [h EXCEPT !.todo = todo, !.done = done]
<1>5. /\ k \in Frames /\ k.kind = h.kind /\ k.asked = h.asked /\ k.total = h.total
      /\ k.todo = todo /\ k.done = done /\ k.id = h.id /\ k.error = h.error
  BY DEF Frames
<1>6. Goto(t, k, "next")  BY <1>1, <1>3, <1>4
<1>7. "next" \in PCs  BY DEF PCs, Running
<1> HIDE DEF k
<1>8. QED  BY <1>1, <1>3, <1>4, <1>5, <1>6, <1>7, GotoFrame, SMTT(30) DEF Held

\* The next query of a check: given up, answered from what is known, or opened.
LEMMA BeginEffect ==
    ASSUME NEW t \in Threads, IInv, UNCHANGED session, BeginTransaction(t)
    PROVE  Calm(t) /\ (Aborts(t) \/ Decides(t) \/ Works(t))
<1>1. /\ Typed /\ frame[t] \in Frames /\ owned \in Ledgers /\ tableau \in Tableaux
      /\ control \in Controls /\ drained \in Nat /\ poisoned \in BOOLEAN
      /\ busy \in BOOLEAN /\ mutex \in Threads \cup {Nobody} /\ truth \in [Subjects -> Verdicts]
  BY DEF IInv, Typed
<1>2. /\ frame[t].pc = "next" /\ frame[t].todo # <<>>
      /\ UNCHANGED <<closed, busy, mutex, tableau, truth, calls, drained>>
  BY DEF BeginTransaction
<1>3. frame[t].pc \in Running /\ AtRoot(tableau) /\ frame[t].error = "none"
  BY <1>2 DEF IInv, Tidy, Threaded, Running
<1>4. Head(frame[t].todo) \in Subjects
  <2>1. frame[t].todo \in Seq(Subjects)  BY <1>1 DEF Frames
  <2>2. QED  BY <1>2, <2>1, HeadIn
<1> DEFINE known == Known(Head(frame[t].todo))
<1>5. CASE \E error \in Errors : AbortWith(t, frame[t], error) /\ control' \in Controls
                                 /\ poisoned' = poisoned
  <2>1. PICK error \in Errors : AbortWith(t, frame[t], error) /\ control' \in Controls
                                /\ poisoned' = poisoned
    BY <1>5
  <2>2. /\ Others(t) /\ owned' \in Ledgers /\ frame'[t].pc = "unlock" /\ Held(t)
        /\ frame'[t].outcome # "ok" /\ frame'[t].error = error
        /\ \/ error = "panic" /\ owned' = owned
           \/ /\ error # "panic" /\ Recorded(owned, owned', frame[t], drained)
              /\ owned'.completed = owned.completed /\ owned'.aborted = owned.aborted + 1
    BY <1>2, <1>3, <2>1, AbortFrame
  <2>3. Aborts(t)  BY <1>2, <1>3, <2>1, <2>2 DEF Aborts
  <2>4. QED  BY <1>1, <1>2, <2>1, <2>2, <2>3 DEF Calm
<1>6. CASE known # "unknown" /\ UNCHANGED <<poisoned, control, owned>>
           /\ Goto(t, [frame[t] EXCEPT !.todo = Tail(@), !.done = Append(@, known)], "next")
  <2>1. known = truth[Head(frame[t].todo)] /\ known \in Verdicts
    BY <1>1, <1>4, <1>6, KnownTrue
  <2> HIDE DEF known
  <2>2. /\ Others(t) /\ Held(t) /\ frame'[t].pc = "next"
        /\ frame'[t].todo = Tail(frame[t].todo)
        /\ frame'[t].done = Append(frame[t].done, known)
        /\ frame'[t].id = frame[t].id /\ frame'[t].error = frame[t].error
    BY <1>1, <1>2, <1>6, <2>1, DecideFrame
  <2>3. AtRoot(tableau')  BY <1>2, <1>3
  <2>4. Decides(t)  BY <1>2, <1>6, <2>1, <2>2, <2>3 DEF Decides
  <2>5. QED  BY <1>1, <1>2, <1>6, <2>2, <2>4 DEF Calm
<1>7. CASE UNCHANGED <<poisoned, control, owned>>
           /\ Goto(t, [frame[t] EXCEPT !.checkpoint = tableau], "install")
  <2>1. PICK h \in Frames : h = frame[t]  BY <1>1
  <2>2. PICK b \in Tableaux : b = tableau  BY <1>1
  <2> DEFINE k == [h EXCEPT !.checkpoint = b]
  <2>3. /\ k \in Frames /\ k.kind = h.kind /\ k.asked = h.asked /\ k.total = h.total
        /\ k.todo = h.todo /\ k.done = h.done /\ k.id = h.id /\ k.error = h.error
        /\ k.checkpoint = b
    BY DEF Frames
  <2>4. Goto(t, k, "install")  BY <1>7, <2>1, <2>2
  <2>5. "install" \in PCs /\ "install" \in Running \ {"next"}  BY DEF PCs, Running
  <2> HIDE DEF k
  <2>6. /\ Others(t) /\ Held(t) /\ frame'[t].pc = "install" /\ frame'[t].todo = frame[t].todo
        /\ frame'[t].done = frame[t].done /\ frame'[t].id = frame[t].id
        /\ frame'[t].error = "none" /\ frame'[t].checkpoint = tableau
    BY <1>1, <1>3, <2>1, <2>2, <2>3, <2>4, <2>5, GotoFrame, SMTT(30) DEF Held
  <2>7. Works(t)  BY <1>2, <1>3, <1>7, <2>5, <2>6 DEF Works
  <2>8. QED  BY <1>1, <1>2, <1>7, <2>6, <2>7 DEF Calm
<1>8. QED
  <2>1. tableau.query = Permanent  BY <1>3 DEF AtRoot
  <2>2. Poll \in Errors /\ "resource" \in Errors  BY <1>1, PollValue DEF Errors
  <2>3. [control EXCEPT !.exceeded = TRUE] \in Controls  BY <1>1 DEF Controls
  <2>4. QED  BY <1>1, <1>5, <1>6, <1>7, <2>1, <2>2, <2>3, ZenonT(30) DEF BeginTransaction

\* install_query and drive_tableau: on with the transaction, to recover, or a panic.
LEMMA WorkEffect ==
    ASSUME NEW t \in Threads, IInv, UNCHANGED session, InstallQuery(t) \/ DriveTableau(t)
    PROVE  Calm(t) /\ (Works(t) \/ Aborts(t))
<1>1. /\ Typed /\ frame[t] \in Frames /\ owned \in Ledgers /\ tableau \in Tableaux
      /\ control \in Controls /\ drained \in Nat /\ poisoned \in BOOLEAN
      /\ busy \in BOOLEAN /\ mutex \in Threads \cup {Nobody} /\ truth \in [Subjects -> Verdicts]
  BY DEF IInv, Typed
<1>2. /\ frame[t].pc \in {"install", "drive"}
      /\ UNCHANGED <<gate, truth, control, calls, drained>>
  BY DEF InstallQuery, DriveTableau
<1>3. /\ frame[t].pc \in Running /\ frame[t].error = "none" /\ frame[t].todo # <<>>
      /\ AtRoot(frame[t].checkpoint)
  BY <1>2 DEF IInv, Threaded, Running
<1>4. Head(frame[t].todo) \in Subjects
  <2>1. frame[t].todo \in Seq(Subjects)  BY <1>1 DEF Frames
  <2>2. QED  BY <1>3, <2>1, HeadIn
<1>5. PICK h \in Frames : h = frame[t]  BY <1>1
<1>6. {"drive", "finish", "recover"} \subseteq PCs
      /\ {"drive", "finish", "recover"} \subseteq Running \ {"next"}
  BY DEF PCs, Running
<1>7. ASSUME NEW pc \in {"drive", "finish", "recover"}, NEW e \in Errors,
             NEW v \in Verdicts \cup {"none"}, tableau' \in Tableaux, owned' = owned,
             Goto(t, [h EXCEPT !.error = e, !.verdict = v], pc),
             pc # "recover" => e = "none", pc = "finish" => v = truth[Head(frame[t].todo)]
      PROVE  Calm(t) /\ Works(t)
  <2> DEFINE k == [h EXCEPT !.error = e, !.verdict = v]
  <2>1. /\ k \in Frames /\ k.kind = h.kind /\ k.asked = h.asked /\ k.total = h.total
        /\ k.todo = h.todo /\ k.done = h.done /\ k.id = h.id /\ k.error = e
        /\ k.verdict = v /\ k.checkpoint = h.checkpoint
    BY DEF Frames
  <2>a. Goto(t, k, pc) /\ pc \in PCs  BY <1>6, <1>7
  <2> HIDE DEF k
  <2>2. /\ Others(t) /\ Held(t) /\ frame'[t].pc = pc /\ frame'[t].todo = frame[t].todo
        /\ frame'[t].done = frame[t].done /\ frame'[t].id = frame[t].id
        /\ frame'[t].checkpoint = frame[t].checkpoint
        /\ frame'[t].error = e /\ frame'[t].verdict = v
    BY <1>1, <1>5, <2>1, <2>a, GotoFrame, SMT DEF Held
  <2>3. Works(t)  BY <1>2, <1>3, <1>6, <1>7, <2>2 DEF Works, gate
  <2>4. QED  BY <1>1, <1>2, <1>7, <2>2, <2>3 DEF Calm, gate
<1>8. h.verdict \in Verdicts \cup {"none"} /\ h.error = "none" /\ "none" \in Errors
  BY <1>3, <1>5 DEF Frames, Errors
<1>9. ASSUME NEW e \in Errors, NEW v \in Verdicts
      PROVE  /\ [h EXCEPT !.error = e] = [h EXCEPT !.error = e, !.verdict = h.verdict]
             /\ [h EXCEPT !.verdict = v] = [h EXCEPT !.error = "none", !.verdict = v]
             /\ h = [h EXCEPT !.error = "none", !.verdict = h.verdict]
  BY <1>8 DEF Frames
<1>10. CASE InstallQuery(t)
  <2>1. CASE tableau' = [tableau EXCEPT !.query = Head(frame[t].todo)] /\ owned' = owned
             /\ Goto(t, frame[t], "drive")
    <3>1. tableau' \in Tableaux  BY <1>1, <1>4, <2>1 DEF Tableaux
    <3>2. "sat" \in Verdicts  BY DEF Verdicts
    <3>3. Goto(t, [h EXCEPT !.error = "none", !.verdict = h.verdict], "drive")
      BY <1>5, <1>8, <1>9, <2>1, <3>2
    <3>4. QED  BY <1>7, <1>8, <2>1, <3>1, <3>3
  <2>2. CASE \E e \in Errors : Goto(t, [frame[t] EXCEPT !.error = e], "recover")
                               /\ UNCHANGED <<tableau, owned>>
    <3>1. PICK e \in Errors : Goto(t, [frame[t] EXCEPT !.error = e], "recover")
                              /\ UNCHANGED <<tableau, owned>>
      BY <2>2
    <3>2. "sat" \in Verdicts  BY DEF Verdicts
    <3>3. Goto(t, [h EXCEPT !.error = e, !.verdict = h.verdict], "recover")
      BY <1>5, <1>9, <3>1, <3>2
    <3>4. QED  BY <1>1, <1>7, <1>8, <3>1, <3>3
  <2>3. Poll \in Errors /\ "wire" \in Errors  BY <1>1, PollValue DEF Errors
  <2>4. QED  BY <1>10, <2>1, <2>2, <2>3 DEF InstallQuery
<1>11. CASE DriveTableau(t)
  <2> DEFINE subject == Head(frame[t].todo)
             worked == [tableau EXCEPT !.atRoot = @ /\ subject # Permanent]
  <2>1. worked \in Tableaux
    <3>1. PICK c \in BOOLEAN : c = (tableau.atRoot /\ subject # Permanent)  OBVIOUS
    <3>2. worked = [tableau EXCEPT !.atRoot = c]  BY <3>1
    <3>3. QED  BY <1>1, <3>2 DEF Tableaux
  <2>2. CASE /\ tableau' = worked /\ UNCHANGED owned
             /\ \E v \in IF frame[t].checkpoint.atRoot THEN {truth[subject]} ELSE Verdicts :
                   Goto(t, [frame[t] EXCEPT !.verdict = v], "finish")
    <3>1. PICK v \in Verdicts : Goto(t, [frame[t] EXCEPT !.verdict = v], "finish")
                                /\ v = truth[subject]
      BY <1>1, <1>3, <1>4, <2>2 DEF AtRoot
    <3>2. Goto(t, [h EXCEPT !.error = "none", !.verdict = v], "finish")
      BY <1>5, <1>8, <1>9, <3>1
    <3> HIDE DEF worked
    <3>3. QED  BY <1>7, <1>8, <2>1, <2>2, <3>1, <3>2
  <2>3. CASE /\ tableau' = worked /\ UNCHANGED owned
             /\ \E e \in ({"resource", "invariant"} \cap Faults) \cup ({Poll} \ {"none"}) :
                   Goto(t, [frame[t] EXCEPT !.error = e], "recover")
    <3>1. Poll \in Errors /\ {"resource", "invariant"} \subseteq Errors
      BY <1>1, PollValue DEF Errors
    <3>2. PICK e \in Errors : Goto(t, [frame[t] EXCEPT !.error = e], "recover")
      BY <2>3, <3>1
    <3>3. "sat" \in Verdicts  BY DEF Verdicts
    <3>4. Goto(t, [h EXCEPT !.error = e, !.verdict = h.verdict], "recover")
      BY <1>5, <1>9, <3>2, <3>3
    <3> HIDE DEF worked
    <3>5. QED  BY <1>7, <1>8, <2>1, <2>3, <3>4
  <2>4. CASE tableau' = worked /\ AbortWith(t, frame[t], "panic")
    <3>1. "panic" \in Errors  BY DEF Errors
    <3>2. /\ Others(t) /\ owned' \in Ledgers /\ frame'[t].pc = "unlock" /\ Held(t)
          /\ frame'[t].outcome # "ok" /\ frame'[t].error = "panic" /\ owned' = owned
      BY <1>2, <1>3, <2>4, <3>1, AbortFrame
    <3> HIDE DEF worked
    <3>3. Aborts(t)  BY <1>2, <1>3, <3>2 DEF Aborts, gate
    <3>4. QED  BY <1>1, <1>2, <2>1, <2>4, <3>2, <3>3 DEF Calm, gate
  <2>5. QED  BY <1>11, <2>2, <2>3, <2>4 DEF DriveTableau
<1>12. QED  BY <1>10, <1>11

\* The last poll of a run and finish_operation.
LEMMA FinishEffect ==
    ASSUME NEW t \in Threads, IInv, UNCHANGED session, FinishOperation(t)
    PROVE  Calm(t) /\ (Works(t) \/ Decides(t) \/ Aborts(t))
<1>1. /\ Typed /\ frame[t] \in Frames /\ owned \in Ledgers /\ tableau \in Tableaux
      /\ control \in Controls /\ drained \in Nat /\ poisoned \in BOOLEAN
      /\ busy \in BOOLEAN /\ mutex \in Threads \cup {Nobody} /\ truth \in [Subjects -> Verdicts]
      /\ frame[t].checkpoint \in Tableaux
  BY DEF IInv, Typed, Frames
<1>2. /\ frame[t].pc = "finish"
      /\ UNCHANGED <<closed, busy, mutex, truth, control, calls, drained>>
  BY DEF FinishOperation
<1>3. /\ frame[t].pc \in Running /\ frame[t].error = "none" /\ frame[t].todo # <<>>
      /\ AtRoot(frame[t].checkpoint) /\ frame[t].verdict = truth[Head(frame[t].todo)]
  BY <1>2 DEF IInv, Threaded, Running
<1>4. Head(frame[t].todo) \in Subjects
  <2>1. frame[t].todo \in Seq(Subjects)  BY <1>1 DEF Frames
  <2>2. QED  BY <1>3, <2>1, HeadIn
<1>5. PICK v \in Verdicts : v = frame[t].verdict /\ v = truth[Head(frame[t].todo)]
  BY <1>1, <1>3, <1>4
<1>6. CASE Goto(t, [frame[t] EXCEPT !.error = Poll, !.verdict = "none"], "recover")
           /\ UNCHANGED <<poisoned, owned, tableau>>
  <2>1. PICK h \in Frames : h = frame[t]  BY <1>1
  <2>2. PICK e \in Errors : e = Poll  BY <1>1, PollValue
  <2> DEFINE k == [h EXCEPT !.error = e, !.verdict = "none"]
  <2>3. /\ k \in Frames /\ k.kind = h.kind /\ k.asked = h.asked /\ k.total = h.total
        /\ k.todo = h.todo /\ k.done = h.done /\ k.id = h.id /\ k.checkpoint = h.checkpoint
    BY DEF Frames
  <2>4. Goto(t, k, "recover")  BY <1>6, <2>1, <2>2
  <2>5. "recover" \in PCs /\ "recover" \in Running \ {"next"}  BY DEF PCs, Running
  <2> HIDE DEF k
  <2>6. /\ Others(t) /\ Held(t) /\ frame'[t].pc = "recover" /\ frame'[t].todo = frame[t].todo
        /\ frame'[t].done = frame[t].done /\ frame'[t].id = frame[t].id
        /\ frame'[t].checkpoint = frame[t].checkpoint
    BY <1>1, <2>1, <2>3, <2>4, <2>5, GotoFrame, SMTT(30) DEF Held
  <2>7. Works(t)  BY <1>2, <1>3, <1>6, <2>5, <2>6 DEF Works
  <2>8. QED  BY <1>1, <1>2, <1>6, <2>6, <2>7 DEF Calm
<1>7. CASE /\ tableau' \in {frame[t].checkpoint}
                 \cup (IF Head(frame[t].todo) = Permanent
                       THEN {[query |-> Permanent, base |-> "committed", atRoot |-> TRUE]} ELSE {})
           /\ UNCHANGED <<poisoned, owned>>
           /\ Goto(t, [frame[t] EXCEPT !.todo = Tail(@), !.done = Append(@, frame[t].verdict)],
                   "next")
  <2>1. Goto(t, [frame[t] EXCEPT !.todo = Tail(@), !.done = Append(@, v)], "next")
    BY <1>5, <1>7
  <2>2. /\ Others(t) /\ Held(t) /\ frame'[t].pc = "next"
        /\ frame'[t].todo = Tail(frame[t].todo) /\ frame'[t].done = Append(frame[t].done, v)
        /\ frame'[t].id = frame[t].id /\ frame'[t].error = frame[t].error
    BY <1>1, <1>3, <2>1, DecideFrame
  <2>3. tableau' \in Tableaux /\ AtRoot(tableau')
    <3>1. CASE tableau' = frame[t].checkpoint  BY <1>1, <1>3, <3>1
    <3>2. CASE tableau' = [query |-> Permanent, base |-> "committed", atRoot |-> TRUE]
      BY <3>2 DEF Tableaux, AtRoot, Subjects
    <3>3. QED  BY <1>7, <3>1, <3>2
  <2>4. Decides(t)  BY <1>2, <1>3, <1>5, <1>7, <2>2, <2>3 DEF Decides
  <2>5. QED  BY <1>1, <1>2, <1>7, <2>2, <2>3, <2>4 DEF Calm
<1>8. CASE /\ tableau' = [tableau EXCEPT !.query = Permanent, !.atRoot = FALSE]
           /\ poisoned' = TRUE /\ AbortWith(t, frame[t], "finish")
  <2>1. "finish" \in Errors /\ tableau' \in Tableaux  BY <1>1, <1>8 DEF Errors, Tableaux, Subjects
  <2>2. /\ Others(t) /\ owned' \in Ledgers /\ frame'[t].pc = "unlock" /\ Held(t)
        /\ frame'[t].outcome # "ok" /\ frame'[t].error = "finish"
        /\ Recorded(owned, owned', frame[t], drained)
        /\ owned'.completed = owned.completed /\ owned'.aborted = owned.aborted + 1
    BY <1>2, <1>3, <1>8, <2>1, AbortFrame
  <2>3. Aborts(t)  BY <1>2, <1>3, <1>8, <2>2 DEF Aborts
  <2>4. QED  BY <1>1, <1>2, <1>8, <2>1, <2>2, <2>3 DEF Calm
<1>9. QED  BY <1>6, <1>7, <1>8 DEF FinishOperation

\* recover: the checkpoint is restored, or the session is poisoned.
LEMMA RecoverEffect ==
    ASSUME NEW t \in Threads, IInv, UNCHANGED session, Recover(t)
    PROVE  Calm(t) /\ Aborts(t)
<1>1. /\ Typed /\ frame[t] \in Frames /\ owned \in Ledgers /\ tableau \in Tableaux
      /\ control \in Controls /\ drained \in Nat /\ poisoned \in BOOLEAN
      /\ busy \in BOOLEAN /\ mutex \in Threads \cup {Nobody}
      /\ frame[t].checkpoint \in Tableaux /\ frame[t].error \in Errors
  BY DEF IInv, Typed, Frames
<1>2. /\ frame[t].pc = "recover"
      /\ UNCHANGED <<closed, busy, mutex, truth, control, calls, drained>>
  BY DEF Recover
<1>3. frame[t].pc \in Running /\ AtRoot(frame[t].checkpoint)
  BY <1>2 DEF IInv, Threaded, Running
<1>4. PICK error \in Errors :
         /\ AbortWith(t, frame[t], error) /\ tableau' \in Tableaux /\ poisoned' \in BOOLEAN
         /\ (poisoned => poisoned') /\ (poisoned' \/ AtRoot(tableau'))
  <2>1. "finish" \in Errors /\ [tableau EXCEPT !.query = Permanent, !.atRoot = FALSE] \in Tableaux
    BY <1>1 DEF Errors, Tableaux, Subjects
  <2>2. CASE /\ tableau' = frame[t].checkpoint /\ AbortWith(t, frame[t], frame[t].error)
             /\ poisoned' = (poisoned \/ Poisons(frame[t].error))
    <3>1. poisoned' \in BOOLEAN /\ (poisoned => poisoned')  BY <1>1, <2>2 DEF Poisons
    <3>2. QED  BY <1>1, <1>3, <2>2, <3>1
  <2>3. CASE /\ tableau' = [tableau EXCEPT !.query = Permanent, !.atRoot = FALSE]
             /\ poisoned' = TRUE /\ AbortWith(t, frame[t], "finish")
    BY <1>1, <2>1, <2>3
  <2>4. QED  BY <2>2, <2>3 DEF Recover
<1>5. /\ Others(t) /\ owned' \in Ledgers /\ frame'[t].pc = "unlock" /\ Held(t)
      /\ frame'[t].outcome # "ok" /\ frame'[t].error = error
      /\ \/ error = "panic" /\ owned' = owned
         \/ /\ error # "panic" /\ Recorded(owned, owned', frame[t], drained)
            /\ owned'.completed = owned.completed /\ owned'.aborted = owned.aborted + 1
  BY <1>2, <1>3, <1>4, AbortFrame
<1>6. Aborts(t)  BY <1>2, <1>3, <1>4, <1>5 DEF Aborts
<1>7. QED  BY <1>1, <1>2, <1>4, <1>5, <1>6 DEF Calm

\* The requests of a session.
LEMMA RequestsFit ==
    ASSUME NEW r \in SessionRequests
    PROVE  /\ r.kind \in Checks \cup {"reset", "drain", "close", "delta"}
           /\ r.queries \in Seq(Subjects)
           /\ r.kind = "permanent" => r.queries = <<Permanent>>
<1>1. CASE r \in [kind : {"permanent"}, queries : {<<Permanent>>}]
  BY <1>1, SMT DEF Checks, Subjects
<1>2. CASE r \in [kind : {"query"}, queries : {<<q>> : q \in Queries}]
  <2>1. PICK q \in Queries : r.queries = <<q>> /\ r.kind = "query"  BY <1>2
  <2>2. <<q>> \in Seq(Subjects)  BY SMT DEF Subjects
  <2>3. QED  BY <2>1, <2>2 DEF Checks
<1>3. CASE r \in [kind : {"batch"},
                  queries : UNION {[1 .. n -> Queries] : n \in 0 .. MaxBatchQueries + 1}]
  <2>1. PICK n \in 0 .. MaxBatchQueries + 1 : r.queries \in [1 .. n -> Queries]  BY <1>3
  <2>2. n \in Nat  BY SchedulerAssumption, SMT
  <2>3. r.queries \in [1 .. n -> Subjects]  BY <2>1 DEF Subjects
  <2>4. r.queries \in Seq(Subjects)  BY <2>2, <2>3, SMT
  <2>5. QED  BY <1>3, <2>4 DEF Checks
<1>4. CASE r \in [kind : {"reset", "drain", "close"}, queries : {<<>>}]
  <2>1. r.queries = <<>> /\ r.kind \in {"reset", "drain", "close"}  BY <1>4
  <2>2. <<>> \in Seq(Subjects)  BY SMT
  <2>3. QED  BY <2>1, <2>2
<1>5. CASE r = Delta
  BY <1>5, SMT DEF Delta
<1>6. QED  BY <1>1, <1>2, <1>3, <1>4, <1>5, SMTT(30) DEF SessionRequests, Requests

\* Every query of a check is answered: the last poll of a batch, then complete_operation.
LEMMA CompleteEffect ==
    ASSUME NEW t \in Threads, IInv, UNCHANGED session, Complete(t)
    PROVE  Calm(t) /\ (Completes(t) \/ Aborts(t))
<1>1. /\ Typed /\ frame[t] \in Frames /\ owned \in Ledgers /\ tableau \in Tableaux
      /\ control \in Controls /\ drained \in Nat /\ poisoned \in BOOLEAN
      /\ busy \in BOOLEAN /\ mutex \in Threads \cup {Nobody} /\ truth \in [Subjects -> Verdicts]
      /\ stage[t].request \in SessionRequests
  BY DEF IInv, Typed, Stages
<1>2. /\ frame[t].pc = "next" /\ frame[t].todo = <<>>
      /\ UNCHANGED <<gate, tableau, truth, control, calls, drained>>
  BY DEF Complete
<1>3. /\ frame[t].pc \in Running /\ AtRoot(tableau) /\ frame[t].kind \in Checks
      /\ AboutRequest(t) /\ Progress(frame[t])
      /\ Stream(owned, drained) /\ Older(owned, frame[t].id)
  BY <1>2 DEF IInv, Tidy, Threaded, Running, Ring
<1>4. CASE AbortWith(t, frame[t], Poll)
  <2>1. Poll \in Errors \ {"panic"}  BY <1>1, PollValue
  <2>2. /\ Others(t) /\ owned' \in Ledgers /\ frame'[t].pc = "unlock" /\ Held(t)
        /\ frame'[t].outcome # "ok" /\ frame'[t].error = Poll
        /\ Recorded(owned, owned', frame[t], drained)
        /\ owned'.completed = owned.completed /\ owned'.aborted = owned.aborted + 1
    BY <1>2, <1>3, <1>4, <2>1, AbortFrame
  <2>3. Aborts(t)  BY <1>2, <1>3, <2>1, <2>2 DEF Aborts, gate
  <2>4. QED  BY <1>1, <1>2, <2>2, <2>3 DEF Calm, gate
<1>5. CASE /\ owned' = [CompleteOperation(owned, frame[t]) EXCEPT
                           !.permanent = IF frame[t].kind = "permanent"
                                         THEN Head(frame[t].done) ELSE @]
           /\ Goto(t, [frame[t] EXCEPT !.outcome = "ok", !.answers = frame[t].done], "unlock")
  <2>1. /\ frame[t].done \in Seq(Verdicts) /\ frame[t].todo \in Seq(Subjects)
        /\ frame[t].asked \in Seq(Subjects) /\ frame[t].id \in Nat
    BY <1>1 DEF Frames
  <2>2. Len(frame[t].done) = Len(frame[t].asked)  BY <1>2, <1>3, <2>1, SMT DEF Progress
  <2>3. frame[t].kind # "reset" /\ frame[t].total = Len(frame[t].done)
    BY <1>3, <2>2 DEF AboutRequest, Checks
  <2>4. frame[t].kind = "permanent" => Head(frame[t].done) = truth[Permanent]
    <3>1. SUFFICES ASSUME frame[t].kind = "permanent"
                   PROVE  Head(frame[t].done) = truth[Permanent]
      OBVIOUS
    <3>2. frame[t].asked = <<Permanent>>  BY <1>1, <1>3, <3>1, RequestsFit DEF AboutRequest
    <3>3. Len(frame[t].done) = 1 /\ frame[t].done # <<>>
      <4>1. Len(<<Permanent>>) = 1  OBVIOUS
      <4>2. Len(frame[t].done) = 1  BY <2>2, <3>2, <4>1
      <4>3. PICK d \in Seq(Verdicts) : d = frame[t].done  BY <2>1
      <4>4. Len(d) = 1 => d # <<>>  BY SMT
      <4>5. QED  BY <4>2, <4>3, <4>4
    <3>4. frame[t].done[1] = truth[frame[t].asked[1]]
      <4>1. 1 \in 1 .. Len(frame[t].done)  BY <3>3, SMT
      <4>2. QED  BY <1>3, <4>1 DEF Progress
    <3>5. Head(frame[t].done) = frame[t].done[1]  BY <2>1, <3>3, SMT
    <3>6. QED  BY <3>2, <3>4, <3>5, SMTT(30)
  <2>5. PICK c \in Ledgers :
           /\ c = CompleteOperation(owned, frame[t]) /\ Recorded(owned, c, frame[t], drained)
           /\ c.completed = owned.completed + 1 /\ c.aborted = owned.aborted
    <3>1. /\ Recorded(owned, CompleteOperation(owned, frame[t]), frame[t], drained)
          /\ CompleteOperation(owned, frame[t]).completed = owned.completed + 1
          /\ CompleteOperation(owned, frame[t]).aborted = owned.aborted
      BY <1>1, <1>3, <2>3, CompleteRecords
    <3>2. QED  BY <3>1 DEF Recorded
  <2>6. PICK x \in {owned.permanent, truth[Permanent]} : owned' = [c EXCEPT !.permanent = x]
    BY <1>5, <2>4, <2>5 DEF Recorded
  <2>7. x \in Verdicts \cup {"unknown"}  BY <1>1, SMTT(30) DEF Ledgers, Subjects
  <2>8. /\ owned' \in Ledgers /\ owned'.present = c.present /\ owned'.permanent = x
        /\ owned'.started = c.started /\ owned'.nextOperation = c.nextOperation
        /\ owned'.completed = c.completed /\ owned'.aborted = c.aborted
        /\ owned'.events = c.events /\ owned'.dropped = c.dropped
        /\ owned'.nextSequence = c.nextSequence
    BY <2>6, <2>7 DEF Ledgers
  <2>9. Stream(owned', drained) /\ Older(owned', frame[t].id + 1)
    BY <2>5, <2>8, SMT DEF Recorded, Stream, Older
  <2>10. PICK h \in Frames : h = frame[t]  BY <1>1
  <2>11. PICK done \in Seq(Verdicts) : done = h.done  BY <2>1, <2>10
  <2> DEFINE k == [h EXCEPT !.outcome = "ok", !.answers = done]
  <2>12. /\ k \in Frames /\ k.kind = h.kind /\ k.asked = h.asked /\ k.total = h.total
         /\ k.error = h.error /\ k.outcome = "ok" /\ k.answers = done
    BY DEF Frames, Outcomes
  <2>13. Goto(t, k, "unlock") /\ "unlock" \in PCs  BY <1>5, <2>10, <2>11 DEF PCs
  <2> HIDE DEF k
  <2>14. /\ Others(t) /\ Held(t) /\ frame'[t].pc = "unlock" /\ frame'[t].error = frame[t].error
         /\ frame'[t].outcome = "ok" /\ frame'[t].answers = frame[t].done
    BY <1>1, <2>10, <2>11, <2>12, <2>13, GotoFrame, ZenonT(60) DEF Held
  <2>15. Completes(t)
    BY <1>2, <2>5, <2>6, <2>8, <2>9, <2>14 DEF Completes, Recorded, gate
  <2>16. QED  BY <1>1, <1>2, <2>8, <2>14, <2>15 DEF Calm, gate
<1>6. QED  BY <1>4, <1>5 DEF Complete

\* The steps of a scheduler call.
Effects(t) ==
    \/ Waits(t) \/ Drains(t) \/ Settles(t) \/ Starts(t) \/ Decides(t) \/ Works(t)
    \/ Aborts(t) \/ Completes(t) \/ Exits(t) \/ Ends(t)

\* Every step of a scheduler call has one of these effects.
LEMMA InsideEffect ==
    ASSUME NEW t \in Threads, IInv, Inside(t)
    PROVE  Calm(t) /\ Effects(t)
<1>1. stage[t].at = "inside" /\ UNCHANGED session  BY DEF Inside
<1>2. CASE TakeBusy(t) \/ Lock(t)  BY <1>1, <1>2, EntryEffect DEF Effects
<1>3. CASE Unlock(t) \/ PoisonAfterPanic(t) \/ Release(t)  BY <1>1, <1>3, ExitEffect DEF Effects
<1>4. CASE Drain(t)  BY <1>1, <1>4, DrainEffect DEF Effects
<1>5. CASE Reset(t)  BY <1>1, <1>5, SettleEffect DEF Effects
<1>6. CASE Start(t)
  <2>1. CASE frame[t].kind = "batch" /\ frame[t].total > MaxBatchQueries
    BY <1>1, <1>6, <2>1, SettleEffect DEF Effects
  <2>2. CASE ~(frame[t].kind = "batch" /\ frame[t].total > MaxBatchQueries)
    BY <1>1, <1>6, <2>2, StartEffect DEF Effects
  <2>3. QED  BY <2>1, <2>2
<1>7. CASE BeginTransaction(t)  BY <1>1, <1>7, BeginEffect DEF Effects
<1>8. CASE InstallQuery(t) \/ DriveTableau(t)  BY <1>1, <1>8, WorkEffect DEF Effects
<1>9. CASE FinishOperation(t)  BY <1>1, <1>9, FinishEffect DEF Effects
<1>10. CASE Recover(t)  BY <1>1, <1>10, RecoverEffect DEF Effects
<1>11. CASE Complete(t)  BY <1>1, <1>11, CompleteEffect DEF Effects
<1>12. QED
  BY <1>2, <1>3, <1>4, <1>5, <1>6, <1>7, <1>8, <1>9, <1>10, <1>11 DEF Inside, Step, Operation

-----------------------------------------------------------------------------
(***************************************************************************)
(* Only one thread is in the session: what the invariant says of it.       *)
(***************************************************************************)
\* What Tidy and Ring say when every thread but t makes no call.
TidyAt(t) ==
    /\ Resting(t) /\ ~poisoned => AtRoot(tableau) /\ Booked
    /\ frame[t].pc \in Running => owned.started = owned.completed + owned.aborted + 1
    /\ frame[t].pc = "next" => AtRoot(tableau)

RingAt(t) ==
    /\ Stream(owned, drained) /\ Older(owned, owned.nextOperation)
    /\ frame[t].pc \in Running => Older(owned, frame[t].id)

\* A thread outside the session makes no call.
Idle(u) == stage[u].at = "outside" /\ frame[u].pc = "idle"

\* While t is in the session every other thread is outside it.
LEMMA Focus ==
    ASSUME NEW t \in Threads, IInv, stage[t].at # "outside"
    PROVE  /\ \A u \in Threads : u # t => Idle(u)
           /\ Threaded(t) /\ TidyAt(t) /\ RingAt(t)
<1>1. \A u \in Threads : u # t => Idle(u)  BY DEF IInv, Alone, Idle
<1>2. \A u \in Threads : u # t => Resting(u)  BY <1>1 DEF Idle, Resting
<1>3. TidyAt(t)  BY <1>2 DEF IInv, Tidy, TidyAt
<1>4. QED  BY <1>1, <1>3 DEF IInv, Ring, RingAt

\* A step of the scheduler call of t keeps the invariant when it keeps what the
\* invariant says of t.
LEMMA CalmKeeps ==
    ASSUME NEW t \in Threads, IInv, Calm(t), stage[t].at = "inside",
           owned'.present = owned.present,
           frame'[t].pc \in Waiting \cup Running =>
              frame[t].pc \in Waiting \cup Running /\ poisoned' = poisoned,
           Threaded(t)', TidyAt(t)', RingAt(t)',
           owned'.permanent \in {owned.permanent, truth[Permanent]}
    PROVE  IInv'
<1>1. \A u \in Threads : u # t => Idle(u)  BY Focus
<1>2. /\ UNCHANGED <<closed, truth, session>> /\ stage' = stage
      /\ \A u \in Threads : u # t => frame'[u] = frame[u]
  BY DEF Calm, Others, session
<1>3. \A u \in Threads : u # t => Idle(u)'  BY <1>1, <1>2 DEF Idle
<1>4. Tidy' /\ Ring'
  <2>1. \A u \in Threads : u # t =>
           Resting(u)' /\ frame'[u].pc \notin Running /\ frame'[u].pc # "next"
    BY <1>3 DEF Idle, Resting, Running
  <2>2. QED  BY <2>1 DEF TidyAt, Tidy, RingAt, Ring
<1>a. \A u \in Threads : Threaded(u)'
  <2>1. \A u \in Threads : u # t => Threaded(u)'
    BY <1>3, SMT DEF Idle, Threaded, Running, Waiting
  <2>2. QED  BY <2>1, ZenonT(30)
<1>5. Typed'  BY <1>2, ZenonT(30) DEF IInv, Typed, Calm, Others, session
<1>6. Alone'
  <2>1. \A u \in Threads : frame'[u].pc # "idle" => stage[u].at = "inside"
    BY <1>1, <1>2, ZenonT(30) DEF Idle
  <2>2. \A u \in Threads : frame'[u].pc \in Waiting \cup Running => ~poisoned'
    BY <1>3, SMT DEF IInv, Alone, Idle, Waiting, Running
  <2>3. QED  BY <1>2, <2>1, <2>2, SMTT(30) DEF IInv, Alone, session
<1>7. Cached'  BY <1>2 DEF IInv, Cached
<1>8. QED  BY <1>4, <1>a, <1>5, <1>6, <1>7 DEF IInv

\* The length of a sequence is a number, and not zero when there is a head.
LEMMA LengthIs ==
    ASSUME NEW S, NEW s \in Seq(S)
    PROVE  Len(s) \in Nat /\ (s # <<>> => Len(s) # 0)
BY SMT

\* One more query of a check is answered rightly.
LEMMA ProgressStep ==
    ASSUME NEW f \in Frames, NEW g \in Frames, Progress(f), f.todo # <<>>,
           g.asked = f.asked, g.todo = Tail(f.todo),
           g.done = Append(f.done, truth[Head(f.todo)])
    PROVE  Progress(g)
<1>1. f.todo \in Seq(Subjects) /\ f.done \in Seq(Verdicts) /\ f.asked \in Seq(Subjects)
      /\ g.done \in Seq(Verdicts) /\ g.todo \in Seq(Subjects)
  BY DEF Frames
<1>2. PICK n \in Nat : n = Len(f.done)  BY <1>1, LengthIs
<1>3. PICK m \in Nat : m + 1 = Len(f.todo)
  <2>1. Len(f.todo) \in Nat /\ Len(f.todo) # 0  BY <1>1, LengthIs
  <2>2. Len(f.todo) - 1 \in Nat /\ (Len(f.todo) - 1) + 1 = Len(f.todo)  BY <2>1, SMTT(30)
  <2>3. QED  BY <2>2
<1>4. Len(g.done) = n + 1 /\ Len(g.todo) = m
  BY <1>1, <1>2, <1>3, SMTT(30)
<1>5. /\ g.done[n + 1] = truth[Head(f.todo)] /\ \A i \in 1 .. n : g.done[i] = f.done[i]
      /\ \A i \in 1 .. m : g.todo[i] = f.todo[i + 1]
  BY <1>1, <1>2, <1>3, SMTT(30)
<1>6. n + (m + 1) = Len(f.asked)  BY <1>2, <1>3 DEF Progress
<1>7. Head(f.todo) = f.asked[n + 1]
  <2>1. Head(f.todo) = f.todo[1] /\ 1 \in 1 .. Len(f.todo)  BY <1>1, <1>3, SMTT(30)
  <2>2. QED  BY <1>2, <2>1 DEF Progress
<1>8. ASSUME NEW i \in 1 .. n + 1
      PROVE  g.done[i] = truth[g.asked[i]]
  <2>1. CASE i = n + 1  BY <1>5, <1>7, <2>1
  <2>2. CASE i \in 1 .. n
    <3>1. f.done[i] = truth[f.asked[i]]  BY <1>2, <2>2 DEF Progress
    <3>2. QED  BY <1>5, <2>2, <3>1
  <2>3. \A j \in 1 .. n + 1 : j = n + 1 \/ j \in 1 .. n  BY <1>2, SMT
  <2>4. QED  BY <2>1, <2>2, <2>3
<1>9. ASSUME NEW i \in 1 .. m
      PROVE  g.todo[i] = g.asked[(n + 1) + i]
  <2>1. i + 1 \in 1 .. m + 1 /\ n + (i + 1) = (n + 1) + i  BY SMTT(30)
  <2>2. f.todo[i + 1] = f.asked[n + (i + 1)]  BY <1>2, <1>3, <2>1 DEF Progress
  <2>3. QED  BY <1>5, <2>1, <2>2
<1>10. (n + 1) + m = Len(g.asked)  BY <1>6, SMT
<1>11. QED  BY <1>4, <1>8, <1>9, <1>10 DEF Progress

\* A step on the way to the mutex, and a drain.
LEMMA WaitsKeep ==
    ASSUME NEW t \in Threads, IInv, Calm(t), stage[t].at = "inside", Waits(t) \/ Drains(t)
    PROVE  IInv'
<1>1. /\ Threaded(t) /\ TidyAt(t) /\ RingAt(t) /\ ~poisoned /\ frame[t].pc \in Waiting
      /\ frame[t].pc # "idle" /\ Resting(t) /\ Held(t)
      /\ owned \in Ledgers /\ drained \in Nat
      /\ stage' = stage /\ truth' = truth /\ poisoned' = poisoned /\ tableau' = tableau
      /\ frame'[t].error = frame[t].error
  <2>1. Threaded(t) /\ TidyAt(t) /\ RingAt(t)  BY Focus
  <2>2. /\ frame[t].pc \in Waiting /\ poisoned' = poisoned /\ tableau' = tableau
        /\ Held(t) /\ frame'[t].error = frame[t].error
    BY DEF Waits, Drains, Waiting
  <2>3. QED  BY <2>1, <2>2 DEF IInv, Alone, Typed, Calm, session, Waiting, Resting
<1>2. AboutRequest(t)'  BY <1>1 DEF Threaded, AboutRequest, Held
<1>3. CASE Waits(t)
  <2>1. /\ frame'[t].pc \in Waiting /\ frame'[t].todo = frame[t].todo
        /\ frame'[t].done = frame[t].done
        /\ UNCHANGED <<owned, drained>>
    BY <1>3 DEF Waits, Waiting
  <2>2. Threaded(t)'  BY <1>1, <1>2, <2>1 DEF Threaded, Held, Waiting, Running
  <2>3. TidyAt(t)' /\ RingAt(t)'
    BY <1>1, <2>1 DEF TidyAt, RingAt, Booked, Waiting, Running
  <2>4. QED  BY <1>1, <2>1, <2>2, <2>3, CalmKeeps
<1>4. CASE Drains(t)
  <2>1. frame'[t].pc = "unlock" /\ frame[t].kind = "drain"  BY <1>4 DEF Drains
  <2>2. Threaded(t)'
    <3>1. stage'[t].request.kind \notin Checks
      BY <1>1, <1>2, <2>1 DEF AboutRequest, Held, Checks
    <3>2. QED  BY <1>2, <2>1, <3>1 DEF Threaded, Waiting, Running
  <2>3. TidyAt(t)'
    BY <1>1, <1>4, <2>1 DEF TidyAt, Booked, Drains, SameLedger, Running
  <2>4. RingAt(t)'
    <3>1. /\ owned'.events = <<>> /\ owned'.dropped = owned.dropped
          /\ owned'.nextSequence = owned.nextSequence
          /\ drained' = drained + Len(owned.events)
      BY <1>4 DEF Drains
    <3>2. /\ Len(owned.events) \in Nat /\ owned.dropped \in Nat /\ owned.nextSequence \in Nat
          /\ EventCapacity \in Nat
      BY <1>1, SchedulerAssumption, SMTT(30) DEF Ledgers
    <3>3. Chained(owned'.events) /\ Older(owned', owned'.nextOperation)
      BY <3>1, SMTT(30) DEF Chained, Older
    <3>4. Stream(owned', drained')  BY <1>1, <3>1, <3>2, <3>3, SMTT(30) DEF Stream, RingAt
    <3>5. QED  BY <2>1, <3>3, <3>4 DEF RingAt, Running
  <2>5. QED
    <3>1. owned'.present = owned.present /\ owned'.permanent = owned.permanent
      BY <1>4 DEF Drains, SameLedger
    <3>2. QED  BY <2>1, <2>2, <2>3, <2>4, <3>1, CalmKeeps DEF Waiting, Running
<1>5. QED  BY <1>3, <1>4

\* An operation starts, or starts and ends at once.
LEMMA StartsKeep ==
    ASSUME NEW t \in Threads, IInv, Calm(t), stage[t].at = "inside", Settles(t) \/ Starts(t)
    PROVE  IInv'
<1>1. /\ Threaded(t) /\ TidyAt(t) /\ RingAt(t) /\ ~poisoned /\ frame[t].pc = "start"
      /\ AtRoot(tableau) /\ Booked /\ Held(t)
      /\ owned \in Ledgers /\ owned' \in Ledgers /\ frame[t] \in Frames
      /\ stage' = stage /\ truth' = truth /\ frame'[t].error = frame[t].error
      /\ owned'.started = owned.started + 1 /\ owned'.nextOperation = owned.nextOperation + 1
      /\ drained' = drained /\ owned'.present = owned.present
      /\ owned'.permanent = owned.permanent
  <2>1. Threaded(t) /\ TidyAt(t) /\ RingAt(t)  BY Focus
  <2>2. /\ frame[t].pc = "start" /\ Held(t) /\ frame'[t].error = frame[t].error
        /\ owned'.started = owned.started + 1
        /\ owned'.nextOperation = owned.nextOperation + 1
        /\ drained' = drained /\ owned'.present = owned.present
        /\ owned'.permanent = owned.permanent
    BY DEF Settles, Starts
  <2>3. ~poisoned /\ AtRoot(tableau) /\ Booked
    BY <2>1, <2>2 DEF IInv, Alone, TidyAt, Resting, Waiting
  <2>4. QED  BY <2>1, <2>2, <2>3 DEF IInv, Typed, Calm, session
<1>2. /\ AboutRequest(t)' /\ frame[t].todo = frame[t].asked /\ frame[t].done = <<>>
      /\ frame[t].error = "none"
  BY <1>1 DEF Threaded, AboutRequest, Held, Waiting
<1>3. CASE Settles(t)
  <2>1. frame'[t].pc = "unlock"  BY <1>3 DEF Settles
  <2>2. Threaded(t)'
    <3>1. stage'[t].request.kind \in Checks => frame'[t].outcome # "ok"
      BY <1>1, <1>2, <1>3 DEF AboutRequest, Held, Settles
    <3>2. QED  BY <1>1, <1>2, <2>1, <3>1 DEF Threaded, Waiting, Running, Calm, IInv, Alone, session
  <2>3. TidyAt(t)'
    <3>1. owned'.completed + owned'.aborted = owned.completed + owned.aborted + 1
          /\ AtRoot(tableau')
      BY <1>1, <1>3 DEF Settles
    <3>2. Booked'  BY <1>1, <3>1 DEF Booked
    <3>3. QED  BY <2>1, <3>1, <3>2 DEF TidyAt, Running
  <2>4. RingAt(t)'  BY <1>1, <1>3, <2>1 DEF Settles, RingAt, Running
  <2>5. QED  BY <1>1, <2>1, <2>2, <2>3, <2>4, CalmKeeps DEF Waiting, Running
<1>4. CASE Starts(t)
  <2>1. /\ frame'[t].pc = "next" /\ frame[t].kind \in Checks
        /\ frame'[t].todo = frame[t].todo /\ frame'[t].done = frame[t].done
        /\ frame'[t].id = owned.nextOperation /\ poisoned' = poisoned /\ tableau' = tableau
        /\ owned'.completed = owned.completed /\ owned'.aborted = owned.aborted
        /\ owned'.events = owned.events /\ owned'.dropped = owned.dropped
        /\ owned'.nextSequence = owned.nextSequence
    BY <1>4 DEF Starts
  <2>2. Threaded(t)'
    <3>1. Progress(frame[t])'
      <4>1. frame'[t].done = <<>> /\ frame'[t].todo = frame'[t].asked
        BY <1>1, <1>2, <2>1 DEF Held
      <4>2. frame'[t].asked \in Seq(Subjects)  BY <1>1 DEF Held, Frames
      <4>3. QED  BY <4>1, <4>2, SMT DEF Progress
    <3>2. QED  BY <1>1, <1>2, <2>1, <3>1 DEF Threaded, Waiting, Running, Held
  <2>3. TidyAt(t)'
    BY <1>1, <2>1 DEF TidyAt, Booked, Resting, Running, Waiting
  <2>4. RingAt(t)'
    <3>1. Stream(owned', drained') /\ Older(owned', owned.nextOperation)
      BY <1>1, <2>1 DEF RingAt, Stream, Older
    <3>2. Older(owned', owned'.nextOperation)
      <4>1. ASSUME NEW i \in 1 .. Len(owned'.events)
            PROVE  owned'.events[i].operation < owned.nextOperation + 1
        <5>1. owned'.events \in Seq(Events) /\ owned.nextOperation \in Nat  BY <1>1 DEF Ledgers
        <5>2. owned'.events[i].operation \in Nat
          <6>1. PICK s \in Seq(Events) : s = owned'.events  BY <5>1
          <6>2. s[i] \in Events  BY <6>1, SMT
          <6>3. QED  BY <6>1, <6>2 DEF Events
        <5>3. QED  BY <3>1, <5>1, <5>2, SMTT(30) DEF Older
      <4>2. QED  BY <1>1, <4>1 DEF Older
    <3>3. QED  BY <2>1, <3>1, <3>2 DEF RingAt
  <2>5. QED  BY <1>1, <2>1, <2>2, <2>3, <2>4, CalmKeeps DEF Waiting
<1>5. QED  BY <1>3, <1>4

\* A transaction goes on, or its query is answered.
LEMMA WorksKeep ==
    ASSUME NEW t \in Threads, IInv, Calm(t), stage[t].at = "inside", Decides(t) \/ Works(t)
    PROVE  IInv'
<1>1. /\ Threaded(t) /\ TidyAt(t) /\ RingAt(t) /\ frame[t].pc \in Running
      /\ frame'[t].pc \in Running /\ Held(t) /\ frame[t] \in Frames /\ frame'[t] \in Frames
      /\ stage' = stage /\ truth' = truth /\ frame'[t].id = frame[t].id
      /\ UNCHANGED <<owned, poisoned, drained>>
  <2>1. Threaded(t) /\ TidyAt(t) /\ RingAt(t)  BY Focus
  <2>2. /\ frame[t].pc \in Running /\ frame'[t].pc \in Running /\ Held(t)
        /\ frame'[t].id = frame[t].id /\ UNCHANGED <<owned, poisoned, drained>>
    BY DEF Decides, Works, Running
  <2>3. QED  BY <2>1, <2>2 DEF IInv, Typed, Calm, session, Others
<1>2. /\ AboutRequest(t)' /\ frame'[t].kind \in Checks /\ frame[t].id + 1 = owned.nextOperation
      /\ Progress(frame[t])
  BY <1>1 DEF Threaded, AboutRequest, Held, Running
<1>3. RingAt(t)'  BY <1>1 DEF RingAt
<1>4. CASE Decides(t)
  <2>1. /\ frame'[t].pc = "next" /\ AtRoot(tableau') /\ frame'[t].error = frame[t].error
        /\ frame[t].pc # "recover"
    BY <1>4 DEF Decides
  <2>2. Progress(frame'[t])  BY <1>1, <1>2, <1>4, ProgressStep DEF Decides, Held
  <2>3. Progress(frame[t])'  BY <1>1, <2>2 DEF Progress
  <2>4. Threaded(t)'
    BY <1>1, <1>2, <2>1, <2>3 DEF Threaded, Running, Waiting
  <2>5. TidyAt(t)'  BY <1>1, <2>1 DEF TidyAt, Resting, Running, Waiting
  <2>6. QED  BY <1>1, <1>3, <2>1, <2>4, <2>5, CalmKeeps
<1>5. CASE Works(t)
  <2>1. /\ frame'[t].pc \in Running \ {"next"} /\ frame'[t].todo = frame[t].todo
        /\ frame'[t].done = frame[t].done /\ frame[t].todo # <<>>
        /\ AtRoot(frame'[t].checkpoint)
        /\ frame'[t].pc # "recover" => frame'[t].error = "none"
        /\ frame'[t].pc = "finish" => frame'[t].verdict = truth[Head(frame[t].todo)]
    BY <1>5 DEF Works
  <2>2. Progress(frame[t])'  BY <1>1, <1>2, <2>1, ZenonT(60) DEF Progress, Held
  <2>3. Threaded(t)'
    BY <1>1, <1>2, <2>1, <2>2 DEF Threaded, Running, Waiting
  <2>4. TidyAt(t)'  BY <1>1, <2>1 DEF TidyAt, Resting, Running, Waiting
  <2>5. QED  BY <1>1, <1>3, <2>1, <2>3, <2>4, CalmKeeps
<1>6. QED  BY <1>4, <1>5

\* A check ends: given up or answered.
LEMMA ChecksEndKeep ==
    ASSUME NEW t \in Threads, IInv, Calm(t), stage[t].at = "inside", Aborts(t) \/ Completes(t)
    PROVE  IInv'
<1>1. /\ Threaded(t) /\ TidyAt(t) /\ RingAt(t) /\ frame[t].pc \in Running
      /\ frame'[t].pc = "unlock" /\ Held(t) /\ frame[t] \in Frames
      /\ owned \in Ledgers /\ owned' \in Ledgers
      /\ stage' = stage /\ truth' = truth /\ drained' = drained
  <2>1. Threaded(t) /\ TidyAt(t) /\ RingAt(t)  BY Focus
  <2>2. frame[t].pc \in Running /\ frame'[t].pc = "unlock" /\ Held(t) /\ drained' = drained
    BY DEF Aborts, Completes, Running
  <2>3. QED  BY <2>1, <2>2 DEF IInv, Typed, Calm, session
<1>2. /\ AboutRequest(t)' /\ frame[t].id + 1 = owned.nextOperation /\ Progress(frame[t])
      /\ owned.started = owned.completed + owned.aborted + 1
  BY <1>1 DEF Threaded, AboutRequest, Held, Running, TidyAt
<1>3. /\ owned.started \in Nat /\ owned.completed \in Nat /\ owned.aborted \in Nat
      /\ "unlock" \notin Waiting \cup Running
  BY <1>1 DEF Ledgers, Waiting, Running
<1>4. CASE Aborts(t)
  <2>1. Threaded(t)'
    <3>1. frame'[t].outcome # "ok"  BY <1>4 DEF Aborts
    <3>2. QED  BY <1>1, <1>2, <1>3, <3>1 DEF Threaded
  <2>2. CASE frame'[t].error = "panic" /\ owned' = owned
    <3>1. TidyAt(t)'  BY <1>1, <1>3, <2>2 DEF TidyAt, Resting, Waiting
    <3>2. RingAt(t)'  BY <1>1, <1>3, <2>2 DEF RingAt
    <3>3. QED  BY <1>1, <1>3, <2>1, <2>2, <3>1, <3>2, CalmKeeps
  <2>3. CASE /\ frame'[t].error # "panic" /\ Recorded(owned, owned', frame[t], drained)
             /\ owned'.completed = owned.completed /\ owned'.aborted = owned.aborted + 1
    <3>1. poisoned' \/ AtRoot(tableau')  BY <1>4, <2>3 DEF Aborts
    <3>2. Booked'  BY <1>2, <1>3, <2>3, SMT DEF Booked, Recorded
    <3>3. TidyAt(t)'  BY <1>1, <1>3, <3>1, <3>2 DEF TidyAt
    <3>4. RingAt(t)'  BY <1>1, <1>2, <1>3, <2>3 DEF RingAt, Recorded
    <3>5. QED  BY <1>1, <1>3, <2>1, <2>3, <3>3, <3>4, CalmKeeps DEF Recorded
  <2>4. QED  BY <1>4, <2>2, <2>3 DEF Aborts
<1>5. CASE Completes(t)
  <2>1. /\ frame[t].pc = "next" /\ frame[t].todo = <<>> /\ frame'[t].answers = frame[t].done
        /\ owned'.started = owned.started /\ owned'.nextOperation = owned.nextOperation
        /\ owned'.completed = owned.completed + 1 /\ owned'.aborted = owned.aborted
        /\ Stream(owned', drained) /\ Older(owned', frame[t].id + 1)
        /\ UNCHANGED <<tableau, poisoned>> /\ owned'.present = owned.present
        /\ owned'.permanent \in {owned.permanent, truth[Permanent]}
    BY <1>5 DEF Completes
  <2>2. Answer(frame'[t].answers, stage[t].request.queries)
    <3>1. frame[t].asked = stage[t].request.queries  BY <1>1, <2>1 DEF Threaded, AboutRequest
    <3>2. frame[t].done \in Seq(Verdicts) /\ frame[t].asked \in Seq(Subjects)
      BY <1>1 DEF Frames
    <3>3. /\ Len(frame[t].done) + Len(frame[t].todo) = Len(frame[t].asked)
          /\ \A i \in 1 .. Len(frame[t].done) : frame[t].done[i] = truth[frame[t].asked[i]]
      BY <1>2 DEF Progress
    <3>4. frame[t].todo = <<>>  BY <2>1
    <3>5. Len(frame[t].todo) = 0 /\ Len(frame[t].done) \in Nat  BY <3>2, <3>4, SMT
    <3>6. Len(frame[t].done) = Len(frame[t].asked)  BY <3>3, <3>5, SMT
    <3>7. QED  BY <2>1, <3>1, <3>3, <3>6 DEF Answer
  <2>3. Answer(frame[t].answers, stage[t].request.queries)'  BY <1>1, <2>2 DEF Answer
  <2>4. Threaded(t)'
    <3>1. stage'[t].at = "inside"  BY <1>1
    <3>2. QED  BY <1>1, <1>2, <1>3, <2>3, <3>1 DEF Threaded
  <2>5. TidyAt(t)'
    <3>1. AtRoot(tableau')  BY <1>1, <2>1 DEF TidyAt
    <3>2. Booked'  BY <1>2, <1>3, <2>1, SMT DEF Booked
    <3>3. QED  BY <1>1, <1>3, <3>1, <3>2 DEF TidyAt
  <2>6. RingAt(t)'  BY <1>1, <1>2, <1>3, <2>1 DEF RingAt
  <2>7. QED  BY <1>1, <1>3, <2>1, <2>4, <2>5, <2>6, CalmKeeps
<1>6. QED  BY <1>4, <1>5

\* A call gives the mutex back and ends.
LEMMA ExitsKeep ==
    ASSUME NEW t \in Threads, IInv, Calm(t), stage[t].at = "inside", Exits(t) \/ Ends(t)
    PROVE  IInv'
<1>1. /\ Threaded(t) /\ TidyAt(t) /\ RingAt(t) /\ stage' = stage /\ truth' = truth
      /\ UNCHANGED <<owned, tableau, drained>> /\ (poisoned => poisoned')
  <2>1. Threaded(t) /\ TidyAt(t) /\ RingAt(t)  BY Focus
  <2>2. UNCHANGED <<owned, tableau, drained>> /\ (poisoned => poisoned')  BY SMT DEF Exits, Ends
  <2>3. QED  BY <2>1, <2>2 DEF Calm, session
<1>2. frame'[t].pc \notin Waiting \cup Running /\ frame'[t].pc # "next"
  BY DEF Exits, Ends, Waiting, Running
<1>3. RingAt(t)'  BY <1>1, <1>2 DEF RingAt
<1>4. TidyAt(t)'
  <2>1. Resting(t)' /\ ~poisoned' => Resting(t) /\ ~poisoned
    BY <1>1 DEF Exits, Ends, Resting, Waiting
  <2>2. QED  BY <1>1, <1>2, <2>1 DEF TidyAt, Booked
<1>5. Threaded(t)'
  <2>1. frame'[t].pc # "idle" => AboutRequest(t)'
    BY <1>1 DEF Exits, Ends, Threaded, AboutRequest, Held
  <2>2. frame'[t].outcome = "ok" =>
           /\ frame[t].outcome = "ok" /\ frame'[t].answers = frame[t].answers
           /\ frame[t].pc \notin Waiting \cup Running
    BY DEF Exits, Ends, Waiting, Running
  <2>3. /\ frame'[t].outcome = "ok" /\ stage[t].request.kind \in Checks
        => Answer(frame'[t].answers, stage[t].request.queries)
    BY <1>1, <2>2 DEF Threaded
  <2>4. /\ frame'[t].outcome = "ok" /\ stage'[t].request.kind \in Checks
        => Answer(frame[t].answers, stage[t].request.queries)'
    BY <1>1, <2>3 DEF Answer
  <2>5. stage'[t].at = "inside"  BY <1>1
  <2>6. QED  BY <1>2, <2>1, <2>4, <2>5 DEF Threaded, Running
<1>6. QED  BY <1>1, <1>2, <1>3, <1>4, <1>5, CalmKeeps

\* Every step of a scheduler call keeps the invariant.
LEMMA InsideKeeps ==
    ASSUME NEW t \in Threads, IInv, Inside(t)
    PROVE  IInv'
<1>1. Calm(t) /\ Effects(t) /\ stage[t].at = "inside"  BY InsideEffect DEF Inside
<1>2. QED  BY <1>1, WaitsKeep, StartsKeep, WorksKeep, ChecksEndKeep, ExitsKeep DEF Effects
=============================================================================
