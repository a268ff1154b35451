---------------------------- MODULE SessionProofs -----------------------------
(***************************************************************************)
(* The invariant of SessionLedger is inductive, and what follows from it:  *)
(* Isolation, TruthfulAnswers and EventStream hold in every state, and the *)
(* session implements SerialSession.                                       *)
(***************************************************************************)
EXTENDS SessionSteps

\* The leaves are first-order: Zenon proves them, and SMT those that need arithmetic,
\* sequences, records or a wide case split.
USE Zenon

-----------------------------------------------------------------------------
(***************************************************************************)
(* The steps of NativeSession around the scheduler call.                   *)
(***************************************************************************)
\* Thread t, and it alone, is now at this place, with this outcome and these answers.
Placed(t, at, outcome, answers) ==
    /\ stage' \in [Threads -> Stages] /\ \A u \in Threads : u # t => stage'[u] = stage[u]
    /\ stage'[t].at = at /\ stage'[t].outcome = outcome /\ stage'[t].answers = answers

\* A step that moves a call to a place of the session, with a new outcome or the old one.
LEMMA SettlePlaces ==
    ASSUME NEW t \in Threads, Typed, NEW at \in {"body", "inside", "leave"}, NEW x \in Outcomes,
           Settle(t, at, x) \/ (To(t, at) /\ x = stage[t].outcome)
    PROVE  Placed(t, at, x, stage[t].answers) /\ stage'[t].request = stage[t].request
<1>1. stage \in [Threads -> Stages]  BY DEF Typed
<1>2. PICK g \in Stages : g = stage[t]  BY <1>1
<1> DEFINE h == [g EXCEPT !.at = at, !.outcome = x]
<1>3. /\ h \in Stages /\ h.at = at /\ h.outcome = x /\ h.answers = g.answers
      /\ h.request = g.request
  BY DEF Stages
<1>4. stage' = [stage EXCEPT ![t] = h]
  <2>1. CASE Settle(t, at, x)  BY <1>1, <1>2, <2>1 DEF Settle
  <2>2. CASE To(t, at) /\ x = stage[t].outcome
    <3>1. h = [g EXCEPT !.at = at]  BY <1>2, <2>2 DEF Stages
    <3>2. QED  BY <1>1, <1>2, <2>2, <3>1 DEF To
  <2>3. QED  BY <2>1, <2>2
<1> HIDE DEF h
<1>5. QED  BY <1>1, <1>2, <1>3, <1>4 DEF Placed

\* What such a step keeps of the layers about the scheduler.
LEMMA SessionKeeps ==
    ASSUME IInv, UNCHANGED <<closed, poisoned, owned, tableau, truth, drained>>,
           \A u \in Threads : \/ frame'[u] = frame[u]
                              \/ frame[u].pc = "idle" /\ frame'[u].pc \in {"idle", "busy"},
           Typed', Alone', \A u \in Threads : Threaded(u)'
    PROVE  IInv'
<1>1. \A u \in Threads : /\ Resting(u)' => Resting(u)
                         /\ frame'[u].pc \in Running => frame'[u] = frame[u]
                         /\ frame'[u].pc = "next" => frame'[u] = frame[u]
  BY DEF Resting, Waiting, Running
<1>2. Tidy'  BY <1>1 DEF IInv, Tidy, AtRoot, Booked
<1>3. Ring'  BY <1>1 DEF IInv, Ring
<1>4. Cached'  BY DEF IInv, Cached
<1>5. QED  BY <1>2, <1>3, <1>4 DEF IInv

\* What is known of the calls does not change when they, the verdicts and the ledger do not.
LEMMA ThreadedSame ==
    ASSUME IInv, UNCHANGED <<frame, stage, truth, owned>>
    PROVE  \A u \in Threads : Threaded(u)'
<1> SUFFICES ASSUME NEW u \in Threads PROVE Threaded(u)'  OBVIOUS
<1>1. Threaded(u)  BY DEF IInv
<1>2. frame' = frame /\ stage' = stage /\ truth' = truth /\ owned' = owned  OBVIOUS
<1>3. (AboutRequest(u) => AboutRequest(u)') /\ (Progress(frame[u]) => Progress(frame[u])')
  BY <1>2 DEF AboutRequest, Progress
<1>4. /\ Answer(frame[u].answers, stage[u].request.queries) =>
            Answer(frame[u].answers, stage[u].request.queries)'
      /\ Answer(stage[u].answers, stage[u].request.queries) =>
            Answer(stage[u].answers, stage[u].request.queries)'
      /\ AtRoot(frame[u].checkpoint) => AtRoot(frame[u].checkpoint)'
  BY <1>2 DEF Answer, AtRoot
<1>5. QED  BY <1>1, <1>2, <1>3, <1>4, SMTT(30) DEF Threaded

\* The signals: an interrupt, a deadline, a reset of the control.
LEMMA SignalKeeps ==
    ASSUME IInv, SessionInterrupt \/ SessionResetControl \/ (Expire /\ UNCHANGED session)
    PROVE  IInv'
<1>1. UNCHANGED <<gate, owned, tableau, truth, frame, drained, session>>
  BY DEF SessionInterrupt, SessionResetControl, Expire, Interrupt, ResetControl
<1>2. control' \in Controls
  <2>1. control \in Controls  BY DEF IInv, Typed
  <2>2. control' \in {[control EXCEPT !.interrupted = TRUE], [control EXCEPT !.expired = TRUE],
                      [interrupted |-> FALSE, expired |-> FALSE, exceeded |-> FALSE]}
    BY DEF SessionInterrupt, SessionResetControl, Expire, Interrupt, ResetControl
  <2>3. /\ [control EXCEPT !.interrupted = TRUE] \in Controls
        /\ [control EXCEPT !.expired = TRUE] \in Controls
        /\ [interrupted |-> FALSE, expired |-> FALSE, exceeded |-> FALSE] \in Controls
    BY <2>1 DEF Controls
  <2>4. QED  BY <2>2, <2>3
<1>3. Typed'  BY <1>1, <1>2, SMTT(30) DEF IInv, Typed, gate, session
<1>4. Alone'  BY <1>1, SMT DEF IInv, Alone, gate, session
<1>5. \A u \in Threads : Threaded(u)'
  <2>1. UNCHANGED <<frame, stage, truth, owned>>  BY <1>1 DEF session
  <2>2. QED  BY <2>1, ThreadedSame
<1>6. QED  BY <1>1, <1>3, <1>4, <1>5, SessionKeeps DEF gate

\* A call enters the session.
LEMMA PreflightKeeps ==
    ASSUME NEW t \in Threads, IInv, SessionPreflight(t)
    PROVE  IInv'
<1>1. PICK r \in SessionRequests :
         /\ ~sessionClosed /\ ~sessionBusy /\ stage[t].at = "outside"
         /\ stage' = [stage EXCEPT ![t] = [Outside EXCEPT !.at = "slot", !.request = r]]
         /\ sessionBusy' = TRUE /\ gil' = t
         /\ UNCHANGED <<scheduler, sessionClosed, sessionPoisoned, slot, present>>
  BY DEF SessionPreflight
<1> DEFINE h == [Outside EXCEPT !.at = "slot", !.request = r]
<1>2. h \in Stages /\ h.at = "slot" /\ h.outcome = "none" /\ h.request = r
  <2>1. "none" \in Outcomes /\ <<>> \in Seq(Verdicts)  BY SMT DEF Outcomes, Errors
  <2>2. QED  BY <2>1 DEF Outside, Stages
<1>3. stage' = [stage EXCEPT ![t] = h]  BY <1>1
<1> HIDE DEF h
<1>4. stage \in [Threads -> Stages]  BY DEF IInv, Typed
<1>5. Placed(t, "slot", "none", h.answers)  BY <1>2, <1>3, <1>4 DEF Placed
<1>6. \A u \in Threads : stage[u].at = "outside"  BY <1>1 DEF IInv, Alone
<1>7. \A u \in Threads : frame[u].pc = "idle" /\ slot # u  BY <1>6 DEF IInv, Alone
<1>8. Typed'  BY <1>1, <1>5 DEF IInv, Typed, Placed, scheduler, gate
<1>9. Alone'
  <2>1. \A u \in Threads : stage'[u].at = IF u = t THEN "slot" ELSE "outside"
    BY <1>5, <1>6 DEF Placed
  <2>2. QED  BY <1>1, <1>7, <2>1, SMTT(30) DEF IInv, Alone, scheduler, gate
<1>10. \A u \in Threads : Threaded(u)'
  <2>1. \A u \in Threads : stage'[u].at \in {"slot", "outside"} /\ frame'[u].pc = "idle"
    BY <1>1, <1>5, <1>6, <1>7 DEF Placed, scheduler
  <2>2. QED  BY <2>1, SMT DEF Threaded, Waiting, Running
<1>11. QED  BY <1>1, <1>8, <1>9, <1>10, SessionKeeps DEF scheduler, gate

\* Where t is decides what is known of the others.
LEMMA StageAlone ==
    ASSUME NEW t \in Threads, IInv, stage[t].at # "outside",
           NEW at \in {"body", "inside", "leave"}, NEW x, NEW a,
           Placed(t, at, x, a), stage'[t].request = stage[t].request,
           UNCHANGED <<closed, poisoned, owned, sessionBusy>>, slot' = t,
           present' <=> ~sessionClosed', sessionClosed' => at = "leave",
           at # "leave" => stage[t].request.kind # "close",
           at = "inside" => stage[t].request.kind # "delta",
           \A u \in Threads : u # t => frame'[u] = frame[u],
           frame'[t].pc # "idle" => at = "inside" /\ ~poisoned
    PROVE  /\ Alone'
           /\ \A u \in Threads : u # t => stage'[u].at = "outside" /\ frame'[u].pc = "idle"
<1>1. \A u \in Threads : u # t => stage[u].at = "outside" /\ frame[u].pc = "idle"
  BY Focus DEF Idle
<1>2. /\ sessionBusy /\ ~closed /\ owned.present  BY DEF IInv, Alone
<1>3. \A u \in Threads : u # t => stage'[u].at = "outside" /\ frame'[u].pc = "idle"
  BY <1>1, SMT DEF Placed
<1>4. stage'[t].at = at  BY DEF Placed
<1>5. \A u \in Threads :
         /\ stage'[u].at # "outside" => u = t
         /\ stage'[u].at \in {"body", "inside", "leave"} <=> slot' = u
         /\ stage'[u].at \in {"body", "inside"} => stage'[u].request.kind # "close"
         /\ stage'[u].at = "inside" => stage'[u].request.kind # "delta"
         /\ sessionClosed' => stage'[u].at \in {"outside", "leave"}
         /\ frame'[u].pc # "idle" => stage'[u].at = "inside" /\ ~poisoned'
  BY <1>3, <1>4
<1>6. Alone'  BY <1>2, <1>5, SMTT(30) DEF Alone, Waiting, Running
<1>7. QED  BY <1>3, <1>6

\* The session mutex is taken.
LEMMA EnterKeeps ==
    ASSUME NEW t \in Threads, IInv, EnterSlot(t)
    PROVE  IInv'
<1>1. /\ stage[t].at = "slot" /\ slot' = t /\ frame[t].pc = "idle" /\ present /\ ~sessionClosed
      /\ UNCHANGED <<scheduler, calls, sessionBusy, sessionPoisoned>> /\ Typed
      /\ frame' = frame /\ gil' \in Threads \cup {Nobody}
  <2>1. stage[t].at = "slot" /\ slot' = t
        /\ UNCHANGED <<scheduler, calls, sessionBusy, sessionPoisoned>>
    BY DEF EnterSlot
  <2>2. frame[t].pc = "idle" /\ present /\ ~sessionClosed  BY <2>1 DEF IInv, Alone
  <2>3. gil' \in Threads \cup {Nobody}  BY <2>2 DEF EnterSlot, CloseSlot, IInv, Typed
  <2>4. QED  BY <2>1, <2>2, <2>3 DEF IInv, scheduler
<1>2. \/ /\ stage[t].request.kind = "close" /\ present' = FALSE /\ sessionClosed' = TRUE
         /\ Settle(t, "leave", "ok")
      \/ /\ stage[t].request.kind # "close" /\ UNCHANGED <<present, sessionClosed>>
         /\ To(t, "body")
  BY <1>1 DEF EnterSlot, CloseSlot
<1>3. PICK at \in {"body", "leave"}, x \in Outcomes :
         /\ Placed(t, at, x, stage[t].answers) /\ stage'[t].request = stage[t].request
         /\ \/ /\ at = "leave" /\ stage[t].request.kind = "close"
               /\ present' = FALSE /\ sessionClosed' = TRUE
            \/ /\ at = "body" /\ stage[t].request.kind # "close"
               /\ UNCHANGED <<present, sessionClosed>>
  <2>1. "ok" \in Outcomes /\ stage[t].outcome \in Outcomes
    BY <1>1 DEF Outcomes, Typed, Stages
  <2>2. QED  BY <1>1, <1>2, <2>1, SettlePlaces
<1>4. Typed'  BY <1>1, <1>3, ZenonT(60) DEF Typed, Placed, scheduler, gate
<1>5. /\ Alone'
      /\ \A u \in Threads : u # t => stage'[u].at = "outside" /\ frame'[u].pc = "idle"
  <2>1. /\ UNCHANGED <<closed, poisoned, owned, sessionBusy>> /\ at \in {"body", "inside", "leave"}
        /\ at # "leave" => stage[t].request.kind # "close"
        /\ at # "inside" /\ stage[t].at # "outside" /\ frame'[t].pc = "idle"
        /\ \A u \in Threads : u # t => frame'[u] = frame[u]
    BY <1>1, <1>3 DEF scheduler, gate
  <2>2. (present' <=> ~sessionClosed') /\ (sessionClosed' => at = "leave")
    <3>1. \/ present' = FALSE /\ sessionClosed' = TRUE /\ at = "leave"
          \/ present' = present /\ sessionClosed' = sessionClosed
      BY <1>3
    <3>2. present = TRUE /\ sessionClosed = FALSE  BY <1>1 DEF Typed
    <3>3. \/ present' = FALSE /\ sessionClosed' = TRUE /\ at = "leave"
          \/ present' = TRUE /\ sessionClosed' = FALSE
      BY <3>1, <3>2
    <3>4. QED  BY <3>3
  <2>3. QED  BY <1>1, <1>3, <2>1, <2>2, StageAlone
<1>6. \A u \in Threads : Threaded(u)'
  <2>1. Threaded(t)'  BY <1>1, <1>3 DEF Threaded, Placed, Waiting, Running, Checks
  <2>2. \A u \in Threads : u # t => Threaded(u)'  BY <1>5, SMT DEF Threaded, Waiting, Running
  <2>3. QED  BY <2>1, <2>2
<1>7. QED  BY <1>1, <1>4, <1>5, <1>6, SessionKeeps DEF scheduler, gate

\* The frame a scheduler call starts with, or the refusal of a poisoned scheduler.
LEMMA PreflightFrame ==
    ASSUME NEW t \in Threads, IInv, NEW r \in SessionRequests, Preflight(t, r),
           r.kind \notin {"close", "delta"}
    PROVE  /\ Others(t) /\ UNCHANGED <<gate, owned, tableau, truth, control, drained>>
           /\ \/ frame'[t].pc = "idle" /\ frame'[t].outcome = "poisoned"
              \/ /\ ~poisoned /\ frame'[t].pc = "busy" /\ frame'[t].kind = r.kind
                 /\ frame'[t].asked = r.queries /\ frame'[t].todo = r.queries
                 /\ frame'[t].total = IF r.kind = "reset" THEN 1 ELSE Len(r.queries)
                 /\ frame'[t].done = <<>> /\ frame'[t].error = "none"
<1>1. Typed /\ ~closed  BY DEF IInv, Alone
<1>2. UNCHANGED <<gate, owned, tableau, truth, control, drained>>  BY DEF Preflight
<1>3. CASE poisoned
  <2>1. Finish(t, "poisoned", <<>>)  BY <1>1, <1>3 DEF Preflight
  <2>2. "poisoned" \in Outcomes /\ <<>> \in Seq(Verdicts)  BY SMT DEF Outcomes
  <2>3. Others(t) /\ frame'[t].pc = "idle" /\ frame'[t].outcome = "poisoned"
    BY <1>1, <2>1, <2>2, FinishFrame
  <2>4. QED  BY <1>2, <2>3
<1>4. CASE ~poisoned
  <2>1. r.kind \in Checks \cup {"reset", "drain"} /\ r.queries \in Seq(Subjects)
    BY RequestsFit
  <2>2. PICK k \in Checks \cup {"reset", "drain"} : k = r.kind  BY <2>1
  <2>3. PICK q \in Seq(Subjects) : q = r.queries  BY <2>1
  <2>4. PICK n \in Nat : n = IF r.kind = "reset" THEN 1 ELSE Len(r.queries)  BY <2>1, SMTT(30)
  <2>5. PICK i \in Frames : i = IdleFrame /\ i.done = <<>> /\ i.error = "none"  BY IdleFields
  <2> DEFINE g == [i EXCEPT !.kind = k, !.todo = q, !.asked = q, !.total = n]
  <2>6. /\ g \in Frames /\ g.kind = k /\ g.todo = q /\ g.asked = q /\ g.total = n
        /\ g.done = <<>> /\ g.error = "none"
    BY <2>5, ZenonT(60) DEF Frames
  <2>7. Goto(t, g, "busy")  BY <1>1, <1>4, <2>2, <2>3, <2>4, <2>5 DEF Preflight
  <2>8. "busy" \in PCs  BY DEF PCs, Waiting
  <2> HIDE DEF g
  <2>9. /\ Others(t) /\ frame'[t].pc = "busy" /\ frame'[t].kind = k /\ frame'[t].asked = q
        /\ frame'[t].todo = q /\ frame'[t].total = n /\ frame'[t].done = <<>>
        /\ frame'[t].error = "none"
    BY <1>1, <2>6, <2>7, <2>8, GotoFrame, SMTT(30)
  <2>10. QED  BY <1>2, <1>4, <2>2, <2>3, <2>4, <2>9, ZenonT(60)
<1>5. QED  BY <1>3, <1>4

\* The body up to the scheduler, and the scheduler call.
LEMMA BodyKeeps ==
    ASSUME NEW t \in Threads, IInv, Body(t)
    PROVE  IInv'
<1>1. /\ stage[t].at = "body" /\ slot' = t /\ Typed /\ stage[t].request \in SessionRequests
      /\ stage[t].request.kind # "close" /\ stage[t].outcome \in Outcomes
      /\ frame[t].pc = "idle"
      /\ UNCHANGED <<calls, gil, sessionClosed, sessionBusy, sessionPoisoned, slot, present>>
  <2>1. stage[t].at = "body"
        /\ UNCHANGED <<calls, gil, sessionClosed, sessionBusy, sessionPoisoned, slot, present>>
    BY DEF Body
  <2>2. slot = t /\ stage[t].request.kind # "close" /\ frame[t].pc = "idle"
    BY <2>1 DEF IInv, Alone
  <2>3. QED  BY <2>1, <2>2 DEF IInv, Typed, Stages
<1>2. PICK at \in {"inside", "leave"}, x \in Outcomes :
         /\ Placed(t, at, x, stage[t].answers) /\ stage'[t].request = stage[t].request
         /\ \/ /\ at = "leave" /\ UNCHANGED scheduler
               /\ x = "ok" => stage[t].request.kind = "delta"
            \/ /\ at = "inside" /\ stage[t].request.kind # "delta"
               /\ Preflight(t, stage[t].request)
  <2>1. Poll \in Errors \ {"panic"} /\ {"wire", "panic", "ok"} \subseteq Outcomes
        /\ "ok" \notin Errors /\ Errors \subseteq Outcomes
    BY <1>1, PollValue DEF Outcomes, Errors
  <2>2. CASE \E x \in Outcomes : /\ Settle(t, "leave", x) /\ UNCHANGED scheduler
                                 /\ x = "ok" => stage[t].request.kind = "delta"
    BY <1>1, <2>2, SettlePlaces
  <2>3. CASE /\ To(t, "inside") /\ stage[t].request.kind # "delta"
             /\ Preflight(t, stage[t].request)
    BY <1>1, <2>3, SettlePlaces
  <2>4. QED  BY <2>1, <2>2, <2>3 DEF Body
<1>3. /\ UNCHANGED <<gate, owned, tableau, truth, drained>> /\ control' = control
      /\ frame' \in [Threads -> Frames] /\ \A u \in Threads : u # t => frame'[u] = frame[u]
      /\ \/ /\ frame'[t].pc = "idle"
            /\ \/ at = "leave" /\ (x = "ok" => stage[t].request.kind = "delta")
               \/ at = "inside" /\ frame'[t].outcome = "poisoned"
         \/ /\ at = "inside" /\ ~poisoned /\ frame'[t].pc = "busy"
            /\ frame'[t].kind = stage[t].request.kind
            /\ frame'[t].asked = stage[t].request.queries
            /\ frame'[t].todo = stage[t].request.queries
            /\ frame'[t].total = IF stage[t].request.kind = "reset" THEN 1
                                 ELSE Len(stage[t].request.queries)
            /\ frame'[t].done = <<>> /\ frame'[t].error = "none"
  <2>1. CASE /\ at = "leave" /\ UNCHANGED scheduler
             /\ x = "ok" => stage[t].request.kind = "delta"
    BY <1>1, <2>1 DEF scheduler, Typed
  <2>2. CASE /\ at = "inside" /\ stage[t].request.kind # "delta"
             /\ Preflight(t, stage[t].request)
    <3>1. stage[t].request.kind \notin {"close", "delta"}  BY <1>1, <2>2, ZenonT(30)
    <3>2. QED  BY <1>1, <2>2, <3>1, PreflightFrame, SMTT(30) DEF Others
  <2>3. QED  BY <1>2, <2>1, <2>2
<1>4. Typed'  BY <1>1, <1>2, <1>3, SMTT(30) DEF Typed, Placed, gate
<1>5. /\ Alone'
      /\ \A u \in Threads : u # t => stage'[u].at = "outside" /\ frame'[u].pc = "idle"
  <2>1. /\ UNCHANGED <<closed, poisoned, owned, sessionBusy>> /\ at \in {"body", "inside", "leave"}
        /\ at = "inside" => stage[t].request.kind # "delta"
        /\ stage[t].at # "outside" /\ (frame'[t].pc # "idle" => at = "inside" /\ ~poisoned)
    BY <1>1, <1>2, <1>3 DEF gate
  <2>2. (present' <=> ~sessionClosed') /\ (sessionClosed' => at = "leave")
    <3>1. present = TRUE /\ sessionClosed = FALSE  BY <1>1 DEF IInv, Alone, Typed
    <3>2. present' = TRUE /\ sessionClosed' = FALSE  BY <1>1, <3>1
    <3>3. QED  BY <3>2
  <2>3. QED  BY <1>1, <1>2, <1>3, <2>1, <2>2, StageAlone
<1>6. \A u \in Threads : Threaded(u)'
  <2>1. stage'[t].at = at /\ stage'[t].outcome = x /\ stage'[t].request = stage[t].request
    BY <1>2 DEF Placed
  <2>2. ASSUME frame'[t].pc = "idle" PROVE Threaded(t)'
    <3>1. /\ frame'[t].pc \notin Waiting \cup Running /\ frame'[t].pc # "finish"
          /\ (at = "leave" => x # "ok" \/ stage[t].request.kind \notin Checks)
          /\ (at = "inside" => frame'[t].outcome # "ok")
      BY <1>2, <1>3, <2>2 DEF Waiting, Running, Checks
    <3>2. QED  BY <2>1, <2>2, <3>1 DEF Threaded
  <2>3. ASSUME frame'[t].pc # "idle" PROVE Threaded(t)'
    <3>1. AboutRequest(t)'  BY <1>3, <2>1, <2>3 DEF AboutRequest
    <3>2. /\ frame'[t].pc \notin Running /\ frame'[t].pc \in Waiting /\ frame'[t].pc # "finish"
          /\ frame'[t].todo = frame'[t].asked /\ frame'[t].done = <<>>
          /\ frame'[t].error = "none" /\ stage'[t].at # "leave"
      BY <1>3, <2>1, <2>3 DEF Waiting, Running
    <3>3. QED  BY <2>3, <3>1, <3>2 DEF Threaded
  <2>4. \A u \in Threads : u # t => Threaded(u)'  BY <1>5 DEF Threaded, Waiting, Running
  <2>5. QED  BY <2>2, <2>3, <2>4
<1>7. QED  BY <1>1, <1>3, <1>4, <1>5, <1>6, SessionKeeps DEF gate

\* The scheduler returned: an answer survives one more poll and is encoded.
LEMMA ReturnKeeps ==
    ASSUME NEW t \in Threads, IInv, Return(t)
    PROVE  IInv'
<1>1. /\ Typed /\ stage[t].at = "inside" /\ frame[t].pc = "idle" /\ slot' = t
      /\ stage[t] \in Stages /\ frame[t] \in Frames /\ Threaded(t)
      /\ UNCHANGED <<gate, owned, tableau, truth, control, drained, calls, gil, sessionClosed,
                     sessionBusy, sessionPoisoned, slot, present>>
  <2>1. stage[t].at = "inside" /\ frame[t].pc = "idle"
        /\ UNCHANGED <<gate, owned, tableau, truth, control, drained, calls, gil, sessionClosed,
                       sessionBusy, sessionPoisoned, slot, present>>
    BY DEF Return
  <2>2. slot = t  BY <2>1 DEF IInv, Alone
  <2>3. QED  BY <2>1, <2>2 DEF IInv, Typed
<1>2. PICK x \in Outcomes, a \in Seq(Verdicts) :
         /\ x = "ok" => frame[t].outcome = "ok" /\ a = frame[t].answers
         /\ stage' = [stage EXCEPT ![t].at = "leave", ![t].outcome = x, ![t].answers = a]
  <2>1. Poll \in Errors \ {"panic"} /\ frame[t].outcome \in Outcomes
        /\ frame[t].answers \in Seq(Verdicts) /\ <<>> \in Seq(Verdicts)
    <3>1. <<>> \in Seq(Verdicts)  BY SMT
    <3>2. frame[t].outcome \in Outcomes /\ frame[t].answers \in Seq(Verdicts)
      BY <1>1 DEF Frames
    <3>3. QED  BY <1>1, <3>1, <3>2, PollValue
  <2>2. Poll \in Outcomes /\ Poll # "ok"  BY <2>1 DEF Outcomes, Errors
  <2>3. CASE frame[t].outcome = "ok" /\ (Detaches(stage[t].request.kind) => Poll = "none")
    BY <2>1, <2>3 DEF Return
  <2>4. CASE frame[t].outcome # "ok"  BY <2>1, <2>4 DEF Return
  <2>5. CASE frame[t].outcome = "ok" /\ ~(Detaches(stage[t].request.kind) => Poll = "none")
    BY <2>1, <2>2, <2>5 DEF Return
  <2>6. QED  BY <2>3, <2>4, <2>5
<1>3. Placed(t, "leave", x, a) /\ stage'[t].request = stage[t].request
  BY <1>1, <1>2 DEF Placed, Typed, Stages
<1>4. /\ frame' \in [Threads -> Frames] /\ \A u \in Threads : u # t => frame'[u] = frame[u]
      /\ frame'[t].pc = "idle"
  <2>1. PICK i \in Frames : i = IdleFrame /\ i.pc = "idle"  BY IdleFields
  <2>2. frame' = [frame EXCEPT ![t] = i]  BY <2>1 DEF Return
  <2>3. QED  BY <1>1, <2>1, <2>2 DEF Typed
<1>5. Typed'  BY <1>1, <1>3, <1>4, SMTT(30) DEF Typed, Placed, gate
<1>6. /\ Alone'
      /\ \A u \in Threads : u # t => stage'[u].at = "outside" /\ frame'[u].pc = "idle"
  <2>1. /\ UNCHANGED <<closed, poisoned, owned, sessionBusy>> /\ stage[t].at # "outside"
    BY <1>1 DEF gate
  <2>2. present' <=> ~sessionClosed'
    BY <1>1 DEF IInv, Alone
  <2>3. QED  BY <1>1, <1>3, <1>4, <2>1, <2>2, StageAlone
<1>7. \A u \in Threads : Threaded(u)'
  <2>1. stage'[t].at = "leave" /\ stage'[t].outcome = x /\ stage'[t].answers = a
        /\ truth' = truth
    BY <1>1, <1>3 DEF Placed
  <2>2. frame'[t].pc \notin Waiting \cup Running /\ frame'[t].pc # "finish"
        /\ frame[t].pc \notin Waiting \cup Running
    BY <1>1, <1>4 DEF Waiting, Running
  <2>3. x = "ok" /\ stage[t].request.kind \in Checks => Answer(a, stage[t].request.queries)
    BY <1>1, <1>2, <2>2 DEF Threaded
  <2>4. x = "ok" /\ stage[t].request.kind \in Checks => Answer(a, stage[t].request.queries)'
    BY <2>1, <2>3, <1>3 DEF Answer
  <2>5. Threaded(t)'
    BY <1>3, <1>4, <2>1, <2>2, <2>4 DEF Threaded, Answer
  <2>6. \A u \in Threads : u # t => Threaded(u)'  BY <1>6 DEF Threaded, Waiting, Running
  <2>7. QED  BY <2>5, <2>6
<1>8. QED  BY <1>1, <1>4, <1>5, <1>6, <1>7, SessionKeeps DEF gate

\* The thread leaves the session: the mutex, the busy flag and the gil are given back.
LEMMA LeaveKeeps ==
    ASSUME NEW t \in Threads, IInv, Leave(t)
    PROVE  IInv'
<1>1. /\ Typed /\ stage[t].at = "leave" /\ slot' = Nobody /\ sessionBusy' = FALSE /\ gil' = Nobody
      /\ stage' = [stage EXCEPT ![t] = Outside]
      /\ sessionPoisoned' = (sessionPoisoned \/ stage[t].outcome = "panic")
      /\ UNCHANGED <<scheduler, calls, sessionClosed, present>>
  BY DEF Leave, IInv
<1>2. UNCHANGED <<closed, busy, poisoned, mutex, owned, tableau, truth, control, frame, drained>>
  BY <1>1 DEF scheduler, gate
<1>3. \A u \in Threads : u # t => stage[u].at = "outside"
  BY <1>1 DEF IInv, Alone
<1>4. \A u \in Threads : frame[u].pc = "idle"
  BY <1>1, <1>3 DEF IInv, Alone
<1>5. Outside \in Stages /\ Outside.at = "outside"
  BY SMT DEF Outside, Stages, SessionRequests, Outcomes, Errors
<1>6. stage' \in [Threads -> Stages] /\ \A u \in Threads : stage'[u].at = "outside"
  BY <1>1, <1>3, <1>5 DEF Typed
<1>7. Typed'  BY <1>1, <1>2, <1>6 DEF Typed
<1>8. Alone'
  <2>1. \A u \in Threads : slot' # u  BY <1>1, SchedulerAssumption
  <2>2. ~closed' /\ owned'.present /\ (present' <=> ~sessionClosed')
    BY <1>1, <1>2 DEF IInv, Alone
  <2>3. QED  BY <1>2, <1>4, <1>6, <2>1, <2>2 DEF Alone, Waiting, Running
<1>9. \A u \in Threads : Threaded(u)'
  BY <1>2, <1>4, <1>6 DEF Threaded, Waiting, Running
<1>10. QED  BY <1>2, <1>7, <1>8, <1>9, SessionKeeps

\* The session starts open, idle and at rest.
LEMMA InitKeeps == SessionInit => IInv
<1> SUFFICES ASSUME SessionInit PROVE IInv  OBVIOUS
<1>1. IdleFrame \in Frames /\ IdleFrame.pc = "idle"  BY IdleFields
<1>2. Outside \in Stages /\ Outside.at = "outside"
  BY SMT DEF Outside, Stages, SessionRequests, Outcomes, Errors
<1>3. frame \in [Threads -> Frames] /\ stage \in [Threads -> Stages]
      /\ \A t \in Threads : frame[t].pc = "idle" /\ stage[t].at = "outside"
  BY <1>1, <1>2 DEF SessionInit, Init
<1>4. /\ closed = FALSE /\ busy = FALSE /\ poisoned = FALSE /\ mutex = Nobody /\ gil = Nobody
      /\ slot = Nobody /\ present = TRUE /\ sessionClosed = FALSE /\ sessionBusy = FALSE
      /\ sessionPoisoned = FALSE /\ drained = 0 /\ tableau = Root
      /\ truth \in [Subjects -> Verdicts]
      /\ truth[Permanent] = "unsat" => \A q \in Queries : truth[q] = "unsat"
  BY DEF SessionInit, Init
<1>5. /\ owned \in Ledgers /\ owned.present /\ owned.permanent = "unknown" /\ owned.started = 0
      /\ owned.completed = 0 /\ owned.aborted = 0 /\ owned.events = <<>> /\ owned.dropped = 0
      /\ owned.nextOperation = 1 /\ owned.nextSequence = 1
  <2>1. <<>> \in Seq(Events)  BY SMT
  <2>2. PICK e \in Seq(Events) : e = <<>>  BY <2>1
  <2>3. owned = [present |-> TRUE, permanent |-> "unknown", started |-> 0, completed |-> 0,
                 aborted |-> 0, events |-> e, dropped |-> 0, nextOperation |-> 1,
                 nextSequence |-> 1]
    BY <2>2 DEF SessionInit, Init
  <2>4. QED  BY <2>2, <2>3 DEF Ledgers
<1>6. control \in Controls /\ Root \in Tableaux /\ AtRoot(Root)
  BY DEF SessionInit, Init, Controls, Tableaux, Root, AtRoot, Subjects
<1>7. Typed  BY <1>3, <1>4, <1>5, <1>6 DEF Typed
<1>8. Alone
  <2>1. \A t \in Threads : slot # t  BY <1>4, SchedulerAssumption
  <2>2. QED  BY <1>3, <1>4, <1>5, <2>1 DEF Alone, Waiting, Running
<1>9. \A t \in Threads : Threaded(t)  BY <1>3 DEF Threaded, Waiting, Running
<1>10. Tidy  BY <1>3, <1>4, <1>5, <1>6, SMTT(30) DEF Tidy, Booked, Running
<1>11. Cached  BY <1>4, <1>5 DEF Cached
<1>12. Ring
  <2>1. Stream(owned, drained)
    BY <1>4, <1>5, SchedulerAssumption, SMTT(30) DEF Stream, Chained
  <2>2. Older(owned, owned.nextOperation)  BY <1>5, SMT DEF Older
  <2>3. QED  BY <1>3, <2>1, <2>2 DEF Ring, Running
<1>13. QED  BY <1>7, <1>8, <1>9, <1>10, <1>11, <1>12 DEF IInv

\* A step of the session keeps the invariant.
LEMMA NextKeeps == IInv /\ [SessionNext]_sessionVars => IInv'
<1> SUFFICES ASSUME IInv, [SessionNext]_sessionVars PROVE IInv'  OBVIOUS
<1>1. CASE UNCHANGED sessionVars
  <2>1. /\ UNCHANGED <<closed, busy, poisoned, mutex, owned, tableau, truth, control>>
        /\ UNCHANGED <<frame, drained>>
        /\ UNCHANGED <<gil, sessionClosed, sessionBusy, sessionPoisoned, slot, present, stage>>
    BY <1>1 DEF sessionVars, vars, gate, session
  <2>2. Typed'  BY <2>1, SMT DEF IInv, Typed
  <2>3. Alone'  BY <2>1 DEF IInv, Alone
  <2>4. \A u \in Threads : Threaded(u)'  BY <2>1, ThreadedSame
  <2>5. QED  BY <2>1, <2>2, <2>3, <2>4, SessionKeeps
<1>2. CASE \E t \in Threads : SessionPreflight(t) \/ SessionStep(t)
  BY <1>2, PreflightKeeps, EnterKeeps, BodyKeeps, InsideKeeps, ReturnKeeps, LeaveKeeps
     DEF SessionStep
<1>3. CASE SessionInterrupt \/ SessionResetControl \/ (Expire /\ UNCHANGED session)
  BY <1>3, SignalKeeps
<1>4. QED  BY <1>1, <1>2, <1>3 DEF SessionNext

\* Every reachable state of a shared native session satisfies the invariant.
THEOREM SessionInvariant == SessionSpec => []IInv
<1>1. SessionInit => IInv  BY InitKeeps
<1>2. IInv /\ [SessionNext]_sessionVars => IInv'  BY NextKeeps
<1>3. QED  BY <1>1, <1>2, PTL DEF SessionSpec

\* Between operations a healthy session holds the permanent state at a root, and its
\* ledger closes, whatever was cancelled, timed out, refused or failed before.
THEOREM IsolationHolds == SessionSpec => []Isolation
<1>1. IInv => Isolation
  <2> SUFFICES ASSUME IInv, Healthy, slot = Nobody
               PROVE  AtRoot(tableau) /\ Booked
    BY DEF Isolation, AtRoot, Booked
  <2>1. \A t \in Threads : frame[t].pc = "idle"
    BY SchedulerAssumption DEF IInv, Alone
  <2>2. ~poisoned /\ \A t \in Threads : Resting(t)  BY <2>1, ZenonT(30) DEF Resting, Healthy
  <2>3. QED  BY <2>2 DEF IInv, Tidy
<1>2. QED  BY <1>1, SessionInvariant, PTL

\* An answer that reaches a caller is the verdict of the ontology for each query asked,
\* in the order asked.
THEOREM TruthfulAnswersHolds == SessionSpec => []TruthfulAnswers
<1>1. IInv => TruthfulAnswers
  BY DEF IInv, Threaded, TruthfulAnswers, Answer, Checks
<1>2. QED  BY <1>1, SessionInvariant, PTL

\* The ring is a suffix of one stream of events with consecutive numbers, nothing lost
\* without being counted, every operation in it whole from a point on.
THEOREM EventStreamHolds == SessionSpec => []EventStream
<1>1. IInv => EventStream
  <2> SUFFICES ASSUME IInv PROVE EventStream  OBVIOUS
  <2>1. Typed /\ Stream(owned, drained)  BY DEF IInv, Ring
  <2>2. TypeOK
    BY <2>1, SMT DEF TypeOK, Typed, Stream, Ledgers, Controls, Tableaux, Stages
  <2>3. QED  BY <2>1, <2>2 DEF EventStream, Stream, Chained, Follows
<1>2. QED  BY <1>1, SessionInvariant, PTL

-----------------------------------------------------------------------------
(***************************************************************************)
(* The session implements SerialSession.                                   *)
(***************************************************************************)
\* The thread whose scheduler call is in its body, and how usable the session is: what
\* the refinement mapping puts for the variables of SerialSession.
HolderIn(f) ==
    IF \E t \in Threads : f[t].pc \in InBody
    THEN CHOOSE t \in Threads : f[t].pc \in InBody ELSE Nobody

Status == IF sessionClosed THEN "closed" ELSE IF poisoned THEN "poisoned" ELSE "usable"

\* The holder is the one thread whose call is in its body, if there is one.
LEMMA HolderFacts ==
    ASSUME NEW f, NEW t \in Threads, \A u \in Threads : u # t => f[u].pc = "idle"
    PROVE  HolderIn(f) = IF f[t].pc \in InBody THEN t ELSE Nobody
<1>1. "idle" \notin InBody  BY DEF InBody
<1>2. \A u \in Threads : f[u].pc \in InBody => u = t  BY <1>1
<1>3. CASE f[t].pc \in InBody
  <2>1. (CHOOSE u \in Threads : f[u].pc \in InBody) = t  BY <1>2, <1>3
  <2>2. QED  BY <1>3, <2>1 DEF HolderIn
<1>4. CASE f[t].pc \notin InBody
  BY <1>2, <1>4 DEF HolderIn
<1>5. QED  BY <1>3, <1>4

\* A step that leaves the status and the bodies of the calls alone is a stutter.
LEMMA SerialStutter ==
    ASSUME UNCHANGED <<sessionClosed, poisoned>>, HolderIn(frame)' = HolderIn(frame)
    PROVE  UNCHANGED Serial!vars
BY DEF Serial!vars, HolderIn

\* How a step of a scheduler call moves it into, through and out of its body.
LEMMA BodyMoves ==
    ASSUME NEW t \in Threads, IInv, Inside(t)
    PROVE  /\ frame[t].pc \in InBody =>
                 frame'[t].pc \in InBody \/ (frame'[t].pc = "idle" /\ poisoned' = poisoned)
           /\ frame[t].pc \notin InBody => poisoned' = poisoned
           /\ frame[t].pc \notin InBody /\ frame'[t].pc \in InBody => ~poisoned
           /\ (poisoned => poisoned') /\ UNCHANGED <<sessionClosed, stage>> /\ ~sessionClosed
           /\ \A u \in Threads : u # t => frame'[u].pc = "idle" /\ frame[u].pc = "idle"
<1>1. Calm(t) /\ Effects(t) /\ stage[t].at = "inside"  BY InsideEffect DEF Inside
<1>2. UNCHANGED <<sessionClosed, stage>> /\ \A u \in Threads : u # t => frame'[u] = frame[u]
  BY <1>1 DEF Calm, session, Others
<1>3. ~sessionClosed /\ \A u \in Threads : u # t => frame[u].pc = "idle"
  BY <1>1 DEF IInv, Alone
<1>4. frame[t].pc \in Waiting => ~poisoned  BY DEF IInv, Alone
<1>5. /\ frame[t].pc \in InBody =>
            frame'[t].pc \in InBody \/ (frame'[t].pc = "idle" /\ poisoned' = poisoned)
      /\ frame[t].pc \notin InBody => poisoned' = poisoned /\ frame[t].pc \in Waiting
      /\ (poisoned => poisoned')
  <2>1. CASE Waits(t)  BY <2>1 DEF Waits, InBody, Waiting
  <2>2. CASE Drains(t) \/ Starts(t)  BY <2>2, SMT DEF Drains, Starts, InBody
  <2>3. CASE Settles(t)  BY <2>3 DEF Settles, InBody
  <2>4. CASE Decides(t) \/ Works(t)  BY <2>4, SMT DEF Decides, Works, InBody, Running
  <2>5. CASE Aborts(t)  BY <2>5 DEF Aborts, InBody, Running
  <2>6. CASE Completes(t)  BY <2>6 DEF Completes, InBody
  <2>7. CASE Exits(t)  BY <2>7 DEF Exits, InBody
  <2>8. CASE Ends(t)  BY <2>8 DEF Ends, InBody, Waiting
  <2>9. QED
    BY <1>1, <2>1, <2>2, <2>3, <2>4, <2>5, <2>6, <2>7, <2>8 DEF Effects
<1>6. QED  BY <1>2, <1>3, <1>4, <1>5

\* A step of a scheduler call begins, goes on with, poisons or ends an operation.
LEMMA InsideSerial ==
    ASSUME NEW t \in Threads, IInv, Inside(t)
    PROVE  [Serial!Next]_Serial!vars
<1>1. /\ HolderIn(frame) = IF frame[t].pc \in InBody THEN t ELSE Nobody
      /\ HolderIn(frame') = IF frame'[t].pc \in InBody THEN t ELSE Nobody
  BY BodyMoves, HolderFacts, SMT
<1>2. HolderIn(frame)' = HolderIn(frame')  BY DEF HolderIn
<1>3. CASE frame[t].pc \in InBody /\ frame'[t].pc \in InBody
  <2>1. HolderIn(frame) = t /\ HolderIn(frame)' = HolderIn(frame)  BY <1>1, <1>2, <1>3
  <2>2. CASE poisoned' = poisoned  BY <2>1, <2>2, BodyMoves, SerialStutter
  <2>3. CASE poisoned' # poisoned
    <3>1. poisoned = FALSE /\ poisoned' = TRUE
      <4>1. poisoned \in BOOLEAN /\ poisoned' \in BOOLEAN
        BY InsideEffect DEF IInv, Typed, Calm
      <4>2. QED  BY <2>3, <4>1, BodyMoves, SMT
    <3>2. sessionClosed = FALSE /\ sessionClosed' = FALSE  BY BodyMoves DEF IInv, Typed
    <3>3. Status = "usable" /\ Status' = "poisoned"  BY <3>1, <3>2 DEF Status
    <3>4. Serial!Poison(t)  BY <2>1, <3>3 DEF Serial!Poison, Status, HolderIn
    <3>5. QED  BY <3>4 DEF Serial!Next
  <2>4. QED  BY <2>2, <2>3
<1>4. CASE frame[t].pc \in InBody /\ frame'[t].pc \notin InBody
  <2>1. HolderIn(frame) = t /\ HolderIn(frame)' = Nobody /\ Status' = Status
    BY <1>1, <1>2, <1>4, BodyMoves, SMTT(30) DEF Status
  <2>2. Serial!End(t)  BY <2>1 DEF Serial!End, Status, HolderIn
  <2>3. QED  BY <2>2 DEF Serial!Next
<1>5. CASE frame[t].pc \notin InBody /\ frame'[t].pc \in InBody
  <2>1. /\ HolderIn(frame) = Nobody /\ HolderIn(frame)' = t /\ Status' = Status
        /\ Status = "usable"
    BY <1>1, <1>2, <1>5, BodyMoves, SMT DEF Status
  <2>2. Serial!Begin(t)  BY <2>1 DEF Serial!Begin, Status, HolderIn
  <2>3. QED  BY <2>2 DEF Serial!Next
<1>6. CASE frame[t].pc \notin InBody /\ frame'[t].pc \notin InBody
  <2>1. HolderIn(frame)' = HolderIn(frame)  BY <1>1, <1>2, <1>6
  <2>2. QED  BY <1>6, <2>1, BodyMoves, SerialStutter
<1>7. QED  BY <1>3, <1>4, <1>5, <1>6

\* The steps of the session around the scheduler are stutters, except that close closes.
LEMMA AroundSerial ==
    ASSUME NEW t \in Threads, IInv,
           SessionPreflight(t) \/ EnterSlot(t) \/ Body(t) \/ Return(t) \/ Leave(t)
    PROVE  [Serial!Next]_Serial!vars
<1>1. CASE SessionPreflight(t) \/ Leave(t)
  <2>1. UNCHANGED <<sessionClosed, poisoned, frame>>
    BY <1>1 DEF SessionPreflight, Leave, scheduler, gate
  <2>2. HolderIn(frame)' = HolderIn(frame)  BY <2>1 DEF HolderIn
  <2>3. QED  BY <2>1, <2>2, SerialStutter
<1>2. CASE EnterSlot(t)
  <2>1. stage[t].at = "slot" /\ UNCHANGED <<poisoned, frame>>
    BY <1>2 DEF EnterSlot, CloseSlot, scheduler, gate
  <2>2. HolderIn(frame)' = HolderIn(frame)  BY <2>1 DEF HolderIn
  <2>3. CASE sessionClosed' = sessionClosed  BY <2>1, <2>2, <2>3, SerialStutter
  <2>4. CASE sessionClosed' # sessionClosed
    <3>1. sessionClosed' = TRUE  BY <1>2, <2>4 DEF EnterSlot, CloseSlot
    <3>2. ~sessionClosed /\ \A u \in Threads : frame[u].pc = "idle"
      BY <2>1 DEF IInv, Alone
    <3>3. HolderIn(frame) = Nobody  BY <3>2, HolderFacts DEF InBody
    <3>4. Status # "closed" /\ Status' = "closed"  BY <3>1, <3>2 DEF Status
    <3>5. Serial!Close  BY <2>2, <3>3, <3>4 DEF Serial!Close, Status, HolderIn
    <3>6. QED  BY <3>5 DEF Serial!Next
  <2>5. QED  BY <2>3, <2>4
<1>3. CASE Body(t) \/ Return(t)
  <2>1. /\ stage[t].at \in {"body", "inside"} /\ frame[t].pc = "idle"
        /\ UNCHANGED <<sessionClosed, poisoned>>
    BY <1>3 DEF Body, Return, IInv, Alone, Preflight, scheduler, gate
  <2>2. \A u \in Threads : u # t => frame[u].pc = "idle"
    BY <2>1 DEF IInv, Alone
  <2>3. frame'[t].pc \in {"idle", "busy"} /\ \A u \in Threads : u # t => frame'[u].pc = "idle"
    <3>1. CASE Return(t)
      <4>1. frame' = [frame EXCEPT ![t] = IdleFrame]  BY <3>1 DEF Return
      <4>2. QED  BY <2>2, <4>1, IdleFields DEF IInv, Typed
    <3>2. CASE UNCHANGED scheduler  BY <2>1, <2>2, <3>2 DEF scheduler
    <3>3. CASE /\ Body(t) /\ stage[t].request.kind # "delta" /\ Preflight(t, stage[t].request)
      <4>1. stage[t].request.kind # "close" /\ stage[t].request \in SessionRequests
        BY <3>3 DEF Body, IInv, Alone, Typed, Stages
      <4>2. Others(t) /\ frame'[t].pc \in {"idle", "busy"}
        BY <3>3, <4>1, PreflightFrame
      <4>3. QED  BY <2>2, <4>2 DEF Others
    <3>4. QED  BY <1>3, <3>1, <3>2, <3>3 DEF Body
  <2>4. HolderIn(frame) = Nobody /\ HolderIn(frame') = Nobody
    BY <2>1, <2>2, <2>3, HolderFacts DEF InBody
  <2>5. HolderIn(frame)' = HolderIn(frame)  BY <2>4 DEF HolderIn
  <2>6. QED  BY <2>1, <2>5, SerialStutter
<1>4. QED  BY <1>1, <1>2, <1>3

\* The session keeps the promise of SerialSession: one operation at a time, none after
\* poisoning or closing.
THEOREM SessionRefines == SessionSpec => RefinesSerialSession
<1>1. SessionInit => Serial!Init
  <2> SUFFICES ASSUME SessionInit PROVE Serial!Init  OBVIOUS
  <2>1. \A t \in Threads : frame[t].pc = "idle"
    BY IdleFields DEF SessionInit, Init
  <2>2. \A t \in Threads : frame[t].pc \notin InBody  BY <2>1 DEF InBody
  <2>3. sessionClosed = FALSE /\ poisoned = FALSE  BY DEF SessionInit, Init
  <2>4. QED  BY <2>2, <2>3 DEF Serial!Init
<1>2. IInv /\ [SessionNext]_sessionVars => [Serial!Next]_Serial!vars
  <2> SUFFICES ASSUME IInv, [SessionNext]_sessionVars PROVE [Serial!Next]_Serial!vars  OBVIOUS
  <2>1. CASE UNCHANGED sessionVars
    <3>1. UNCHANGED <<sessionClosed, poisoned, frame>>
      BY <2>1 DEF sessionVars, vars, gate, session
    <3>2. HolderIn(frame)' = HolderIn(frame)  BY <3>1 DEF HolderIn
    <3>3. QED  BY <3>1, <3>2, SerialStutter
  <2>2. CASE \E t \in Threads : SessionPreflight(t) \/ SessionStep(t)
    BY <2>2, AroundSerial, InsideSerial DEF SessionStep
  <2>3. CASE SessionInterrupt \/ SessionResetControl \/ (Expire /\ UNCHANGED session)
    <3>1. UNCHANGED <<sessionClosed, poisoned, frame>>
      BY <2>3 DEF SessionInterrupt, SessionResetControl, Expire, Interrupt, ResetControl,
                  session, gate
    <3>2. HolderIn(frame)' = HolderIn(frame)  BY <3>1 DEF HolderIn
    <3>3. QED  BY <3>1, <3>2, SerialStutter
  <2>4. QED  BY <2>1, <2>2, <2>3 DEF SessionNext
<1>3. QED  BY <1>1, <1>2, SessionInvariant, PTL DEF SessionSpec, RefinesSerialSession, Serial!Spec
=============================================================================
