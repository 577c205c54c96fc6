---------------------------- MODULE AEventProofs ----------------------------
(***************************************************************************)
(* Proofs about AEvent for every set of events, utils and handler slots:   *)
(* the invariants TLC checks on a small instance, that the base class      *)
(* keeps the promise of EventTree, and that nobody takes hold of an event  *)
(* that has finished.                                                      *)
(***************************************************************************)
EXTENDS AEvent, TLAPS

\* The self pointer is set exactly while the event is unfinished.
SelfWhileUnfinished == \A e \in Ev : my_ptr[e] <=> Unfinished(e)

\* What can be said of the flags from the stage of life alone.
LifeAndStop ==
    /\ life[Root] = "live"
    /\ \A e \in Ev : life[e] = "none" => ~stop_inited[e]
    /\ \A e \in Ev : life[e] = "dead" => stop_inited[e]
    /\ \A e \in Ev : parent[e] \in Ev => life[parent[e]] # "none"

HandlersSound(hs) ==
    \A h \in Hid : hs[h] # NoHandler =>
        IF hs[h].holds THEN life[hs[h].ev] = "live" ELSE stop_inited[hs[h].ev]

FramesSound ==
    \A i \in 1..Len(stack) :
        /\ life[stack[i].ev] # "none"
        /\ stack[i].holds => life[stack[i].ev] = "live"

\* The inductive invariant.
IInv ==
    /\ TypeOK
    /\ SelfWhileUnfinished
    /\ LifeAndStop
    /\ HandlersSound(handler)
    /\ FramesSound
    /\ FinishedOnce
    /\ TreeExact
    /\ ParentOutlivesChild
    /\ UtilsLetGo

-----------------------------------------------------------------------------
\* The empty slot is told from every handler by its event.
LEMMA NoHandlerFacts ==
    /\ NoHandler.ev = NoEv /\ NoEv \notin Ev
    /\ \A x \in Handler : x.ev \in Ev /\ x # NoHandler
BY AEventAssumption DEF NoHandler, Handler

\* The initial states satisfy the invariant.
LEMMA InitIInv == Init => IInv
<1> SUFFICES ASSUME Init PROVE IInv
  OBVIOUS
<1> USE AEventAssumption
<1>1. TypeOK
  BY SMTT(30) DEF Init, TypeOK, Handler, NoHandler, Frame
<1>2. SelfWhileUnfinished /\ LifeAndStop /\ FinishedOnce
  BY DEF Init, SelfWhileUnfinished, LifeAndStop, FinishedOnce, Unfinished
<1>3. HandlersSound(handler)
  BY DEF Init, HandlersSound, NoHandler
<1>4. FramesSound
  BY DEF Init, FramesSound
<1>5. TreeExact /\ ParentOutlivesChild /\ UtilsLetGo
  BY DEF Init, TreeExact, ParentOutlivesChild, UtilsLetGo, Unfinished
<1> QED BY <1>1, <1>2, <1>3, <1>4, <1>5 DEF IInv

-----------------------------------------------------------------------------
\* A call of stop() reaches only unfinished events, and with an event it
\* reaches everything on that event's child list.
LEMMA StopSetFacts ==
    ASSUME IInv, NEW e \in Ev, life[e] = "live"
    PROVE  /\ StopSet(e) \subseteq Ev
           /\ \A x \in StopSet(e) : Unfinished(x) /\ child_ev_list[x] \subseteq StopSet(e)
           /\ ~stop_inited[e] => e \in StopSet(e)
<1>1. CASE stop_inited[e]
  BY <1>1 DEF StopSet
<1>2. CASE ~stop_inited[e]
  <2> DEFINE U == {x \in Ev : Unfinished(x)}
  <2>1. StopSet(e) = {x \in Ev : \A S \in SUBSET Ev : e \in S /\ StopsWith(S) => x \in S}
    BY <1>2 DEF StopSet
  <2>2. U \in SUBSET Ev /\ e \in U
    BY <1>2 DEF Unfinished
  <2>3. StopsWith(U)
    <3> SUFFICES ASSUME NEW x \in U
                 PROVE  /\ child_ev_list[x] \subseteq U
                        /\ (x \in Aborting /\ parent[x] \in Ev /\ ~stop_inited[parent[x]])
                              => parent[x] \in U
      BY DEF StopsWith
    <3>1. child_ev_list[x] \subseteq U
      BY DEF IInv, TypeOK, TreeExact
    <3>2. ASSUME parent[x] \in Ev, ~stop_inited[parent[x]]
          PROVE  parent[x] \in U
      BY <3>2 DEF IInv, TypeOK, LifeAndStop, Unfinished
    <3> QED BY <3>1, <3>2
  <2>4. \A x \in StopSet(e) : x \in U
    BY <2>1, <2>2, <2>3
  <2>5. ASSUME NEW x \in StopSet(e), NEW c \in child_ev_list[x]
        PROVE  c \in StopSet(e)
    <3>1. x \in Ev /\ c \in Ev
      BY <2>1, <2>5 DEF IInv, TypeOK
    <3>2. ASSUME NEW S \in SUBSET Ev, e \in S, StopsWith(S)
          PROVE  c \in S
      <4>1. x \in S
        BY <2>1, <3>2
      <4> QED BY <4>1, <3>2 DEF StopsWith
    <3> QED BY <2>1, <3>1, <3>2
  <2> QED BY <2>1, <2>4, <2>5
<1> QED BY <1>1, <1>2

\* stop() and finish() of a set of unfinished events that is closed under the
\* child lists preserve every part of the invariant that is not about frames.
LEMMA StopAllKeeps ==
    ASSUME IInv,
           NEW S \in SUBSET Ev,
           \A x \in S : Unfinished(x) /\ child_ev_list[x] \subseteq S,
           NEW hs \in [Hid -> Handler \cup {NoHandler}],
           HandlersSound(hs),
           StopAll(S, hs)
    PROVE  /\ handler' \in [Hid -> Handler \cup {NoHandler}]
           /\ TypeOK' <=> stack' \in Seq(Frame)
           /\ SelfWhileUnfinished'
           /\ LifeAndStop'
           /\ HandlersSound(handler)'
           /\ FinishedOnce'
           /\ TreeExact'
           /\ ParentOutlivesChild'
           /\ UtilsLetGo'
<1> USE AEventAssumption DEF StopAll
<1>a. /\ \A x \in Ev : Unfinished(x)' <=> Unfinished(x) /\ x \notin S
      /\ \A x \in Ev : stop_inited'[x] <=> stop_inited[x] \/ x \in S
      /\ UNCHANGED <<life, parent, registered_utils, late>>
  BY DEF IInv, TypeOK, Unfinished
<1>1. handler' \in [Hid -> Handler \cup {NoHandler}]
  BY DEF CancelIo, Handler, NoHandler
<1>2. TypeOK' <=> stack' \in Seq(Frame)
  BY <1>1 DEF IInv, TypeOK, SelfReleased, Erased, Closed
<1>3. SelfWhileUnfinished'
  BY <1>a DEF IInv, SelfWhileUnfinished, SelfReleased
<1>4. LifeAndStop'
  BY <1>a DEF IInv, LifeAndStop, Unfinished
<1>5. HandlersSound(handler)'
  <2> SUFFICES ASSUME NEW h \in Hid, handler'[h] # NoHandler
               PROVE  IF handler'[h].holds THEN life'[handler'[h].ev] = "live"
                      ELSE stop_inited'[handler'[h].ev]
    BY DEF HandlersSound
  <2>1. /\ hs[h] # NoHandler
        /\ handler'[h].ev = hs[h].ev
        /\ handler'[h].holds = hs[h].holds
    <3>1. handler'[h] = hs[h] \/ (hs[h].ev \in S /\ handler'[h] = [hs[h] EXCEPT !.st = "failed"])
      BY DEF CancelIo
    <3>2. CASE handler'[h] = hs[h]
      BY <3>2
    <3>3. CASE hs[h].ev \in S /\ handler'[h] = [hs[h] EXCEPT !.st = "failed"]
      <4>1. hs[h] # NoHandler /\ hs[h] \in Handler
        BY <3>3, NoHandlerFacts
      <4> QED BY <4>1, <3>3 DEF Handler
    <3> QED BY <3>1, <3>2, <3>3
  <2>2. hs[h].ev \in Ev
    BY <2>1 DEF Handler
  <2> QED BY <2>1, <2>2, <1>a DEF HandlersSound
<1>6. FinishedOnce'
  BY <1>a DEF IInv, TypeOK, FinishedOnce, Unfinished
<1>7. TreeExact'
  BY <1>a DEF IInv, TypeOK, TreeExact, Erased
<1>8. ParentOutlivesChild'
  <2> SUFFICES ASSUME NEW c \in Ev \ {Root}, Unfinished(c)', c \notin late'
               PROVE  parent'[c] \in Ev /\ Unfinished(parent[c])'
    BY DEF ParentOutlivesChild
  <2>1. Unfinished(c) /\ c \notin S /\ parent[c] \in Ev /\ Unfinished(parent[c])
    BY <1>a DEF IInv, ParentOutlivesChild
  <2>2. c \in child_ev_list[parent[c]]
    BY <2>1 DEF IInv, TreeExact, Unfinished
  <2>3. parent[c] \notin S
    BY <2>1, <2>2
  <2> QED BY <2>1, <2>3, <1>a DEF Unfinished
<1>9. UtilsLetGo'
  <2> SUFFICES ASSUME NEW u \in Util, manager'[u] # NoEv
               PROVE  /\ Unfinished(manager[u])'
                      /\ u \in registered_utils'[manager'[u]]
    BY DEF UtilsLetGo
  <2>1. /\ manager'[u] = manager[u]
        /\ \A x \in S : u \notin registered_utils[x]
    BY DEF Closed
  <2>2. manager[u] \in Ev /\ Unfinished(manager[u]) /\ u \in registered_utils[manager[u]]
    BY <2>1 DEF IInv, TypeOK, UtilsLetGo
  <2> QED BY <2>1, <2>2, <1>a DEF Unfinished
<1> QED BY <1>1, <1>2, <1>3, <1>4, <1>5, <1>6, <1>7, <1>8, <1>9

-----------------------------------------------------------------------------
\* A step that changes only the handlers and the call stack keeps the parts of
\* the invariant that speak of neither.
LEMMA QuietKeeps ==
    ASSUME IInv,
           UNCHANGED <<life, parent, child_ev_list, my_ptr, stop_inited,
                       manager, registered_utils, finish_calls, late>>,
           handler' \in [Hid -> Handler \cup {NoHandler}],
           stack' \in Seq(Frame),
           HandlersSound(handler)',
           FramesSound'
    PROVE  IInv'
<1>1. TypeOK'
  BY DEF IInv, TypeOK
<1>2. SelfWhileUnfinished' /\ LifeAndStop' /\ FinishedOnce'
  BY DEF IInv, SelfWhileUnfinished, LifeAndStop, FinishedOnce, Unfinished
<1>3. TreeExact'
  BY DEF IInv, TreeExact, Unfinished
<1>4. ParentOutlivesChild' /\ UtilsLetGo'
  BY DEF IInv, ParentOutlivesChild, UtilsLetGo, Unfinished
<1> QED BY <1>1, <1>2, <1>3, <1>4 DEF IInv

\* What a handler of event e is given by wrap_asio_cb is sound whenever e exists.
LEMMA WrapSound ==
    ASSUME IInv, NEW e \in Ev, life[e] # "none",
           NEW op \in {"timer", "io"}, NEW st \in {"pending", "ok", "failed"}
    PROVE  LET x == WrapAsioCb(e, op, st)
           IN /\ x \in Handler
              /\ x.ev = e
              /\ IF x.holds THEN life[e] = "live" ELSE stop_inited[e]
<1>1. my_ptr[e] \in BOOLEAN /\ stop_inited[e] \in BOOLEAN
  BY DEF IInv, TypeOK
<1>2. my_ptr[e] => life[e] = "live"
  BY DEF IInv, SelfWhileUnfinished, Unfinished
<1>3. ~my_ptr[e] => stop_inited[e]
  BY DEF IInv, SelfWhileUnfinished, Unfinished, LifeAndStop, TypeOK
<1> QED BY <1>1, <1>2, <1>3 DEF WrapAsioCb, Handler

\* The innermost call runs on an event that exists.
LEMMA TopFacts ==
    ASSUME IInv, ~Idle
    PROVE  /\ Len(stack) \in 1..Len(stack)
           /\ Top \in Frame
           /\ Top.ev \in Ev
           /\ life[Top.ev] # "none"
<1>1. stack \in Seq(Frame) /\ stack # <<>>
  BY DEF IInv, TypeOK, Idle
<1>2. Len(stack) \in 1..Len(stack) /\ Top \in Frame
  BY <1>1 DEF Top
<1> QED BY <1>2 DEF IInv, FramesSound, Top, Frame

\* Cancelling keeps handlers sound and well typed.
LEMMA CancelSound ==
    ASSUME NEW hs \in [Hid -> Handler \cup {NoHandler}], HandlersSound(hs),
           NEW new \in [Hid -> Handler \cup {NoHandler}],
           \A h \in Hid : new[h].ev = hs[h].ev /\ new[h].holds = hs[h].holds,
           \A h \in Hid : hs[h] = NoHandler => new[h] = NoHandler
    PROVE  HandlersSound(new)
BY DEF HandlersSound

\* A sound handler more, or an empty slot more, keeps handlers sound.
LEMMA SlotSound ==
    ASSUME NEW hs \in [Hid -> Handler \cup {NoHandler}], HandlersSound(hs),
           NEW h \in Hid, NEW x \in Handler \cup {NoHandler},
           x # NoHandler =>
              IF x.holds THEN life[x.ev] = "live" ELSE stop_inited[x.ev]
    PROVE  /\ [hs EXCEPT ![h] = x] \in [Hid -> Handler \cup {NoHandler}]
           /\ HandlersSound([hs EXCEPT ![h] = x])
BY DEF HandlersSound

\* steady_timer::cancel keeps handlers sound and well typed.
LEMMA CancelTimerSound ==
    ASSUME AEventAssumption,
           NEW hs \in [Hid -> Handler \cup {NoHandler}], HandlersSound(hs),
           NEW e \in Ev
    PROVE  /\ CancelTimer(hs, e) \in [Hid -> Handler \cup {NoHandler}]
           /\ HandlersSound(CancelTimer(hs, e))
<1> DEFINE new == CancelTimer(hs, e)
<1>1. \A h \in Hid :
        new[h] = hs[h] \/ (hs[h] \in Handler /\ new[h] = [hs[h] EXCEPT !.st = "failed"])
  BY DEF CancelTimer, NoHandler, AEventAssumption
<1>2. new \in [Hid -> Handler \cup {NoHandler}]
  <2>1. ASSUME NEW h \in Hid PROVE new[h] \in Handler \cup {NoHandler}
    <3>1. PICK x, y : x = hs[h] /\ y = new[h]
      OBVIOUS
    <3>2. x \in Handler \cup {NoHandler}
      BY <3>1
    <3>3. y = x \/ (x \in Handler /\ y = [x EXCEPT !.st = "failed"])
      BY ONLY <1>1, <3>1, h \in Hid
    <3>4. CASE y = x
      BY ONLY <3>1, <3>2, <3>4
    <3>5. CASE x \in Handler /\ y = [x EXCEPT !.st = "failed"]
      <4>1. y \in Handler
        BY ONLY <3>5 DEF Handler
      <4> QED BY ONLY <3>1, <4>1
    <3> QED BY ONLY <3>3, <3>4, <3>5
  <2> QED BY <2>1 DEF CancelTimer
<1>3. \A h \in Hid : new[h].ev = hs[h].ev /\ new[h].holds = hs[h].holds
  <2> SUFFICES ASSUME NEW h \in Hid PROVE new[h].ev = hs[h].ev /\ new[h].holds = hs[h].holds
    OBVIOUS
  <2>1. PICK x, y : x = hs[h] /\ y = new[h]
    OBVIOUS
  <2>2. y = x \/ (x \in Handler /\ y = [x EXCEPT !.st = "failed"])
    BY ONLY <1>1, <2>1, h \in Hid
  <2>3. y.ev = x.ev /\ y.holds = x.holds
    BY ONLY <2>2 DEF Handler
  <2> QED BY ONLY <2>1, <2>3
<1>4. \A h \in Hid : hs[h] = NoHandler => new[h] = NoHandler
  <2> SUFFICES ASSUME NEW h \in Hid, hs[h] = NoHandler PROVE new[h] = NoHandler
    OBVIOUS
  <2>1. hs[h].ev # e
    BY NoHandlerFacts
  <2> QED BY <2>1 DEF CancelTimer
<1> HIDE DEF new
<1>5. HandlersSound(new)
  BY <1>2, <1>3, <1>4, CancelSound
<1> QED BY <1>2, <1>5 DEF new

-----------------------------------------------------------------------------
\* create_child
LEMMA CreateChildKeeps ==
    ASSUME IInv, NEW p \in Ev, NEW c \in Ev, CreateChild(p, c)
    PROVE  IInv'
<1> USE AEventAssumption
<1> DEFINE timer == [ev |-> c, op |-> "timer", st |-> "pending", holds |-> TRUE]
           frame == [ev |-> c, holds |-> TRUE, open |-> TRUE]
<1>1. /\ life[p] = "live" /\ life[c] = "none" /\ p # c /\ c # Root
      /\ ~stop_inited[c]
      /\ life' = [life EXCEPT ![c] = "live"]
      /\ parent' = [parent EXCEPT ![c] = p]
      /\ child_ev_list' = [child_ev_list EXCEPT ![p] = @ \cup {c}]
      /\ my_ptr' = [my_ptr EXCEPT ![c] = TRUE]
      /\ stack' = Append(stack, frame)
      /\ late' = IF stop_inited[p] THEN late \cup {c} ELSE late
      /\ UNCHANGED <<stop_inited, manager, registered_utils, finish_calls>>
  BY DEF CreateChild, IInv, LifeAndStop
<1>2. PICK h \in Hid : /\ handler[h] = NoHandler
                       /\ handler' = [handler EXCEPT ![h] = timer]
  BY DEF CreateChild, Free
<1>3. timer \in Handler /\ frame \in Frame
  BY DEF Handler, Frame
<1>4. \A e \in Ev : Unfinished(e)' <=> Unfinished(e) \/ e = c
  BY <1>1 DEF Unfinished, IInv, TypeOK
<1>5. TypeOK'
  <2>1. handler' \in [Hid -> Handler \cup {NoHandler}]
    BY <1>2, <1>3 DEF IInv, TypeOK
  <2>2. stack' \in Seq(Frame)
    BY <1>1, <1>3 DEF IInv, TypeOK
  <2>3. /\ life' \in [Ev -> {"none", "live", "dead"}]
        /\ parent' \in [Ev -> Ev \cup {NoEv}]
        /\ child_ev_list' \in [Ev -> SUBSET Ev]
        /\ my_ptr' \in [Ev -> BOOLEAN]
        /\ late' \subseteq Ev
    BY <1>1 DEF IInv, TypeOK
  <2> QED BY <1>1, <2>1, <2>2, <2>3 DEF IInv, TypeOK
<1>6. SelfWhileUnfinished'
  BY <1>1, <1>4 DEF IInv, TypeOK, SelfWhileUnfinished
<1>7. LifeAndStop'
  BY <1>1 DEF IInv, TypeOK, LifeAndStop
<1>8. HandlersSound(handler)'
  <2> SUFFICES ASSUME NEW g \in Hid, handler'[g] # NoHandler
               PROVE  IF handler'[g].holds THEN life'[handler'[g].ev] = "live"
                      ELSE stop_inited'[handler'[g].ev]
    BY DEF HandlersSound
  <2>1. CASE g = h
    <3>1. handler'[g] = timer
      BY <2>1, <1>2 DEF IInv, TypeOK
    <3>2. life'[c] = "live"
      BY <1>1 DEF IInv, TypeOK
    <3> QED BY <3>1, <3>2
  <2>2. CASE g # h
    <3>1. handler'[g] = handler[g] /\ handler[g] \in Handler
      BY <2>2, <1>2 DEF IInv, TypeOK
    <3>2. handler[g].ev \in Ev
      BY <3>1, NoHandlerFacts
    <3> QED BY <3>1, <3>2, <1>1 DEF IInv, TypeOK, HandlersSound
  <2> QED BY <2>1, <2>2
<1>9. FramesSound'
  <2> SUFFICES ASSUME NEW i \in 1..Len(stack')
               PROVE  /\ life'[stack'[i].ev] # "none"
                      /\ stack'[i].holds => life'[stack'[i].ev] = "live"
    BY DEF FramesSound
  <2>1. stack \in Seq(Frame) /\ Len(stack') = Len(stack) + 1
    BY <1>1, <1>3 DEF IInv, TypeOK
  <2>2. CASE i = Len(stack')
    <3>1. stack'[i] = frame
      BY <2>1, <2>2, <1>1
    <3> QED BY <3>1, <1>1 DEF IInv, TypeOK
  <2>3. CASE i # Len(stack')
    <3>a. i \in 1..Len(stack)
      BY <2>1, <2>3
    <3>b. stack[i] \in Frame
      BY <3>a, <2>1
    <3>c. stack'[i] = stack[i]
      BY <3>a, <2>1, <1>1, <1>3
    <3>1. i \in 1..Len(stack) /\ stack'[i] = stack[i] /\ stack[i].ev \in Ev
      BY <3>a, <3>b, <3>c DEF Frame
    <3> QED BY <3>1, <1>1 DEF IInv, TypeOK, FramesSound
  <2> QED BY <2>2, <2>3
<1>10. FinishedOnce'
  BY <1>1 DEF IInv, FinishedOnce
<1>11. TreeExact'
  <2> SUFFICES ASSUME NEW q \in Ev, NEW d \in Ev
               PROVE  d \in child_ev_list'[q] <=>
                         life'[q] = "live" /\ parent'[d] = q /\ Unfinished(d)'
    BY DEF TreeExact
  <2>1. /\ d \in child_ev_list[q] <=>
             life[q] = "live" /\ parent[d] = q /\ Unfinished(d)
        /\ ~Unfinished(c)
        /\ \A x \in Ev : parent[x] # c
    BY <1>1 DEF IInv, TreeExact, LifeAndStop, Unfinished
  <2>2. /\ parent'[d] = IF d = c THEN p ELSE parent[d]
        /\ life'[q] = IF q = c THEN "live" ELSE life[q]
        /\ child_ev_list'[q] = IF q = p THEN child_ev_list[q] \cup {c}
                                        ELSE child_ev_list[q]
    BY <1>1 DEF IInv, TypeOK
  <2>3. Unfinished(d)' <=> Unfinished(d) \/ d = c
    BY <1>4
  <2>4. CASE d = c
    BY <2>1, <2>2, <2>3, <2>4, <1>1
  <2>5. CASE d # c
    BY <2>1, <2>2, <2>3, <2>5, <1>1
  <2> QED BY <2>4, <2>5
<1>12. ParentOutlivesChild'
  <2> SUFFICES ASSUME NEW d \in Ev \ {Root}, Unfinished(d)', d \notin late'
               PROVE  parent'[d] \in Ev /\ Unfinished(parent[d])'
    BY DEF ParentOutlivesChild
  <2>1. CASE d = c
    <3>1. parent'[d] = p /\ ~stop_inited[p]
      BY <2>1, <1>1 DEF IInv, TypeOK
    <3>2. Unfinished(p)
      BY <3>1, <1>1 DEF Unfinished
    <3> QED BY <3>1, <3>2, <1>4
  <2>2. CASE d # c
    <3>1. Unfinished(d) /\ d \notin late /\ parent'[d] = parent[d]
      BY <2>2, <1>1, <1>4 DEF IInv, TypeOK
    <3>2. parent[d] \in Ev /\ Unfinished(parent[d])
      BY <3>1 DEF IInv, ParentOutlivesChild
    <3> QED BY <3>1, <3>2, <1>4
  <2> QED BY <2>1, <2>2
<1>13. UtilsLetGo'
  <2> SUFFICES ASSUME NEW u \in Util, manager[u] # NoEv
               PROVE  /\ Unfinished(manager[u])'
                      /\ u \in registered_utils[manager[u]]
    BY <1>1 DEF UtilsLetGo
  <2>1. manager[u] \in Ev
    BY DEF IInv, TypeOK
  <2> QED BY <2>1, <1>1, <1>4 DEF IInv, UtilsLetGo, Unfinished
<1> QED BY <1>5, <1>6, <1>7, <1>8, <1>9, <1>10, <1>11, <1>12, <1>13 DEF IInv

\* The calls by which a derived class starts an operation or its timer.
LEMMA StartKeeps ==
    ASSUME IInv, NEW e \in Ev, NEW h \in Hid, StartOp(e, h) \/ ResetTimer(e, h)
    PROVE  IInv'
<1> USE AEventAssumption
<1>1. ~Idle /\ e = Top.ev /\ life[e] # "none"
  BY TopFacts DEF StartOp, ResetTimer, Running
<1>2. handler \in [Hid -> Handler \cup {NoHandler}] /\ HandlersSound(handler)
  BY DEF IInv, TypeOK
<1>3. UNCHANGED <<life, parent, child_ev_list, my_ptr, stop_inited, stack,
                  manager, registered_utils, finish_calls, late>>
  BY DEF StartOp, ResetTimer
<1>4. handler' \in [Hid -> Handler \cup {NoHandler}] /\ HandlersSound(handler')
  <2>1. CASE StartOp(e, h)
    <3>1. PICK st \in {"pending", "ok", "failed"} :
             handler' = [handler EXCEPT ![h] = WrapAsioCb(e, "io", st)]
      BY <2>1 DEF StartOp
    <3>2. PICK x : x = WrapAsioCb(e, "io", st)
      OBVIOUS
    <3>3. x \in Handler /\ IF x.holds THEN life[x.ev] = "live" ELSE stop_inited[x.ev]
      BY <3>2, <1>1, WrapSound
    <3> QED BY <3>1, <3>2, <3>3, <1>2, SlotSound
  <2>2. CASE ResetTimer(e, h)
    <3>1. PICK x : x = WrapAsioCb(e, "timer", "pending")
      OBVIOUS
    <3>2. x \in Handler /\ IF x.holds THEN life[x.ev] = "live" ELSE stop_inited[x.ev]
      BY <3>1, <1>1, WrapSound
    <3>3. PICK hs : hs = CancelTimer(handler, e)
      OBVIOUS
    <3>4. hs \in [Hid -> Handler \cup {NoHandler}] /\ HandlersSound(hs)
      BY <3>3, <1>2, CancelTimerSound
    <3>5. handler' = [hs EXCEPT ![h] = x]
      BY <2>2, <3>1, <3>3 DEF ResetTimer
    <3> QED BY <3>2, <3>4, <3>5, SlotSound
  <2> QED BY <2>1, <2>2 DEF StartOp, ResetTimer
<1>5. HandlersSound(handler)' /\ FramesSound' /\ stack' \in Seq(Frame)
  BY <1>3, <1>4 DEF HandlersSound, FramesSound, IInv, TypeOK
<1> QED BY <1>3, <1>4, <1>5, QuietKeeps

\* stop() called by a derived class.
LEMMA StopKeeps ==
    ASSUME IInv, NEW e \in Ev, Stop(e)
    PROVE  IInv'
<1> USE AEventAssumption
<1>1. ~Idle /\ e = Top.ev /\ life[e] = "live"
  BY TopFacts DEF Stop, Running, IInv, LifeAndStop, TypeOK
<1>2. PICK S : S = StopSet(e)
  OBVIOUS
<1>3. PICK hs : hs = handler
  OBVIOUS
<1>4. S \in SUBSET Ev /\ \A x \in S : Unfinished(x) /\ child_ev_list[x] \subseteq S
  BY <1>1, <1>2, StopSetFacts
<1>5. hs \in [Hid -> Handler \cup {NoHandler}] /\ HandlersSound(hs) /\ StopAll(S, hs)
  BY <1>2, <1>3 DEF Stop, IInv, TypeOK
<1>6. /\ TypeOK' <=> stack' \in Seq(Frame)
      /\ SelfWhileUnfinished' /\ LifeAndStop' /\ HandlersSound(handler)'
      /\ FinishedOnce' /\ TreeExact' /\ ParentOutlivesChild' /\ UtilsLetGo'
  BY <1>4, <1>5, StopAllKeeps
<1>7. stack \in Seq(Frame) /\ Len(stack) \in 1..Len(stack) /\ Top \in Frame
  BY <1>1, TopFacts DEF IInv, TypeOK
<1>8. /\ stack' \in Seq(Frame) /\ Len(stack') = Len(stack)
      /\ \A i \in 1..Len(stack) : /\ stack'[i].ev = stack[i].ev
                                  /\ stack'[i].holds = stack[i].holds
  <2>1. PICK f : f = [Top EXCEPT !.open = FALSE]
    OBVIOUS
  <2>2. f \in Frame /\ f.ev = Top.ev /\ f.holds = Top.holds
    BY <1>7, <2>1 DEF Frame
  <2>3. stack' = [stack EXCEPT ![Len(stack)] = f]
    BY <2>1 DEF Stop, Top
  <2>4. stack' \in Seq(Frame) /\ Len(stack') = Len(stack)
    BY <2>2, <2>3, <1>7
  <2>5. \A i \in 1..Len(stack) : stack'[i] = IF i = Len(stack) THEN f ELSE stack[i]
    BY <2>3, <1>7
  <2> QED BY <2>2, <2>4, <2>5 DEF Top
<1>9. FramesSound'
  BY <1>8, <1>5 DEF IInv, FramesSound, StopAll
<1> QED BY <1>6, <1>8, <1>9 DEF IInv

\* A util is attached to the running event.
LEMMA InitAsyncKeeps ==
    ASSUME IInv, NEW u \in Util, NEW e \in Ev, InitAsync(u, e)
    PROVE  IInv'
<1> USE AEventAssumption
<1>1. /\ my_ptr[e] /\ Unfinished(e)
      /\ manager' = [manager EXCEPT ![u] = e]
      /\ registered_utils' = [registered_utils EXCEPT ![e] = @ \cup {u}]
      /\ UNCHANGED <<life, parent, child_ev_list, my_ptr, stop_inited, handler,
                     stack, finish_calls, late>>
  BY DEF InitAsync, IInv, SelfWhileUnfinished
<1>2. TypeOK'
  BY <1>1 DEF IInv, TypeOK
<1>3. SelfWhileUnfinished' /\ LifeAndStop' /\ FinishedOnce' /\ TreeExact' /\ ParentOutlivesChild'
  BY <1>1 DEF IInv, SelfWhileUnfinished, LifeAndStop, FinishedOnce, TreeExact,
              ParentOutlivesChild, Unfinished
<1>4. HandlersSound(handler)' /\ FramesSound'
  BY <1>1 DEF IInv, HandlersSound, FramesSound
<1>5. UtilsLetGo'
  <2> SUFFICES ASSUME NEW v \in Util, manager'[v] # NoEv
               PROVE  /\ Unfinished(manager'[v])
                      /\ v \in registered_utils'[manager'[v]]
    BY <1>1 DEF UtilsLetGo, Unfinished
  <2>1. CASE v = u
    BY <2>1, <1>1 DEF IInv, TypeOK
  <2>2. CASE v # u
    BY <2>2, <1>1 DEF IInv, TypeOK, UtilsLetGo
  <2> QED BY <2>1, <2>2
<1> QED BY <1>2, <1>3, <1>4, <1>5 DEF IInv

\* The innermost call returns; what nothing points to is destructed.
LEMMA ReturnKeeps ==
    ASSUME IInv, Return
    PROVE  IInv'
<1> USE AEventAssumption
<1>1. PICK rest : rest = SubSeq(stack, 1, Len(stack) - 1)
  OBVIOUS
<1>2. PICK gone : gone = {e \in Ev : life[e] = "live" /\ ~HeldBy(e, rest)}
  OBVIOUS
<1>3. /\ ~Idle
      /\ stack' = rest
      /\ life' = [e \in Ev |-> IF e \in gone THEN "dead" ELSE life[e]]
      /\ child_ev_list' = [e \in Ev |-> IF e \in gone THEN {} ELSE child_ev_list[e]]
      /\ registered_utils' = [e \in Ev |-> IF e \in gone THEN {} ELSE registered_utils[e]]
      /\ handler' = CancelAll(handler, gone)
      /\ UNCHANGED <<parent, my_ptr, stop_inited, manager, finish_calls, late>>
  BY <1>1, <1>2 DEF Return
<1>4. /\ rest \in Seq(Frame)
      /\ Len(rest) = Len(stack) - 1
      /\ \A i \in 1..Len(rest) : i \in 1..Len(stack) /\ rest[i] = stack[i] /\ rest[i].ev \in Ev
  <2>1. stack \in Seq(Frame) /\ Len(stack) \in 1..Len(stack)
    BY <1>3, TopFacts DEF IInv, TypeOK
  <2>2. \A i \in 1..Len(stack) : stack[i] \in Frame
    BY <2>1
  <2>3. \A i \in 1..Len(stack) : stack[i].ev \in Ev
    BY <2>2 DEF Frame
  <2>4. PICK n \in Nat : n = Len(stack) - 1
    BY <2>1
  <2>5. rest = SubSeq(stack, 1, n)
    BY <1>1, <2>4
  <2>6. rest \in Seq(Frame) /\ Len(rest) = n
    BY <2>1, <2>4, <2>5
  <2>7. \A i \in 1..n : i \in 1..Len(stack) /\ rest[i] = stack[i]
    BY <2>1, <2>4, <2>5
  <2> QED BY <2>3, <2>4, <2>6, <2>7
<1>5. /\ gone \subseteq Ev
      /\ Root \notin gone
      /\ \A e \in gone : /\ life[e] = "live" /\ ~my_ptr[e] /\ stop_inited[e]
                         /\ ~Unfinished(e)
                         /\ \A h \in Hid : ~(handler[h].ev = e /\ handler[h].holds)
                         /\ \A i \in 1..Len(rest) : ~(rest[i].ev = e /\ rest[i].holds)
                         /\ \A u \in Util : manager[u] # e
  BY <1>2 DEF HeldBy, IInv, TypeOK, SelfWhileUnfinished, Unfinished
<1>6. \A e \in Ev : Unfinished(e)' <=> Unfinished(e)
  BY <1>3, <1>5 DEF Unfinished
<1>7. \A h \in Hid : \/ handler'[h] = handler[h]
                     \/ /\ handler[h] \in Handler
                        /\ handler'[h] = [handler[h] EXCEPT !.st = "failed"]
  <2> SUFFICES ASSUME NEW h \in Hid, handler[h].ev \in gone
               PROVE  handler[h] \in Handler
    <3>1. \A h \in Hid : \/ handler'[h] = handler[h]
                         \/ /\ handler[h].ev \in gone
                            /\ handler'[h] = [handler[h] EXCEPT !.st = "failed"]
      BY <1>3 DEF CancelAll
    <3> QED BY <3>1
  <2> QED BY <1>5, NoHandlerFacts DEF IInv, TypeOK
<1>8. /\ handler' \in [Hid -> Handler \cup {NoHandler}]
      /\ \A h \in Hid : handler'[h].ev = handler[h].ev /\ handler'[h].holds = handler[h].holds
  <2>1. ASSUME NEW h \in Hid
        PROVE  /\ handler'[h] \in Handler \cup {NoHandler}
               /\ handler'[h].ev = handler[h].ev
               /\ handler'[h].holds = handler[h].holds
    <3>1. CASE handler'[h] = handler[h]
      BY <3>1 DEF IInv, TypeOK
    <3>2. CASE handler[h] \in Handler /\ handler'[h] = [handler[h] EXCEPT !.st = "failed"]
      BY <3>2 DEF Handler
    <3> QED BY <1>7, <3>1, <3>2
  <2> QED BY <2>1, <1>3 DEF CancelAll
<1>9. TypeOK'
  BY <1>3, <1>4, <1>8 DEF IInv, TypeOK
<1>10. SelfWhileUnfinished' /\ FinishedOnce'
  BY <1>3, <1>6 DEF IInv, SelfWhileUnfinished, FinishedOnce
<1>11. LifeAndStop'
  BY <1>3, <1>5 DEF IInv, LifeAndStop, TypeOK
<1>12. HandlersSound(handler)'
  <2> SUFFICES ASSUME NEW h \in Hid, handler'[h] # NoHandler
               PROVE  IF handler'[h].holds THEN life'[handler'[h].ev] = "live"
                      ELSE stop_inited'[handler'[h].ev]
    BY DEF HandlersSound
  <2>1. handler[h] # NoHandler /\ handler[h] \in Handler
    <3>1. handler[h] # NoHandler
      BY <1>7, NoHandlerFacts
    <3> QED BY <3>1 DEF IInv, TypeOK
  <2>2. handler[h].ev \in Ev
    BY <2>1, NoHandlerFacts
  <2>3. IF handler[h].holds THEN life[handler[h].ev] = "live" ELSE stop_inited[handler[h].ev]
    BY <2>1 DEF IInv, HandlersSound
  <2>4. handler[h].holds => handler[h].ev \notin gone
    BY <1>5
  <2>5. PICK x, y : x = handler[h] /\ y = handler'[h]
    OBVIOUS
  <2>6. y.ev = x.ev /\ y.holds = x.holds
    BY ONLY <1>8, <2>5, h \in Hid
  <2>7. /\ x.holds => life'[x.ev] = "live"
        /\ ~x.holds => stop_inited'[x.ev]
    <3>1. x.ev \in Ev /\ (x.holds => x.ev \notin gone)
          /\ IF x.holds THEN life[x.ev] = "live" ELSE stop_inited[x.ev]
      BY ONLY <2>2, <2>3, <2>4, <2>5
    <3> QED BY ONLY <1>3, <3>1
  <2> QED BY ONLY <2>5, <2>6, <2>7
<1>13. FramesSound'
  <2> SUFFICES ASSUME NEW i \in 1..Len(rest)
               PROVE  /\ life'[rest[i].ev] # "none"
                      /\ rest[i].holds => life'[rest[i].ev] = "live"
    BY <1>3 DEF FramesSound
  <2>1. PICK f : f = rest[i]
    OBVIOUS
  <2>2. f.ev \in Ev /\ life[f.ev] # "none" /\ (f.holds => life[f.ev] = "live")
    <3>1. i \in 1..Len(stack) /\ f = stack[i] /\ f.ev \in Ev
      BY ONLY <1>4, <2>1, i \in 1..Len(rest)
    <3> QED BY <3>1 DEF IInv, FramesSound
  <2>3. f.holds => f.ev \notin gone
    BY ONLY <1>5, <2>1, i \in 1..Len(rest)
  <2>4. life'[f.ev] # "none" /\ (f.holds => life'[f.ev] = "live")
    BY ONLY <1>3, <2>2, <2>3
  <2> QED BY ONLY <2>1, <2>4
<1>14. TreeExact'
  BY <1>3, <1>5, <1>6 DEF IInv, TypeOK, TreeExact
<1>15. ParentOutlivesChild'
  BY <1>3, <1>6 DEF IInv, ParentOutlivesChild
<1>16. UtilsLetGo'
  BY <1>3, <1>5, <1>6 DEF IInv, TypeOK, UtilsLetGo
<1> QED BY <1>9, <1>10, <1>11, <1>12, <1>13, <1>14, <1>15, <1>16 DEF IInv

-----------------------------------------------------------------------------
\* A result arrives for an operation.
LEMMA CompleteKeeps ==
    ASSUME IInv, NEW h \in Hid, Complete(h)
    PROVE  IInv'
<1> USE AEventAssumption
<1>1. UNCHANGED <<life, parent, child_ev_list, my_ptr, stop_inited, stack,
                  manager, registered_utils, finish_calls, late>>
  BY DEF Complete
<1>2. handler \in [Hid -> Handler \cup {NoHandler}] /\ HandlersSound(handler)
  BY DEF IInv, TypeOK
<1>3. PICK st \in {"ok", "failed"} : handler' = [handler EXCEPT ![h].st = st]
  BY DEF Complete
<1>4. PICK x : x = [handler[h] EXCEPT !.st = st]
  OBVIOUS
<1>5. handler[h] \in Handler /\ handler[h] # NoHandler
  <2>1. handler[h].st = "pending" /\ NoHandler.st = "none"
    BY DEF Complete, NoHandler
  <2> QED BY <2>1, <1>2
<1>6. x \in Handler /\ x.ev = handler[h].ev /\ x.holds = handler[h].holds
  BY <1>4, <1>5 DEF Handler
<1>7. IF x.holds THEN life[x.ev] = "live" ELSE stop_inited[x.ev]
  BY <1>2, <1>5, <1>6 DEF HandlersSound
<1>8. handler' = [handler EXCEPT ![h] = x]
  BY <1>3, <1>4
<1>9. handler' \in [Hid -> Handler \cup {NoHandler}] /\ HandlersSound(handler')
  BY <1>2, <1>6, <1>7, <1>8, SlotSound
<1> QED BY <1>1, <1>9, QuietKeeps DEF HandlersSound, FramesSound, IInv, TypeOK

\* What a handler finds when it is taken off the queue.
LEMMA TakenFacts ==
    ASSUME IInv, NEW h \in Hid, handler[h].st # "none"
    PROVE  /\ handler[h] \in Handler /\ handler[h].ev \in Ev
           /\ Taken(h) \in [Hid -> Handler \cup {NoHandler}]
           /\ HandlersSound(Taken(h))
           /\ IF handler[h].holds THEN life[handler[h].ev] = "live"
              ELSE stop_inited[handler[h].ev]
<1>1. handler \in [Hid -> Handler \cup {NoHandler}] /\ HandlersSound(handler)
  BY DEF IInv, TypeOK
<1>2. handler[h] \in Handler /\ handler[h] # NoHandler
  <2>1. NoHandler.st = "none"
    BY DEF NoHandler
  <2> QED BY <2>1, <1>1
<1>3. Taken(h) \in [Hid -> Handler \cup {NoHandler}] /\ HandlersSound(Taken(h))
  BY <1>1, SlotSound DEF Taken
<1> QED BY <1>1, <1>2, <1>3, NoHandlerFacts DEF HandlersSound

\* Entering a handler leaves one frame, of an event that exists.
LEMMA EnterFacts ==
    ASSUME IInv, NEW h \in Hid, NEW open \in BOOLEAN,
           handler[h].st # "none", life[handler[h].ev] = "live",
           Enter(h, open), life' = life
    PROVE  stack' \in Seq(Frame) /\ FramesSound'
<1>1. PICK f : f = [ev |-> handler[h].ev, holds |-> handler[h].holds, open |-> open]
  OBVIOUS
<1>2. f \in Frame /\ f.ev = handler[h].ev
  BY <1>1, TakenFacts DEF Frame, Handler
<1>3. stack' = <<f>>
  BY <1>1 DEF Enter
<1>4. stack' \in Seq(Frame) /\ Len(stack') = 1 /\ stack'[1] = f
  BY <1>2, <1>3
<1>5. FramesSound'
  BY <1>2, <1>4 DEF FramesSound
<1> QED BY <1>4, <1>5

\* A queued handler is run.
LEMMA RunKeeps ==
    ASSUME IInv, NEW h \in Hid, Run(h)
    PROVE  IInv'
<1> USE AEventAssumption
<1>1. ASSUME RunIo(h) \/ TimerAborted(h) PROVE IInv'
  <2>1. /\ handler[h].st # "none" /\ life[handler[h].ev] = "live"
        /\ handler' = Taken(h)
        /\ Enter(h, TRUE) \/ Enter(h, FALSE)
        /\ UNCHANGED <<life, parent, child_ev_list, my_ptr, stop_inited, manager,
                       registered_utils, finish_calls, late>>
    BY <1>1 DEF RunIo, TimerAborted, Dispatched
  <2>2. stack' \in Seq(Frame) /\ FramesSound'
    BY <2>1, EnterFacts
  <2>3. handler' \in [Hid -> Handler \cup {NoHandler}] /\ HandlersSound(handler')
    BY <2>1, TakenFacts
  <2> QED BY <2>1, <2>2, <2>3, QuietKeeps DEF HandlersSound
<1>2. ASSUME TimerTick(h) PROVE IInv'
  <2> DEFINE e == handler[h].ev
  <2>1. /\ handler[h].st # "none" /\ life[e] = "live"
        /\ Enter(h, FALSE)
        /\ handler' = [CancelTimer(handler, e) EXCEPT ![h] = WrapAsioCb(e, "timer", "pending")]
        /\ UNCHANGED <<life, parent, child_ev_list, my_ptr, stop_inited, manager,
                       registered_utils, finish_calls, late>>
    BY <1>2 DEF TimerTick, Dispatched
  <2>2. stack' \in Seq(Frame) /\ FramesSound'
    BY <2>1, EnterFacts
  <2>3. PICK x : x = WrapAsioCb(e, "timer", "pending")
    OBVIOUS
  <2>4. e \in Ev
    BY <2>1, TakenFacts
  <2>5. x \in Handler /\ IF x.holds THEN life[x.ev] = "live" ELSE stop_inited[x.ev]
    BY <2>1, <2>3, <2>4, WrapSound
  <2>6. PICK hs : hs = CancelTimer(handler, e)
    OBVIOUS
  <2>7. hs \in [Hid -> Handler \cup {NoHandler}] /\ HandlersSound(hs)
    BY <2>4, <2>6, CancelTimerSound DEF IInv, TypeOK
  <2>8. handler' = [hs EXCEPT ![h] = x]
    BY <2>1, <2>3, <2>6
  <2>9. handler' \in [Hid -> Handler \cup {NoHandler}] /\ HandlersSound(handler')
    BY <2>5, <2>7, <2>8, SlotSound
  <2> QED BY <2>1, <2>2, <2>9, QuietKeeps DEF HandlersSound
<1>3. ASSUME TimerExpired(h) PROVE IInv'
  <2> DEFINE e == handler[h].ev
  <2>1. /\ handler[h].st # "none" /\ life[e] = "live"
        /\ Enter(h, FALSE)
        /\ StopAll(StopSet(e), Taken(h))
    BY <1>3 DEF TimerExpired, Dispatched
  <2>2. life' = life
    BY <2>1 DEF StopAll
  <2>3. stack' \in Seq(Frame) /\ FramesSound'
    BY <2>1, <2>2, EnterFacts
  <2>4. PICK S : S = StopSet(e)
    OBVIOUS
  <2>5. PICK hs : hs = Taken(h)
    OBVIOUS
  <2>6. e \in Ev
    BY <2>1, TakenFacts
  <2>7. S \in SUBSET Ev /\ \A x \in S : Unfinished(x) /\ child_ev_list[x] \subseteq S
    BY <2>1, <2>4, <2>6, StopSetFacts
  <2>8. hs \in [Hid -> Handler \cup {NoHandler}] /\ HandlersSound(hs) /\ StopAll(S, hs)
    BY <2>1, <2>4, <2>5, TakenFacts
  <2>9. /\ TypeOK' <=> stack' \in Seq(Frame)
        /\ SelfWhileUnfinished' /\ LifeAndStop' /\ HandlersSound(handler)'
        /\ FinishedOnce' /\ TreeExact' /\ ParentOutlivesChild' /\ UtilsLetGo'
    BY <2>7, <2>8, StopAllKeeps
  <2> QED BY <2>3, <2>9 DEF IInv
<1>4. ASSUME RunOnDestructed(h) PROVE IInv'
  <2>1. /\ handler[h].st # "none"
        /\ handler' = Taken(h)
        /\ UNCHANGED <<life, parent, child_ev_list, my_ptr, stop_inited, stack,
                       manager, registered_utils, finish_calls, late>>
    BY <1>4 DEF RunOnDestructed
  <2>2. handler' \in [Hid -> Handler \cup {NoHandler}] /\ HandlersSound(handler')
    BY <2>1, TakenFacts
  <2> QED BY <2>1, <2>2, QuietKeeps DEF HandlersSound, FramesSound, IInv, TypeOK
<1> QED BY <1>1, <1>2, <1>3, <1>4 DEF Run

-----------------------------------------------------------------------------
\* Every step preserves the invariant.
LEMMA NextIInv == IInv /\ [Next]_vars => IInv'
<1> SUFFICES ASSUME IInv, [Next]_vars PROVE IInv'
  OBVIOUS
<1>1. ASSUME NEW p \in Ev, NEW c \in Ev, CreateChild(p, c) PROVE IInv'
  BY <1>1, CreateChildKeeps
<1>2. ASSUME NEW e \in Ev, NEW h \in Hid, StartOp(e, h) \/ ResetTimer(e, h) PROVE IInv'
  BY <1>2, StartKeeps
<1>3. ASSUME NEW e \in Ev, Stop(e) PROVE IInv'
  BY <1>3, StopKeeps
<1>4. ASSUME NEW u \in Util, NEW e \in Ev, InitAsync(u, e) PROVE IInv'
  BY <1>4, InitAsyncKeeps
<1>5. ASSUME Return PROVE IInv'
  BY <1>5, ReturnKeeps
<1>6. ASSUME NEW h \in Hid, Complete(h) PROVE IInv'
  BY <1>6, CompleteKeeps
<1>7. ASSUME NEW h \in Hid, Run(h) PROVE IInv'
  BY <1>7, RunKeeps
<1>8. CASE UNCHANGED vars
  BY <1>8, QuietKeeps DEF vars, IInv, TypeOK, HandlersSound, FramesSound
<1> QED BY <1>1, <1>2, <1>3, <1>4, <1>5, <1>6, <1>7, <1>8 DEF Next

\* The invariant holds throughout, whatever the events, utils and slots are.
THEOREM Invariance == Spec => []IInv
<1>1. Init => IInv
  BY InitIInv
<1>2. IInv /\ [Next]_vars => IInv'
  BY NextIInv
<1> QED BY <1>1, <1>2, PTL DEF Spec

\* Type correctness: AEventAbstract never leaves a variable outside its type.
THEOREM TypeCorrect == Spec => []TypeOK
<1>1. IInv => TypeOK
  BY DEF IInv
<1> QED BY <1>1, Invariance, PTL

\* However stop() is entered, each event reports to its parent exactly once.
THEOREM FinishCallbackOnce == Spec => []FinishedOnce
<1>1. IInv => FinishedOnce
  BY DEF IInv
<1> QED BY <1>1, Invariance, PTL

\* The child lists hold just the unfinished children, so stop() reaches them all.
THEOREM ChildListsExact == Spec => []TreeExact
<1>1. IInv => TreeExact
  BY DEF IInv
<1> QED BY <1>1, Invariance, PTL

\* The raw parent pointer in a child's finish callback does not dangle, but for
\* children begun below a parent that had stopped.
THEOREM ParentPointerValid == Spec => []ParentOutlivesChild
<1>1. IInv => ParentOutlivesChild
  BY DEF IInv
<1> QED BY <1>1, Invariance, PTL

\* A handler that carries a pointer finds its event alive when it runs.
THEOREM HandlerPointerValid == Spec => []HolderKeepsAlive
<1>1. IInv => HolderKeepsAlive
  BY DEF IInv, HandlersSound, HolderKeepsAlive
<1> QED BY <1>1, Invariance, PTL

\* A util never keeps a finished event.
THEOREM UtilsRelease == Spec => []UtilsLetGo
<1>1. IInv => UtilsLetGo
  BY DEF IInv
<1> QED BY <1>1, Invariance, PTL

-----------------------------------------------------------------------------
\* What a slot may hold behind a step: the handler it held, the same handler with
\* its result, one that carries no pointer, or that of an unfinished event.
CarriedOn(x, y) ==
    \/ y = x
    \/ /\ x.st = "pending" /\ y.st # "pending"
       /\ y.ev = x.ev /\ y.op = x.op /\ y.holds = x.holds
    \/ ~y.holds
    \/ ~stop_inited[y.ev] /\ UNCHANGED stop_inited

\* An operation that has its result is the one it was.
LEMMA ResultCarries ==
    ASSUME NEW x \in Handler \cup {NoHandler}, NEW y, NEW st \in {"ok", "failed"},
           x.st = "pending", y = [x EXCEPT !.st = st]
    PROVE  CarriedOn(x, y)
<1>1. x \in Handler
  BY DEF NoHandler
<1>2. y.st # "pending" /\ y.ev = x.ev /\ y.op = x.op /\ y.holds = x.holds
  BY <1>1 DEF Handler
<1> QED BY <1>2 DEF CarriedOn

\* A handler that wrap_asio_cb makes carries no pointer to a finished event.
LEMMA WrapCarries ==
    ASSUME IInv, NEW e \in Ev, NEW op, NEW st, NEW x, UNCHANGED stop_inited
    PROVE  CarriedOn(x, WrapAsioCb(e, op, st))
<1>1. my_ptr[e] => ~stop_inited[e]
  BY DEF IInv, SelfWhileUnfinished, Unfinished
<1>2. /\ WrapAsioCb(e, op, st).ev = e
      /\ WrapAsioCb(e, op, st).holds = my_ptr[e]
  BY DEF WrapAsioCb
<1> QED BY <1>1, <1>2 DEF CarriedOn

\* So does every step that starts, cancels or runs a timer.
LEMMA TimerCarries ==
    ASSUME IInv, NEW e \in Ev, NEW h \in Hid, NEW k \in Hid, UNCHANGED stop_inited,
           handler' = [CancelTimer(handler, e) EXCEPT ![h] =
                          WrapAsioCb(e, "timer", "pending")]
    PROVE  CarriedOn(handler[k], handler'[k])
<1>1. PICK x, y : x = handler[k] /\ y = handler'[k]
  OBVIOUS
<1>2. x \in Handler \cup {NoHandler}
  BY <1>1 DEF IInv, TypeOK
<1>3. CASE k = h
  <2>1. y = WrapAsioCb(e, "timer", "pending")
    BY <1>1, <1>3 DEF CancelTimer
  <2> QED BY ONLY <1>1, <2>1, WrapCarries, IInv, e \in Ev, UNCHANGED stop_inited
<1>4. CASE k # h
  <2>1. y = x \/ (x.st = "pending" /\ y = [x EXCEPT !.st = "failed"])
    BY <1>1, <1>4 DEF CancelTimer
  <2>2. CASE y = x
    BY ONLY <1>1, <2>2 DEF CarriedOn
  <2> QED BY ONLY <1>1, <1>2, <2>1, <2>2, ResultCarries
<1> QED BY <1>3, <1>4

\* stop() of the events S, of which one may have had its handler taken off the
\* queue: what their handlers were they are, and none of theirs is left pending
\* but an operation that _ev_stop does not cancel.
LEMMA StopAllCarries ==
    ASSUME IInv, NEW S, NEW hs \in [Hid -> Handler \cup {NoHandler}],
           NEW k \in Hid, hs[k] \in {handler[k], NoHandler}, StopAll(S, hs)
    PROVE  /\ CarriedOn(handler[k], handler'[k])
           /\ handler'[k].ev \in S /\ handler'[k].st = "pending" =>
                 handler'[k].op = "io" /\ handler'[k].ev \in Uncancelled
<1>1. PICK w, x, y : w = handler[k] /\ x = hs[k] /\ y = handler'[k]
  OBVIOUS
<1>2. x \in Handler \cup {NoHandler} /\ (x = w \/ x = NoHandler)
  BY <1>1
<1>3. IF x.ev \in S /\ x.st = "pending" /\ (x.op = "timer" \/ x.ev \notin Uncancelled)
      THEN y = [x EXCEPT !.st = "failed"]
      ELSE y = x
  BY <1>1 DEF StopAll, CancelIo
<1>4. x = NoHandler => ~x.holds /\ x.st = "none"
  BY DEF NoHandler
<1>5. CASE y = x
  <2>1. CarriedOn(w, y)
    BY ONLY <1>2, <1>4, <1>5 DEF CarriedOn
  <2>2. x.st = "pending" => x.op \in {"timer", "io"}
    BY ONLY <1>2, <1>4 DEF Handler
  <2>3. x.st = "pending" => [x EXCEPT !.st = "failed"].st = "failed"
    BY ONLY <1>2, <1>4 DEF Handler
  <2>4. y.ev \in S /\ y.st = "pending" => y.op = "io" /\ y.ev \in Uncancelled
    BY ONLY <1>3, <1>5, <2>2, <2>3
  <2> QED BY ONLY <1>1, <2>1, <2>4
<1>6. CASE x.st = "pending" /\ y = [x EXCEPT !.st = "failed"]
  <2>1. x = w
    BY ONLY <1>2, <1>4, <1>6
  <2>2. CarriedOn(w, y)
    BY ONLY <1>2, <1>6, <2>1, ResultCarries
  <2>3. y.st = "failed"
    BY ONLY <1>2, <1>4, <1>6 DEF Handler
  <2> QED BY ONLY <1>1, <2>2, <2>3
<1> QED BY ONLY <1>3, <1>5, <1>6

\* Every step carries every handler on, and leaves none pending of the events it
\* stops but what _ev_stop does not cancel.
LEMMA NextCarries ==
    ASSUME IInv, Next, NEW k \in Hid
    PROVE  /\ CarriedOn(handler[k], handler'[k])
           /\ \/ UNCHANGED stop_inited
              \/ \E S \in SUBSET Ev :
                    /\ \A e \in Ev : stop_inited'[e] <=> stop_inited[e] \/ e \in S
                    /\ handler'[k].ev \in S /\ handler'[k].st = "pending" =>
                          handler'[k].op = "io" /\ handler'[k].ev \in Uncancelled
<1> DEFINE Stopped ==
        \E S \in SUBSET Ev :
           /\ \A e \in Ev : stop_inited'[e] <=> stop_inited[e] \/ e \in S
           /\ handler'[k].ev \in S /\ handler'[k].st = "pending" =>
                 handler'[k].op = "io" /\ handler'[k].ev \in Uncancelled
<1>0. /\ handler \in [Hid -> Handler \cup {NoHandler}]
      /\ \A x : CarriedOn(x, x)
  BY DEF IInv, TypeOK, CarriedOn
<1>1. ASSUME NEW p \in Ev, NEW c \in Ev, CreateChild(p, c)
      PROVE  CarriedOn(handler[k], handler'[k]) /\ UNCHANGED stop_inited
  <2>1. PICK h \in Hid : handler' = [handler EXCEPT ![h] =
               [ev |-> c, op |-> "timer", st |-> "pending", holds |-> TRUE]]
    BY <1>1 DEF CreateChild
  <2>2. ~stop_inited[c] /\ UNCHANGED stop_inited
    BY <1>1 DEF CreateChild, IInv, LifeAndStop
  <2>3. CASE k = h
    <3>1. handler'[k].ev = c
      BY <1>0, <2>1, <2>3
    <3> QED BY <2>2, <3>1 DEF CarriedOn
  <2>4. CASE k # h
    BY <1>0, <2>1, <2>2, <2>4
  <2> QED BY <2>3, <2>4
<1>2. ASSUME NEW e \in Ev, NEW h \in Hid, StartOp(e, h)
      PROVE  CarriedOn(handler[k], handler'[k]) /\ UNCHANGED stop_inited
  <2>1. PICK st : handler' = [handler EXCEPT ![h] = WrapAsioCb(e, "io", st)]
    BY <1>2 DEF StartOp
  <2>2. UNCHANGED stop_inited
    BY <1>2 DEF StartOp
  <2>3. handler'[k] = IF k = h THEN WrapAsioCb(e, "io", st) ELSE handler[k]
    BY <1>0, <2>1
  <2>4. CASE k = h
    BY <2>2, <2>3, <2>4, WrapCarries
  <2>5. CASE k # h
    BY <1>0, <2>2, <2>3, <2>5
  <2> QED BY <2>4, <2>5
<1>3. ASSUME NEW e \in Ev, NEW h \in Hid, ResetTimer(e, h)
      PROVE  CarriedOn(handler[k], handler'[k]) /\ UNCHANGED stop_inited
  BY <1>3, TimerCarries DEF ResetTimer
<1>4. ASSUME NEW e \in Ev, Stop(e)
      PROVE  CarriedOn(handler[k], handler'[k]) /\ Stopped
  <2>1. PICK S : S = StopSet(e) /\ StopAll(S, handler)
    BY <1>4 DEF Stop
  <2>2. S \in SUBSET Ev
    BY <2>1 DEF StopSet
  <2>3. \A x \in Ev : stop_inited'[x] <=> stop_inited[x] \/ x \in S
    BY <2>1 DEF StopAll
  <2> QED BY <1>0, <2>1, <2>2, <2>3, StopAllCarries
<1>5. ASSUME NEW u \in Util, NEW e \in Ev, InitAsync(u, e)
      PROVE  CarriedOn(handler[k], handler'[k]) /\ UNCHANGED stop_inited
  BY <1>0, <1>5 DEF InitAsync
<1>6. ASSUME Return
      PROVE  CarriedOn(handler[k], handler'[k]) /\ UNCHANGED stop_inited
  <2>1. PICK x, y : x = handler[k] /\ y = handler'[k]
    OBVIOUS
  <2>2. /\ y = x \/ (x.st = "pending" /\ y = [x EXCEPT !.st = "failed"])
        /\ UNCHANGED stop_inited
    BY <1>6, <2>1 DEF Return, CancelAll
  <2>3. x \in Handler \cup {NoHandler}
    BY <1>0, <2>1
  <2> QED BY ONLY <1>0, <2>1, <2>2, <2>3, ResultCarries
<1>7. ASSUME NEW h \in Hid, Complete(h)
      PROVE  CarriedOn(handler[k], handler'[k]) /\ UNCHANGED stop_inited
  <2>1. PICK st \in {"ok", "failed"} : handler' = [handler EXCEPT ![h].st = st]
    BY <1>7 DEF Complete
  <2>2. handler[h].st = "pending" /\ UNCHANGED stop_inited
    BY <1>7 DEF Complete
  <2>3. handler'[k] = IF k = h THEN [handler[h] EXCEPT !.st = st] ELSE handler[k]
    BY <1>0, <2>1
  <2>4. CASE k = h
    BY <1>0, <2>2, <2>3, <2>4, ResultCarries
  <2>5. CASE k # h
    BY <1>0, <2>2, <2>3, <2>5
  <2> QED BY <2>4, <2>5
<1>8. ASSUME NEW h \in Hid, handler' = Taken(h), UNCHANGED stop_inited
      PROVE  CarriedOn(handler[k], handler'[k]) /\ UNCHANGED stop_inited
  <2>1. handler'[k] = handler[k] \/ ~handler'[k].holds
    BY <1>0, <1>8 DEF Taken, NoHandler
  <2> QED BY <1>8, <2>1 DEF CarriedOn
<1>9. ASSUME NEW h \in Hid, TimerTick(h)
      PROVE  CarriedOn(handler[k], handler'[k]) /\ UNCHANGED stop_inited
  <2>1. handler[h].ev \in Ev
    BY <1>0, <1>9 DEF TimerTick, Dispatched, NoHandler, Handler
  <2> QED BY <1>9, <2>1, TimerCarries DEF TimerTick
<1>10. ASSUME NEW h \in Hid, TimerExpired(h)
       PROVE  CarriedOn(handler[k], handler'[k]) /\ Stopped
  <2>1. PICK S : S = StopSet(handler[h].ev) /\ StopAll(S, Taken(h))
    BY <1>10 DEF TimerExpired
  <2>2. S \in SUBSET Ev
    BY <2>1 DEF StopSet
  <2>3. \A x \in Ev : stop_inited'[x] <=> stop_inited[x] \/ x \in S
    BY <2>1 DEF StopAll
  <2>4. /\ Taken(h) \in [Hid -> Handler \cup {NoHandler}]
        /\ Taken(h)[k] \in {handler[k], NoHandler}
    BY <1>0 DEF Taken
  <2> QED BY <2>1, <2>2, <2>3, <2>4, StopAllCarries
<1>11. ASSUME NEW h \in Hid, Run(h)
       PROVE  CarriedOn(handler[k], handler'[k]) /\ (UNCHANGED stop_inited \/ Stopped)
  <2>1. CASE RunIo(h) \/ TimerAborted(h) \/ RunOnDestructed(h)
    <3>1. handler' = Taken(h) /\ UNCHANGED stop_inited
      BY <2>1 DEF RunIo, TimerAborted, RunOnDestructed
    <3> QED BY <1>8, <3>1
  <2> QED BY <1>9, <1>10, <1>11, <2>1 DEF Run
<1> HIDE DEF Stopped
<1>12. CarriedOn(handler[k], handler'[k]) /\ (UNCHANGED stop_inited \/ Stopped)
  BY <1>1, <1>2, <1>3, <1>4, <1>5, <1>6, <1>7, <1>11 DEF Next
<1> QED BY <1>12 DEF Stopped

\* What waits and carries a pointer is of an unfinished event, or is an operation
\* that _ev_stop does not cancel.
Waiting(x) ==
    x.holds /\ x.st = "pending" /\ stop_inited[x.ev] =>
        x.op = "io" /\ x.ev \in Uncancelled

NothingWaits == \A h \in Hid : handler[h] # NoHandler => Waiting(handler[h])

LEMMA NextWaits == IInv /\ NothingWaits /\ [Next]_vars => NothingWaits'
<1> SUFFICES ASSUME IInv, NothingWaits, [Next]_vars, NEW k \in Hid,
                    handler'[k] # NoHandler
             PROVE  Waiting(handler[k])'
  BY DEF NothingWaits
<1>1. CASE UNCHANGED vars
  <2>1. UNCHANGED <<handler, stop_inited>>
    BY <1>1 DEF vars
  <2> QED BY <2>1 DEF NothingWaits, Waiting
<1>2. CASE Next
  <2>1. PICK x, y : x = handler[k] /\ y = handler'[k]
    OBVIOUS
  <2>2. y \in Handler /\ x \in Handler \cup {NoHandler}
    <3>1. IInv'
      BY <1>2, NextIInv
    <3> QED BY <2>1, <3>1 DEF IInv, TypeOK
  <2>3. y.ev \in Ev
    BY ONLY <2>2 DEF Handler
  <2>4. CarriedOn(x, y)
    BY ONLY IInv, <1>2, <2>1, k \in Hid, NextCarries
  <2>5. CASE UNCHANGED stop_inited
    <3>1. x # NoHandler => Waiting(x)
      BY <2>1 DEF NothingWaits
    <3>2. x = NoHandler => ~x.holds
      BY DEF NoHandler
    <3>3. y.holds /\ y.st = "pending" /\ stop_inited[y.ev] =>
             y.op = "io" /\ y.ev \in Uncancelled
      BY ONLY <2>4, <3>1, <3>2 DEF CarriedOn, Waiting
    <3> QED BY ONLY <2>1, <2>5, <3>3 DEF Waiting
  <2>6. CASE \E S \in SUBSET Ev :
                /\ \A e \in Ev : stop_inited'[e] <=> stop_inited[e] \/ e \in S
                /\ handler'[k].ev \in S /\ handler'[k].st = "pending" =>
                      handler'[k].op = "io" /\ handler'[k].ev \in Uncancelled
    <3>1. PICK S \in SUBSET Ev :
             /\ stop_inited'[y.ev] => stop_inited[y.ev] \/ y.ev \in S
             /\ y.ev \in S /\ y.st = "pending" => y.op = "io" /\ y.ev \in Uncancelled
      BY ONLY <2>1, <2>3, <2>6
    <3>2. x # NoHandler => Waiting(x)
      BY <2>1 DEF NothingWaits
    <3>3. x = NoHandler => ~x.holds
      BY DEF NoHandler
    <3>4. y.holds /\ y.st = "pending" /\ stop_inited'[y.ev] =>
             y.op = "io" /\ y.ev \in Uncancelled
      BY ONLY <2>4, <3>1, <3>2, <3>3 DEF CarriedOn, Waiting
    <3> QED BY ONLY <2>1, <3>4 DEF Waiting
  <2> QED BY ONLY IInv, <1>2, k \in Hid, <2>5, <2>6, NextCarries
<1> QED BY <1>1, <1>2

\* FinishedLetsGo: what keeps a finished event is handlers in the queue, frames
\* of calls, main() and an operation that _ev_stop does not cancel.
THEOREM FinishedIsLetGo == Spec => []FinishedLetsGo
<1>1. Init => NothingWaits
  BY AEventAssumption DEF Init, NothingWaits, Waiting, NoHandler
<1>2. IInv /\ NothingWaits => FinishedLetsGo
  <2> SUFFICES ASSUME IInv, NothingWaits, NEW e \in Ev, stop_inited[e]
               PROVE  /\ ~my_ptr[e]
                      /\ \A p \in Ev : e \notin child_ev_list[p]
                      /\ \A u \in Util : manager[u] # e
                      /\ \A h \in Hid :
                            handler[h].ev = e /\ handler[h].holds
                               /\ handler[h].st = "pending" =>
                                  handler[h].op = "io" /\ e \in Uncancelled
    BY DEF FinishedLetsGo
  <2>1. ~Unfinished(e)
    BY DEF Unfinished
  <2>2. ~my_ptr[e] /\ \A p \in Ev : e \notin child_ev_list[p]
    BY <2>1 DEF IInv, SelfWhileUnfinished, TreeExact
  <2>3. \A u \in Util : manager[u] # e
    BY <2>1, AEventAssumption DEF IInv, UtilsLetGo
  <2>4. ASSUME NEW h \in Hid, handler[h].ev = e, handler[h].holds,
               handler[h].st = "pending"
        PROVE  handler[h].op = "io" /\ e \in Uncancelled
    <3>1. handler[h] # NoHandler
      BY <2>4, NoHandlerFacts
    <3> QED BY <2>4, <3>1 DEF NothingWaits, Waiting
  <2> QED BY <2>2, <2>3, <2>4
<1> QED BY <1>1, <1>2, NextWaits, Invariance, PTL DEF Spec

\* FinishedStaysReleased: no handler takes hold of an event that has finished,
\* neither of an operation it starts nor of its timer.
THEOREM FinishedIsNotHeldAgain == Spec => FinishedStaysReleased
<1> DEFINE Released ==
        \A e \in Ev, h \in Hid :
          stop_inited[e] /\ handler'[h].ev = e /\ handler'[h].holds =>
              /\ handler[h].ev = e /\ handler[h].holds
              /\ handler[h].st # "pending" => handler'[h] = handler[h]
<1>1. ASSUME IInv, Next PROVE Released
  <2> SUFFICES ASSUME NEW e \in Ev, NEW h \in Hid,
                      stop_inited[e], handler'[h].ev = e, handler'[h].holds
               PROVE  /\ handler[h].ev = e /\ handler[h].holds
                      /\ handler[h].st # "pending" => handler'[h] = handler[h]
    OBVIOUS
  <2>1. CarriedOn(handler[h], handler'[h])
    BY <1>1, NextCarries
  <2> QED BY <2>1 DEF CarriedOn
<1>2. IInv /\ [Next]_vars => [Released]_vars
  BY <1>1
<1>3. Spec => [][Released]_vars
  BY <1>2, Invariance, PTL DEF Spec
<1> QED BY <1>3 DEF FinishedStaysReleased

-----------------------------------------------------------------------------
\* An unfinished event has a wait for its timer, which carries a pointer to it
\* and has not been cancelled.
TimerArmed ==
    \A e \in Ev : Unfinished(e) =>
        \E h \in Hid : /\ handler[h].ev = e
                       /\ handler[h].op = "timer"
                       /\ handler[h].holds
                       /\ handler[h].st \in {"pending", "ok"}

LiveIsHeld == \A e \in Ev : life[e] = "live" => HeldBy(e, stack)

\* Nothing is leaked, together with what keeps it so.
LeakInv == IInv /\ TimerArmed /\ LiveIsHeld

\* What holds an event besides itself, a handler and a frame holds it only as
\* long as it holds itself.
LEMMA HolderKinds ==
    ASSUME IInv, NEW e \in Ev, NEW s, HeldBy(e, s)
    PROVE  \/ e = Root
           \/ my_ptr[e]
           \/ \E h \in Hid : handler[h].ev = e /\ handler[h].holds
           \/ \E i \in 1..Len(s) : s[i].ev = e /\ s[i].holds
<1>1. ASSUME NEW p \in Ev, e \in child_ev_list[p] PROVE my_ptr[e]
  BY <1>1 DEF IInv, TreeExact, SelfWhileUnfinished
<1>2. ASSUME NEW u \in Util, manager[u] = e PROVE my_ptr[e]
  <2>1. manager[u] # NoEv
    BY <1>2, AEventAssumption
  <2> QED BY <1>2, <2>1 DEF IInv, UtilsLetGo, SelfWhileUnfinished
<1> QED BY <1>1, <1>2 DEF HeldBy

\* A step that keeps the self pointers and the holding handlers and frames of
\* live events, and begins none, leaks nothing.
LEMMA KeepsHeld ==
    ASSUME LeakInv,
           \A e \in Ev : life'[e] = "live" => life[e] = "live",
           \A e \in Ev : life'[e] = "live" /\ my_ptr[e] =>
               \/ my_ptr'[e]
               \/ \E h \in Hid : handler'[h].ev = e /\ handler'[h].holds,
           \A h \in Hid : handler[h].holds /\ life'[handler[h].ev] = "live" =>
               \/ /\ handler'[h].ev = handler[h].ev
                  /\ handler'[h].holds
               \/ \E i \in 1..Len(stack') :
                     stack'[i].ev = handler[h].ev /\ stack'[i].holds,
           \A i \in 1..Len(stack) : stack[i].holds =>
               \E j \in 1..Len(stack') : stack'[j].ev = stack[i].ev /\ stack'[j].holds
    PROVE  LiveIsHeld'
<1> SUFFICES ASSUME NEW e \in Ev, life'[e] = "live"
             PROVE  HeldBy(e, stack)'
  BY DEF LiveIsHeld
<1>1. HeldBy(e, stack)
  BY DEF LeakInv, LiveIsHeld
<1>2. CASE e = Root
  BY <1>2 DEF HeldBy
<1>3. CASE my_ptr[e]
  BY <1>3 DEF HeldBy
<1>4. CASE \E h \in Hid : handler[h].ev = e /\ handler[h].holds
  BY <1>4 DEF HeldBy
<1>5. CASE \E i \in 1..Len(stack) : stack[i].ev = e /\ stack[i].holds
  BY <1>5 DEF HeldBy
<1> QED BY <1>1, <1>2, <1>3, <1>4, <1>5, HolderKinds DEF LeakInv

\* A step leaves the timers of unfinished events armed when it touches none.
LEMMA KeepsArmed ==
    ASSUME LeakInv,
           \A e \in Ev : Unfinished(e)' => Unfinished(e),
           \A e \in Ev, h \in Hid :
               /\ Unfinished(e)'
               /\ handler[h] \in Handler
               /\ handler[h].ev = e
               /\ handler[h].op = "timer"
               /\ handler[h].holds
               /\ handler[h].st \in {"pending", "ok"}
               => \E g \in Hid : /\ handler'[g].ev = e
                                 /\ handler'[g].op = "timer"
                                 /\ handler'[g].holds
                                 /\ handler'[g].st \in {"pending", "ok"}
    PROVE  TimerArmed'
<1> SUFFICES ASSUME NEW e \in Ev, Unfinished(e)'
             PROVE  \E g \in Hid : /\ handler'[g].ev = e
                                   /\ handler'[g].op = "timer"
                                   /\ handler'[g].holds
                                   /\ handler'[g].st \in {"pending", "ok"}
  BY DEF TimerArmed
<1>1. PICK h \in Hid : /\ handler[h].ev = e
                       /\ handler[h].op = "timer"
                       /\ handler[h].holds
                       /\ handler[h].st \in {"pending", "ok"}
  BY DEF LeakInv, TimerArmed
<1>2. handler[h] # NoHandler
  BY <1>1, NoHandlerFacts
<1>3. handler[h] \in Handler
  BY <1>2 DEF LeakInv, IInv, TypeOK
<1> QED BY <1>1, <1>3

-----------------------------------------------------------------------------
\* The initial states leak nothing.
LEMMA InitLeak == Init => LeakInv
<1> SUFFICES ASSUME Init PROVE TimerArmed /\ LiveIsHeld
  BY InitIInv DEF LeakInv
<1>1. PICK h \in Hid : handler = [x \in Hid |->
            IF x = h
            THEN [ev |-> Root, op |-> "timer", st |-> "pending", holds |-> TRUE]
            ELSE NoHandler]
  BY DEF Init
<1>2. TimerArmed
  BY <1>1 DEF Init, TimerArmed, Unfinished
<1>3. LiveIsHeld
  BY DEF Init, LiveIsHeld, HeldBy
<1> QED BY <1>2, <1>3

\* create_child: the child holds itself, and its timer is started.
LEMMA CreateChildLeak ==
    ASSUME LeakInv, NEW p \in Ev, NEW c \in Ev, CreateChild(p, c)
    PROVE  TimerArmed' /\ LiveIsHeld'
<1> DEFINE timer == [ev |-> c, op |-> "timer", st |-> "pending", holds |-> TRUE]
           frame == [ev |-> c, holds |-> TRUE, open |-> TRUE]
<1>0. IInv
  BY DEF LeakInv
<1>1. /\ life[c] = "none" /\ life' = [life EXCEPT ![c] = "live"]
      /\ my_ptr' = [my_ptr EXCEPT ![c] = TRUE]
      /\ stack' = Append(stack, frame)
      /\ stop_inited' = stop_inited
  BY DEF CreateChild
<1>2. PICK h \in Hid : /\ handler[h] = NoHandler
                       /\ handler' = [handler EXCEPT ![h] = timer]
  BY DEF CreateChild, Free
<1>3. \A e \in Ev : e # c => (life'[e] = life[e] /\ my_ptr'[e] = my_ptr[e])
  BY <1>1 DEF IInv, TypeOK
<1>4. handler'[h] = timer /\ \A g \in Hid : g # h => handler'[g] = handler[g]
  BY <1>2, <1>0 DEF IInv, TypeOK
<1>5. TimerArmed'
  <2> SUFFICES ASSUME NEW e \in Ev, Unfinished(e)'
               PROVE  \E g \in Hid : /\ handler'[g].ev = e
                                     /\ handler'[g].op = "timer"
                                     /\ handler'[g].holds
                                     /\ handler'[g].st \in {"pending", "ok"}
    BY DEF TimerArmed
  <2>1. CASE e = c
    BY <1>4, <2>1
  <2>2. CASE e # c
    <3>1. Unfinished(e)
      BY <1>1, <1>3, <2>2 DEF Unfinished
    <3>2. PICK g \in Hid : /\ handler[g].ev = e
                           /\ handler[g].op = "timer"
                           /\ handler[g].holds
                           /\ handler[g].st \in {"pending", "ok"}
      BY <3>1 DEF LeakInv, TimerArmed
    <3>3. g # h
      BY <1>2, <3>2, NoHandlerFacts
    <3> QED BY <1>4, <3>2, <3>3
  <2> QED BY <2>1, <2>2
<1>6. LiveIsHeld'
  <2> SUFFICES ASSUME NEW e \in Ev, life'[e] = "live"
               PROVE  HeldBy(e, stack)'
    BY DEF LiveIsHeld
  <2>1. CASE e = c
    <3>1. my_ptr'[c]
      BY <1>0, <1>1 DEF IInv, TypeOK
    <3> QED BY <2>1, <3>1 DEF HeldBy
  <2>2. CASE e # c
    <3>1. HeldBy(e, stack)
      BY <1>3, <2>2 DEF LeakInv, LiveIsHeld
    <3>2. CASE e = Root \/ my_ptr[e]
      BY <1>3, <2>2, <3>2 DEF HeldBy
    <3>3. CASE \E g \in Hid : handler[g].ev = e /\ handler[g].holds
      <4>1. PICK g \in Hid : handler[g].ev = e /\ handler[g].holds
        BY <3>3
      <4>2. g # h
        BY <1>2, <4>1, NoHandlerFacts
      <4>3. handler'[g] = handler[g]
        BY <1>4, <4>2
      <4> QED BY <4>1, <4>3 DEF HeldBy
    <3>4. CASE \E i \in 1..Len(stack) : stack[i].ev = e /\ stack[i].holds
      <4>1. PICK i \in 1..Len(stack) : stack[i].ev = e /\ stack[i].holds
        BY <3>4
      <4>2. stack \in Seq(Frame) /\ frame \in Frame
        BY <1>0 DEF IInv, TypeOK, Frame
      <4>3. i \in 1..Len(stack') /\ stack'[i] = stack[i]
        BY <1>1, <4>2
      <4> QED BY <4>1, <4>3 DEF HeldBy
    <3> QED BY <1>0, <3>1, <3>2, <3>3, <3>4, HolderKinds
  <2> QED BY <2>1, <2>2
<1> QED BY <1>5, <1>6

\* A derived class starts an operation or its timer, in a free slot.
LEMMA StartLeak ==
    ASSUME LeakInv, NEW e \in Ev, NEW h \in Hid, StartOp(e, h) \/ ResetTimer(e, h)
    PROVE  TimerArmed' /\ LiveIsHeld'
<1>0. IInv /\ handler \in [Hid -> Handler \cup {NoHandler}] /\ handler[h] = NoHandler
  BY DEF LeakInv, IInv, TypeOK, StartOp, ResetTimer, Free
<1>1. UNCHANGED <<life, my_ptr, stop_inited, stack>>
  BY DEF StartOp, ResetTimer
<1>2. \A g \in Hid : g # h => /\ handler'[g].ev = handler[g].ev
                              /\ handler'[g].holds = handler[g].holds
                              /\ handler'[g].op = handler[g].op
                              /\ \/ handler'[g] = handler[g]
                                 \/ ResetTimer(e, h) /\ handler[g].ev = e
  <2> SUFFICES ASSUME NEW g \in Hid, g # h
               PROVE  /\ handler'[g].ev = handler[g].ev
                      /\ handler'[g].holds = handler[g].holds
                      /\ handler'[g].op = handler[g].op
                      /\ \/ handler'[g] = handler[g]
                         \/ ResetTimer(e, h) /\ handler[g].ev = e
    OBVIOUS
  <2>1. CASE StartOp(e, h)
    <3>1. PICK st \in {"pending", "ok", "failed"} :
             handler' = [handler EXCEPT ![h] = WrapAsioCb(e, "io", st)]
      BY <2>1 DEF StartOp
    <3>2. handler'[g] = handler[g]
      BY <3>1, <1>0
    <3> QED BY <3>2
  <2>2. CASE ResetTimer(e, h)
    <3>1. handler'[g] = CancelTimer(handler, e)[g]
      BY <2>2, <1>0 DEF ResetTimer, CancelTimer
    <3>2. \/ handler'[g] = handler[g]
          \/ handler[g].ev = e /\ handler'[g] = [handler[g] EXCEPT !.st = "failed"]
      BY <3>1 DEF CancelTimer
    <3>3. CASE handler'[g] = handler[g]
      BY <3>3
    <3>4. CASE handler[g].ev = e /\ handler'[g] = [handler[g] EXCEPT !.st = "failed"]
      <4>1. handler[g] \in Handler
        BY <1>0, <3>4, NoHandlerFacts
      <4> QED BY <2>2, <3>4, <4>1 DEF Handler
    <3> QED BY <3>2, <3>3, <3>4
  <2> QED BY <2>1, <2>2 DEF StartOp, ResetTimer
<1>3. \A g \in Hid : handler[g].holds => g # h
  BY <1>0 DEF NoHandler
<1>4. LiveIsHeld'
  BY <1>1, <1>2, <1>3, KeepsHeld
<1>5. TimerArmed'
  <2>1. \A x \in Ev : Unfinished(x)' <=> Unfinished(x)
    BY <1>1 DEF Unfinished
  <2>2. ASSUME NEW y \in Ev, Unfinished(y)',
               NEW g \in Hid, handler[g] \in Handler, handler[g].ev = y,
               handler[g].op = "timer", handler[g].holds,
               handler[g].st \in {"pending", "ok"}
        PROVE  \E x \in Hid : /\ handler'[x].ev = y
                              /\ handler'[x].op = "timer"
                              /\ handler'[x].holds
                              /\ handler'[x].st \in {"pending", "ok"}
    <3>1. g # h
      BY <1>3, <2>2
    <3>2. CASE handler'[g] = handler[g]
      BY <2>2, <3>2
    <3>3. CASE ResetTimer(e, h) /\ handler[g].ev = e
      <4>1. my_ptr[e]
        <5>1. Unfinished(y) /\ y = e
          BY <2>1, <2>2, <3>3
        <5>2. my_ptr[y]
          BY <1>0, <5>1 DEF IInv, SelfWhileUnfinished
        <5> QED BY <5>1, <5>2
      <4>2. handler'[h] = WrapAsioCb(e, "timer", "pending")
        BY <3>3 DEF ResetTimer, CancelTimer
      <4>3. handler'[h] = [ev |-> e, op |-> "timer", st |-> "pending", holds |-> my_ptr[e]]
        BY <4>2 DEF WrapAsioCb
      <4> QED BY <2>2, <3>3, <4>1, <4>3
    <3> QED BY <1>2, <3>1, <3>2, <3>3
  <2> QED BY <2>1, <2>2, KeepsArmed
<1> QED BY <1>4, <1>5

\* stop() and finish() of a set of events, of which the timers of the other ones
\* are left alone.  `h` may have been taken off the queue before.
LEMMA StopAllLeak ==
    ASSUME LeakInv, NEW S \in SUBSET Ev, \A x \in S : Unfinished(x),
           NEW hs \in [Hid -> Handler \cup {NoHandler}],
           StopAll(S, hs),
           \A g \in Hid : handler[g].holds =>
               \/ hs[g] = handler[g]
               \/ /\ \E i \in 1..Len(stack') :
                        stack'[i].ev = handler[g].ev /\ stack'[i].holds
                  /\ Unfinished(handler[g].ev) => handler[g].ev \in S,
           \A i \in 1..Len(stack) : stack[i].holds =>
               \E j \in 1..Len(stack') : stack'[j].ev = stack[i].ev /\ stack'[j].holds
    PROVE  TimerArmed' /\ LiveIsHeld'
<1>0. IInv
  BY DEF LeakInv
<1>1. /\ life' = life
      /\ \A x \in Ev : Unfinished(x)' <=> Unfinished(x) /\ x \notin S
      /\ my_ptr' = SelfReleased(S)
      /\ handler' = CancelIo(hs, S)
  BY <1>0 DEF StopAll, IInv, TypeOK, Unfinished
<1>2. \A g \in Hid : hs[g] \in Handler =>
         /\ handler'[g].ev = hs[g].ev
         /\ handler'[g].holds = hs[g].holds
         /\ handler'[g] = hs[g] \/ hs[g].ev \in S
  <2> TAKE g \in Hid
  <2>1. handler'[g] = hs[g] \/ (hs[g].ev \in S /\ handler'[g] = [hs[g] EXCEPT !.st = "failed"])
    BY <1>1 DEF CancelIo
  <2> QED BY <2>1 DEF Handler
<1>3. \A g \in Hid : handler[g].holds => handler[g] \in Handler /\ handler[g].ev \in Ev
  BY <1>0, NoHandlerFacts DEF IInv, TypeOK, NoHandler
<1>4. \A g \in Hid : handler[g].holds =>
         \/ handler'[g].ev = handler[g].ev /\ handler'[g].holds
         \/ \E i \in 1..Len(stack') : stack'[i].ev = handler[g].ev /\ stack'[i].holds
  <2> SUFFICES ASSUME NEW g \in Hid, handler[g].holds, hs[g] = handler[g]
               PROVE  handler'[g].ev = handler[g].ev /\ handler'[g].holds
    OBVIOUS
  <2> QED BY <1>2, <1>3
<1>5. LiveIsHeld'
  <2> SUFFICES ASSUME NEW e \in Ev, life[e] = "live"
               PROVE  HeldBy(e, stack)'
    BY <1>1 DEF LiveIsHeld
  <2>1. CASE e = Root
    BY <2>1 DEF HeldBy
  <2>2. CASE my_ptr[e] /\ e \notin S
    <3>1. my_ptr'[e]
      BY <1>1, <2>2 DEF SelfReleased
    <3> QED BY <3>1 DEF HeldBy
  <2>3. CASE \E g \in Hid : handler[g].ev = e /\ handler[g].holds
    BY <1>4, <2>3 DEF HeldBy
  <2>4. CASE e \in S
    <3>1. \E g \in Hid : handler[g].ev = e /\ handler[g].holds
      BY <2>4 DEF LeakInv, TimerArmed
    <3> QED BY <2>3, <3>1
  <2>5. CASE \E i \in 1..Len(stack) : stack[i].ev = e /\ stack[i].holds
    BY <2>5 DEF HeldBy
  <2>6. HeldBy(e, stack)
    BY DEF LeakInv, LiveIsHeld
  <2> QED BY <1>0, <2>1, <2>2, <2>3, <2>4, <2>5, <2>6, HolderKinds
<1>6. TimerArmed'
  <2>1. ASSUME NEW x \in Ev, Unfinished(x)',
               NEW g \in Hid, handler[g] \in Handler, handler[g].ev = x,
               handler[g].holds
        PROVE  handler'[g] = handler[g]
    <3>1. Unfinished(x) /\ x \notin S
      BY <1>1, <2>1
    <3>2. Unfinished(handler[g].ev)
      BY <2>1, <3>1
    <3>3. hs[g] = handler[g]
      BY <2>1, <3>1, <3>2
    <3> QED BY <1>2, <2>1, <3>1, <3>3
  <2>2. \A e \in Ev : Unfinished(e)' => Unfinished(e)
    BY <1>1
  <2> QED BY <2>1, <2>2, KeepsArmed
<1> QED BY <1>5, <1>6

\* stop() called by a derived class.
LEMMA StopLeak ==
    ASSUME LeakInv, NEW e \in Ev, Stop(e)
    PROVE  TimerArmed' /\ LiveIsHeld'
<1>0. IInv
  BY DEF LeakInv
<1>1. ~Idle /\ e = Top.ev /\ life[e] = "live"
  BY <1>0, TopFacts DEF Stop, Running, IInv, LifeAndStop, TypeOK
<1>2. PICK S : S = StopSet(e)
  OBVIOUS
<1>3. PICK hs : hs = handler
  OBVIOUS
<1>4. S \in SUBSET Ev /\ \A x \in S : Unfinished(x)
  BY <1>0, <1>1, <1>2, StopSetFacts
<1>5. hs \in [Hid -> Handler \cup {NoHandler}] /\ StopAll(S, hs)
  BY <1>0, <1>2, <1>3 DEF Stop, IInv, TypeOK
<1>6. \A i \in 1..Len(stack) : stack[i].holds =>
         \E j \in 1..Len(stack') : stack'[j].ev = stack[i].ev /\ stack'[j].holds
  <2>1. stack \in Seq(Frame) /\ Len(stack) \in 1..Len(stack) /\ Top \in Frame
    BY <1>0, <1>1, TopFacts DEF IInv, TypeOK
  <2>2. PICK f : f = [Top EXCEPT !.open = FALSE]
    OBVIOUS
  <2>3. f \in Frame /\ f.ev = Top.ev /\ f.holds = Top.holds
    BY <2>1, <2>2 DEF Frame
  <2>4. stack' = [stack EXCEPT ![Len(stack)] = f]
    BY <2>2 DEF Stop, Top
  <2>5. Len(stack') = Len(stack)
    BY <2>1, <2>3, <2>4
  <2>6. \A i \in 1..Len(stack) : stack'[i] = IF i = Len(stack) THEN f ELSE stack[i]
    BY <2>1, <2>4
  <2> QED BY <2>3, <2>5, <2>6 DEF Top
<1> QED BY <1>3, <1>4, <1>5, <1>6, StopAllLeak

\* A util that is attached to another event leaves one that holds itself.
LEMMA InitAsyncLeak ==
    ASSUME LeakInv, NEW u \in Util, NEW e \in Ev, InitAsync(u, e)
    PROVE  TimerArmed' /\ LiveIsHeld'
<1>1. UNCHANGED <<life, my_ptr, stop_inited, handler, stack>>
  BY DEF InitAsync
<1>2. LiveIsHeld'
  BY <1>1, KeepsHeld
<1>3. TimerArmed'
  BY <1>1 DEF LeakInv, TimerArmed, Unfinished
<1> QED BY <1>2, <1>3

\* What is destructed on a return is just what nothing points to.
LEMMA ReturnLeak ==
    ASSUME LeakInv, Return
    PROVE  TimerArmed' /\ LiveIsHeld'
<1>0. IInv
  BY DEF LeakInv
<1>1. PICK rest : rest = SubSeq(stack, 1, Len(stack) - 1)
  OBVIOUS
<1>2. PICK gone : gone = {e \in Ev : life[e] = "live" /\ ~HeldBy(e, rest)}
  OBVIOUS
<1>3. /\ stack' = rest
      /\ life' = [e \in Ev |-> IF e \in gone THEN "dead" ELSE life[e]]
      /\ handler' = CancelAll(handler, gone)
      /\ UNCHANGED <<my_ptr, stop_inited>>
  BY <1>1, <1>2 DEF Return
<1>4. \A h \in Hid : handler[h] \in Handler =>
         /\ handler'[h].ev = handler[h].ev
         /\ handler'[h].holds = handler[h].holds
         /\ handler'[h] = handler[h] \/ handler[h].ev \in gone
  <2> TAKE h \in Hid
  <2>1. \/ handler'[h] = handler[h]
        \/ handler[h].ev \in gone /\ handler'[h] = [handler[h] EXCEPT !.st = "failed"]
    BY <1>3 DEF CancelAll
  <2> QED BY <2>1 DEF Handler
<1>5. LiveIsHeld'
  <2> SUFFICES ASSUME NEW e \in Ev, life'[e] = "live"
               PROVE  HeldBy(e, stack)'
    BY DEF LiveIsHeld
  <2>1. HeldBy(e, rest)
    BY <1>2, <1>3
  <2>2. CASE \E h \in Hid : handler[h].ev = e /\ handler[h].holds
    <3>1. PICK h \in Hid : handler[h].ev = e /\ handler[h].holds
      BY <2>2
    <3>2. handler[h] \in Handler
      BY <1>0, <3>1 DEF IInv, TypeOK, NoHandler
    <3> QED BY <1>4, <3>1, <3>2 DEF HeldBy
  <2>3. CASE e = Root \/ my_ptr[e]
    BY <1>3, <2>3 DEF HeldBy
  <2>4. CASE \E i \in 1..Len(rest) : rest[i].ev = e /\ rest[i].holds
    BY <1>3, <2>4 DEF HeldBy
  <2> QED BY <1>0, <2>1, <2>2, <2>3, <2>4, HolderKinds
<1>6. \A e \in Ev : Unfinished(e)' => Unfinished(e) /\ e \notin gone
  BY <1>3 DEF Unfinished
<1>7. \A h \in Hid : handler[h] \in Handler => handler[h].ev \in Ev
  BY NoHandlerFacts
<1>8. TimerArmed'
  BY <1>4, <1>6, <1>7, KeepsArmed
<1> QED BY <1>5, <1>8

\* A result that arrives leaves the handler what it is.
LEMMA CompleteLeak ==
    ASSUME LeakInv, NEW h \in Hid, Complete(h)
    PROVE  TimerArmed' /\ LiveIsHeld'
<1>1. UNCHANGED <<life, my_ptr, stop_inited, stack>>
  BY DEF Complete
<1>2. PICK st \in {"ok", "failed"} : /\ handler[h].op = "timer" => st = "ok"
                                     /\ handler' = [handler EXCEPT ![h].st = st]
  BY DEF Complete
<1>3. \A g \in Hid : handler[g] \in Handler =>
         /\ handler'[g].ev = handler[g].ev
         /\ handler'[g].op = handler[g].op
         /\ handler'[g].holds = handler[g].holds
         /\ handler[g].st \in {"pending", "ok"} /\ handler[g].op = "timer"
               => handler'[g].st \in {"pending", "ok"}
  <2> TAKE g \in Hid
  <2>1. handler'[g] = IF g = h THEN [handler[g] EXCEPT !.st = st] ELSE handler[g]
    BY <1>2 DEF LeakInv, IInv, TypeOK
  <2> QED BY <1>2, <2>1 DEF Handler
<1>4. \A g \in Hid : handler[g].holds => handler[g] \in Handler
  BY DEF LeakInv, IInv, TypeOK, NoHandler
<1>5. LiveIsHeld'
  BY <1>1, <1>3, <1>4, KeepsHeld
<1>6. \A e \in Ev : Unfinished(e)' <=> Unfinished(e)
  BY <1>1 DEF Unfinished
<1>7. TimerArmed'
  BY <1>3, <1>6, KeepsArmed
<1> QED BY <1>5, <1>7

\* The pointer of a handler that is run passes to its frame.
LEMMA RunLeak ==
    ASSUME LeakInv, NEW h \in Hid, Run(h)
    PROVE  TimerArmed' /\ LiveIsHeld'
<1> DEFINE e == handler[h].ev
<1>0. IInv /\ handler \in [Hid -> Handler \cup {NoHandler}]
  BY DEF LeakInv, IInv, TypeOK
<1>1. Idle /\ stack = <<>> /\ handler[h].st # "none"
  BY DEF Run, RunIo, TimerAborted, TimerTick, TimerExpired, RunOnDestructed, Dispatched, Idle
<1>2. handler[h] \in Handler /\ e \in Ev
  BY <1>0, <1>1, TakenFacts
<1>3. \A g \in Hid : Taken(h)[g] = IF g = h THEN NoHandler ELSE handler[g]
  BY <1>0 DEF Taken
<1>4. ASSUME NEW open \in BOOLEAN, Enter(h, open)
      PROVE  handler[h].holds =>
                \E i \in 1..Len(stack') : stack'[i].ev = e /\ stack'[i].holds
  BY <1>4 DEF Enter
<1>5. ASSUME RunIo(h) \/ TimerAborted(h) PROVE TimerArmed' /\ LiveIsHeld'
  <2>1. /\ handler' = Taken(h)
        /\ handler[h].op = "timer" => handler[h].st = "failed"
        /\ Enter(h, TRUE) \/ Enter(h, FALSE)
        /\ UNCHANGED <<life, my_ptr, stop_inited>>
    BY <1>5 DEF RunIo, TimerAborted, Dispatched
  <2>2. \A g \in Hid : handler[g].holds =>
           \/ /\ handler'[g].ev = handler[g].ev
              /\ handler'[g].holds
           \/ \E i \in 1..Len(stack') :
                 stack'[i].ev = handler[g].ev /\ stack'[i].holds
    BY <1>3, <1>4, <2>1
  <2>3. LiveIsHeld'
    BY <1>1, <2>1, <2>2, KeepsHeld
  <2>4. \A x \in Ev : Unfinished(x)' <=> Unfinished(x)
    BY <2>1 DEF Unfinished
  <2>5. TimerArmed'
    BY <1>3, <2>1, <2>4, KeepsArmed
  <2> QED BY <2>3, <2>5
<1>6. ASSUME TimerTick(h) PROVE TimerArmed' /\ LiveIsHeld'
  <2>1. /\ Enter(h, FALSE)
        /\ handler' = [CancelTimer(handler, e) EXCEPT ![h] = WrapAsioCb(e, "timer", "pending")]
        /\ UNCHANGED <<life, my_ptr, stop_inited>>
    BY <1>6 DEF TimerTick
  <2>2. handler'[h] = [ev |-> e, op |-> "timer", st |-> "pending", holds |-> my_ptr[e]]
    BY <2>1 DEF CancelTimer, WrapAsioCb
  <2>3. \A g \in Hid : g # h /\ handler[g] \in Handler =>
           /\ handler'[g].ev = handler[g].ev
           /\ handler'[g].holds = handler[g].holds
           /\ handler'[g] = handler[g] \/ handler[g].ev = e
    <3> SUFFICES ASSUME NEW g \in Hid, g # h, handler[g] \in Handler
                 PROVE  /\ handler'[g].ev = handler[g].ev
                        /\ handler'[g].holds = handler[g].holds
                        /\ handler'[g] = handler[g] \/ handler[g].ev = e
      OBVIOUS
    <3>1. \/ handler'[g] = handler[g]
          \/ handler[g].ev = e /\ handler'[g] = [handler[g] EXCEPT !.st = "failed"]
      BY <2>1 DEF CancelTimer
    <3> QED BY <3>1 DEF Handler
  <2>4. \A g \in Hid : handler[g].holds => handler[g] \in Handler
    BY <1>0 DEF NoHandler
  <2>5. LiveIsHeld'
    <3>1. \A g \in Hid : handler[g].holds =>
             \/ /\ handler'[g].ev = handler[g].ev
                /\ handler'[g].holds
             \/ \E i \in 1..Len(stack') :
                   stack'[i].ev = handler[g].ev /\ stack'[i].holds
      BY <1>4, <2>1, <2>3, <2>4
    <3> QED BY <1>1, <2>1, <3>1, KeepsHeld
  <2>6. \A x \in Ev : Unfinished(x)' <=> Unfinished(x)
    BY <2>1 DEF Unfinished
  <2>7. Unfinished(e) => my_ptr[e]
    BY <1>0, <1>2 DEF IInv, SelfWhileUnfinished
  <2>8. TimerArmed'
    <3>1. ASSUME NEW y \in Ev, Unfinished(y)',
                 NEW g \in Hid, handler[g] \in Handler, handler[g].ev = y,
                 handler[g].op = "timer", handler[g].holds,
                 handler[g].st \in {"pending", "ok"}
          PROVE  \E x \in Hid : /\ handler'[x].ev = y
                                /\ handler'[x].op = "timer"
                                /\ handler'[x].holds
                                /\ handler'[x].st \in {"pending", "ok"}
      <4>1. CASE handler[g].ev = e
        <5>1. Unfinished(y)
          BY <2>6, <3>1
        <5>2. my_ptr[e]
          BY <2>7, <3>1, <4>1, <5>1
        <5> QED BY <2>2, <3>1, <4>1, <5>2
      <4>2. CASE handler[g].ev # e
        BY <2>3, <3>1, <4>2
      <4> QED BY <4>1, <4>2
    <3> QED BY <2>6, <3>1, KeepsArmed
  <2> QED BY <2>5, <2>8
<1>7. ASSUME TimerExpired(h) PROVE TimerArmed' /\ LiveIsHeld'
  <2>1. /\ life[e] = "live" /\ Enter(h, FALSE) /\ StopAll(StopSet(e), Taken(h))
    BY <1>7 DEF TimerExpired, Dispatched
  <2>2. PICK S : S = StopSet(e)
    OBVIOUS
  <2>3. PICK hs : hs = Taken(h)
    OBVIOUS
  <2>4. /\ S \in SUBSET Ev /\ \A x \in S : Unfinished(x)
        /\ Unfinished(e) => e \in S
    BY <1>0, <1>2, <2>1, <2>2, StopSetFacts DEF Unfinished
  <2>5. hs \in [Hid -> Handler \cup {NoHandler}] /\ StopAll(S, hs)
    BY <1>0, <1>1, <2>1, <2>2, <2>3, TakenFacts
  <2>6. \A g \in Hid : handler[g].holds =>
           \/ hs[g] = handler[g]
           \/ /\ \E i \in 1..Len(stack') : stack'[i].ev = handler[g].ev /\ stack'[i].holds
              /\ Unfinished(handler[g].ev) => handler[g].ev \in S
    BY <1>3, <1>4, <2>1, <2>3, <2>4
  <2> QED BY <1>1, <2>4, <2>5, <2>6, StopAllLeak
<1>8. ASSUME RunOnDestructed(h) PROVE TimerArmed' /\ LiveIsHeld'
  <2>1. /\ life[e] = "dead"
        /\ handler' = Taken(h)
        /\ UNCHANGED <<life, my_ptr, stop_inited, stack>>
    BY <1>8 DEF RunOnDestructed
  <2>2. LiveIsHeld'
    BY <1>1, <1>3, <2>1, KeepsHeld
  <2>3. \A x \in Ev : Unfinished(x)' <=> Unfinished(x)
    BY <2>1 DEF Unfinished
  <2>4. ~Unfinished(e)
    BY <2>1 DEF Unfinished
  <2>5. TimerArmed'
    <3>1. ASSUME NEW x \in Ev, Unfinished(x)',
                 NEW g \in Hid, handler[g].ev = x
          PROVE  handler'[g] = handler[g]
      <4>1. g # h
        BY <2>3, <2>4, <3>1
      <4> QED BY <1>3, <2>1, <4>1
    <3> QED BY <2>3, <3>1, KeepsArmed
  <2> QED BY <2>2, <2>5
<1> QED BY <1>5, <1>6, <1>7, <1>8 DEF Run

\* Every step keeps what is live held.
LEMMA NextLeak == LeakInv /\ [Next]_vars => LeakInv'
<1> SUFFICES ASSUME LeakInv, [Next]_vars PROVE TimerArmed' /\ LiveIsHeld'
  BY NextIInv DEF LeakInv
<1>1. ASSUME NEW p \in Ev, NEW c \in Ev, CreateChild(p, c)
      PROVE  TimerArmed' /\ LiveIsHeld'
  BY <1>1, CreateChildLeak
<1>2. ASSUME NEW e \in Ev, NEW h \in Hid, StartOp(e, h) \/ ResetTimer(e, h)
      PROVE  TimerArmed' /\ LiveIsHeld'
  BY <1>2, StartLeak
<1>3. ASSUME NEW e \in Ev, Stop(e) PROVE TimerArmed' /\ LiveIsHeld'
  BY <1>3, StopLeak
<1>4. ASSUME NEW u \in Util, NEW e \in Ev, InitAsync(u, e)
      PROVE  TimerArmed' /\ LiveIsHeld'
  BY <1>4, InitAsyncLeak
<1>5. ASSUME Return PROVE TimerArmed' /\ LiveIsHeld'
  BY <1>5, ReturnLeak
<1>6. ASSUME NEW h \in Hid, Complete(h) PROVE TimerArmed' /\ LiveIsHeld'
  BY <1>6, CompleteLeak
<1>7. ASSUME NEW h \in Hid, Run(h) PROVE TimerArmed' /\ LiveIsHeld'
  BY <1>7, RunLeak
<1>8. CASE UNCHANGED vars
  BY <1>8 DEF vars, LeakInv, TimerArmed, LiveIsHeld, Unfinished, HeldBy
<1> QED BY <1>1, <1>2, <1>3, <1>4, <1>5, <1>6, <1>7, <1>8 DEF Next

\* No event is leaked: whatever calls are made, a live event is held by something
\* that will let go, and an unfinished one by the wait for its timer.
THEOREM NothingLeaks == Spec => []NoLeak
<1>1. LeakInv => NoLeak
  BY DEF LeakInv, TimerArmed, LiveIsHeld, NoLeak
<1> QED BY <1>1, InitLeak, NextLeak, PTL DEF Spec

-----------------------------------------------------------------------------
\* A step that changes no stage of life and stops nothing is a stutter of the
\* tree.
LEMMA TreeStutter ==
    ASSUME UNCHANGED <<life, parent, stop_inited>>
    PROVE  UNCHANGED Tree!treeVars
BY DEF Status, Tree!treeVars

\* stop() of a closed set of unfinished events finishes them together.
LEMMA TreeFinish ==
    ASSUME IInv,
           NEW S \in SUBSET Ev,
           \A x \in S : Unfinished(x) /\ child_ev_list[x] \subseteq S,
           NEW hs,
           StopAll(S, hs)
    PROVE  [Tree!TreeNext]_(Tree!treeVars)
<1>1. /\ UNCHANGED <<life, parent>>
      /\ stop_inited' = [e \in Ev |-> stop_inited[e] \/ e \in S]
  BY DEF StopAll
<1>2. CASE S = {}
  <2>1. stop_inited' = stop_inited
    BY <1>1, <1>2 DEF IInv, TypeOK
  <2> QED BY <1>1, <2>1, TreeStutter
<1>3. CASE S # {}
  <2>1. \A e \in S : Status[e] = "running"
    BY DEF Status, Unfinished
  <2>2. ASSUME NEW c \in Ev, Status[c] = "running", parent[c] \in S
        PROVE  c \in S
    <3>1. Unfinished(c) /\ life[parent[c]] = "live"
      BY <2>2 DEF Status, Unfinished, IInv, TypeOK
    <3>2. c \in child_ev_list[parent[c]]
      BY <2>2, <3>1 DEF IInv, TreeExact
    <3> QED BY <2>2, <3>2
  <2>3. Status' = [e \in Ev |-> IF e \in S THEN "finished" ELSE Status[e]]
    BY <1>1 DEF Status, Unfinished
  <2>4. Tree!Finish(S)
    BY <1>1, <1>3, <2>1, <2>2, <2>3 DEF Tree!Finish
  <2> QED BY <2>4 DEF Tree!TreeNext
<1> QED BY <1>2, <1>3

\* Every step of the base class is a step of the tree or a stutter.
LEMMA TreeStep == IInv /\ [Next]_vars => [Tree!TreeNext]_(Tree!treeVars)
<1> SUFFICES ASSUME IInv, [Next]_vars PROVE [Tree!TreeNext]_(Tree!treeVars)
  OBVIOUS
<1> USE AEventAssumption
<1>1. ASSUME NEW p \in Ev, NEW c \in Ev, CreateChild(p, c)
      PROVE  Tree!Begin(p, c)
  <2>1. /\ life[p] = "live" /\ life[c] = "none" /\ ~stop_inited[c]
        /\ life' = [life EXCEPT ![c] = "live"]
        /\ parent' = [parent EXCEPT ![c] = p]
        /\ stop_inited' = stop_inited
    BY <1>1 DEF CreateChild, IInv, LifeAndStop
  <2>2. Status[p] \in {"running", "finished"} /\ Status[c] = "new"
    BY <2>1 DEF Status
  <2>3. Status' = [Status EXCEPT ![c] = "running"]
    BY <2>1 DEF Status, IInv, TypeOK
  <2> QED BY <2>1, <2>2, <2>3 DEF Tree!Begin
<1>2. ASSUME NEW e \in Ev, Stop(e) PROVE [Tree!TreeNext]_(Tree!treeVars)
  <2>1. life[e] = "live"
    BY <1>2, TopFacts DEF Stop, Running, IInv, LifeAndStop, TypeOK
  <2>2. PICK S : S = StopSet(e)
    OBVIOUS
  <2>3. S \in SUBSET Ev /\ \A x \in S : Unfinished(x) /\ child_ev_list[x] \subseteq S
    BY <2>1, <2>2, StopSetFacts
  <2>4. StopAll(S, handler)
    BY <1>2, <2>2 DEF Stop
  <2> QED BY <2>3, <2>4, TreeFinish
<1>3. ASSUME NEW h \in Hid, TimerExpired(h) PROVE [Tree!TreeNext]_(Tree!treeVars)
  <2>1. handler[h].st # "none" /\ life[handler[h].ev] = "live"
    BY <1>3 DEF TimerExpired, Dispatched
  <2>2. PICK S : S = StopSet(handler[h].ev)
    OBVIOUS
  <2>3. handler[h].ev \in Ev
    BY <2>1, TakenFacts
  <2>4. S \in SUBSET Ev /\ \A x \in S : Unfinished(x) /\ child_ev_list[x] \subseteq S
    BY <2>1, <2>2, <2>3, StopSetFacts
  <2>5. StopAll(S, Taken(h))
    BY <1>3, <2>2 DEF TimerExpired
  <2> QED BY <2>4, <2>5, TreeFinish
<1>4. ASSUME Return PROVE [Tree!TreeNext]_(Tree!treeVars)
  <2>1. PICK gone : gone = {e \in Ev : life[e] = "live"
                              /\ ~HeldBy(e, SubSeq(stack, 1, Len(stack) - 1))}
    OBVIOUS
  <2>2. /\ life' = [e \in Ev |-> IF e \in gone THEN "dead" ELSE life[e]]
        /\ UNCHANGED <<parent, stop_inited>>
    BY <1>4, <2>1 DEF Return
  <2>3. /\ gone \subseteq Ev /\ Root \notin gone
        /\ \A e \in gone : Status[e] = "finished"
    BY <2>1 DEF HeldBy, IInv, SelfWhileUnfinished, Unfinished, Status
  <2>4. Status' = [e \in Ev |-> IF e \in gone THEN "destructed" ELSE Status[e]]
    BY <2>2 DEF Status
  <2>5. CASE gone = {}
    <3>1. life' = life
      BY <2>2, <2>5 DEF IInv, TypeOK
    <3> QED BY <2>2, <3>1, TreeStutter
  <2>6. CASE gone # {}
    <3>1. Tree!Destruct(gone)
      BY <2>2, <2>3, <2>4, <2>6 DEF Tree!Destruct
    <3> QED BY <2>3, <3>1 DEF Tree!TreeNext
  <2> QED BY <2>5, <2>6
<1>5. ASSUME \/ \E e \in Ev, h \in Hid : StartOp(e, h) \/ ResetTimer(e, h)
             \/ \E u \in Util, e \in Ev : InitAsync(u, e)
             \/ \E h \in Hid : \/ Complete(h) \/ RunIo(h) \/ TimerAborted(h)
                               \/ TimerTick(h) \/ RunOnDestructed(h)
             \/ UNCHANGED vars
      PROVE  UNCHANGED <<life, parent, stop_inited>>
  BY <1>5 DEF StartOp, ResetTimer, InitAsync, Complete, RunIo, TimerAborted,
              TimerTick, RunOnDestructed, vars
<1> QED BY <1>1, <1>2, <1>3, <1>4, <1>5, TreeStutter DEF Next, Run, Tree!TreeNext

\* The base class implements EventTree: stopping an event finishes its whole
\* subtree in one step, and only what has finished is destructed.
THEOREM Refinement == Spec => ImplementsEventTree
<1>1. Init => Tree!TreeInit
  BY AEventAssumption DEF Init, Tree!TreeInit, Status
<1>2. IInv /\ [Next]_vars => [Tree!TreeNext]_(Tree!treeVars)
  BY TreeStep
<1> QED BY <1>1, <1>2, Invariance, PTL DEF Spec, ImplementsEventTree, Tree!TreeSpec

=============================================================================
