-------------------------- MODULE AEvDaemonProofs --------------------------
(***************************************************************************)
(* Proofs about AEvDaemon for every set of connections and readers: type   *)
(* correctness, that the daemon serves until it is stopped, that a stop    *)
(* reaches every event, that only the acceptor's own operations stop it,   *)
(* what begins an event behind a stop, and how a quiet stop drains.        *)
(***************************************************************************)
EXTENDS AEvDaemon, TLAPS

\* The acceptor and the listener for signals are begun, and stop together.
RootPair ==
    /\ {"acceptor", "syssig"} \subseteq begun
    /\ stop_inited["syssig"] = stop_inited["acceptor"]

\* What the daemon serves with.
RootOps == {Held("acceptor", "accept"), Held("acceptor", "wait"), Held("syssig", "signal")}

\* The timer of the root fails only when it is cancelled.
WaitFails == op[Held("acceptor", "wait")] = "failed" => stop_inited["acceptor"]

\* A child that was not begun has no operation.
Idle == \A o \in Op : o.of \in Child /\ op[o] # "none" => o.of \in begun

\* Only a reader resolves.
Resolves == \A o \in Op : op[o] = "resolving" => o.of \in Reader

\* What an event that has stopped had pending was cancelled, and what it starts
\* does not hold it.
HeldRests ==
    \A o \in Op : o.kind # "signal" /\ o.holds /\ stop_inited[o.of] => op[o] # "pending"

\* Nothing is without a pointer before the stop.
Loose == \A o \in Op : ~o.holds /\ op[o] # "none" => stop_inited[o.of]

\* The socket of a session that has stopped is closed.
SessionsRest ==
    \A o \in Op : o.of \in Session /\ o.kind = "io" /\ stop_inited[o.of] => op[o] # "pending"

\* When nothing that begins an event was queued at the stop, nothing is later.
Disarmed ==
    ~hurried =>
        /\ late = {}
        /\ stop_inited["acceptor"] => \A o \in Begins : op[o] \in {"none", "failed"}

\* The inductive invariant.
IInv ==
    /\ TypeOK
    /\ RootPair
    /\ WaitFails
    /\ Idle
    /\ Serves
    /\ StopReachesAll
    /\ Resolves
    /\ HeldRests
    /\ Loose
    /\ SessionsRest
    /\ Disarmed

\* The step leaves operation y as v, unless its event is destructed by it.
Becomes(y, v) ==
    \/ op'[y] = v
    \/ /\ v \in Outstanding /\ op'[y] = "failed"
       /\ stop_inited'[y.of] /\ y.of # "acceptor"

-----------------------------------------------------------------------------
\* A child is neither the acceptor nor the listener.
LEMMA Names ==
    /\ \A c \in Child : c \notin {"acceptor", "syssig"} /\ c \in Event
    /\ "acceptor" \in Event /\ "syssig" \in Event
    /\ "acceptor" \notin Child /\ "syssig" \notin Child
    /\ \A s \in Session : s \in Child /\ s \notin Reader
    /\ \A r \in Reader : r \in Child /\ r \notin Session
    /\ \A e \in Event : e \in Child \/ e = "acceptor" \/ e = "syssig"
BY DaemonAssumption DEF Child, Event

\* The fields of an operation name it.
LEMMA Fields ==
    ASSUME NEW o \in Op
    PROVE  /\ o.of \in Event /\ o.kind \in Kinds(o.of) /\ o.holds \in BOOLEAN
           /\ o = [of |-> o.of, kind |-> o.kind, holds |-> o.holds]
           /\ o.holds => o = Held(o.of, o.kind)
<1>1. PICK e \in Event : o \in [of : {e}, kind : Kinds(e), holds : BOOLEAN]
  BY DEF Op
<1>2. o.of = e /\ o.kind \in Kinds(e) /\ o.holds \in BOOLEAN
      /\ o = [of |-> o.of, kind |-> o.kind, holds |-> o.holds]
  BY <1>1
<1> QED BY <1>2 DEF Held

\* Every event has an operation of each of its kinds that holds it.
LEMMA HeldOps ==
    ASSUME NEW e \in Event, NEW k \in Kinds(e)
    PROVE  /\ Held(e, k) \in Op /\ Held(e, k).of = e /\ Held(e, k).kind = k
           /\ Held(e, k).holds = TRUE
<1>1. [of |-> e, kind |-> k, holds |-> TRUE] \in Op
  BY DEF Op
<1> QED BY <1>1 DEF Held

\* The operations of the root.
LEMMA Roots ==
    /\ Held("acceptor", "accept") \in Op /\ Held("acceptor", "wait") \in Op
    /\ Held("syssig", "signal") \in Op
    /\ \A y \in RootOps : /\ y \in Op /\ y.holds /\ y.of \in {"acceptor", "syssig"}
                          /\ y.of = "syssig" => y.kind = "signal"
    /\ Held("acceptor", "wait").of = "acceptor" /\ Held("acceptor", "wait").kind = "wait"
<1>1. "accept" \in Kinds("acceptor") /\ "wait" \in Kinds("acceptor")
      /\ "signal" \in Kinds("syssig")
  BY DEF Kinds
<1>2. \A e \in Event : \A k \in Kinds(e) : Held(e, k) \in Op
  BY DEF Op, Held
<1>3. /\ Held("acceptor", "accept") \in Op /\ Held("acceptor", "wait") \in Op
      /\ Held("syssig", "signal") \in Op
  BY <1>1, <1>2, Names
<1> QED BY <1>3 DEF RootOps, Held

\* A destructor leaves an operation alone, or fails it.
LEMMA SettledFacts ==
    ASSUME NEW f \in [Op -> OpState], NEW stopped
    PROVE  /\ Settled(f, stopped) \in [Op -> OpState]
           /\ \A y \in Op : \/ Settled(f, stopped)[y] = f[y]
                            \/ /\ f[y] \in Outstanding /\ Settled(f, stopped)[y] = "failed"
                               /\ stopped[y.of] /\ y.of # "acceptor"
<1>1. Settled(f, stopped) = [o \in Op |-> IF f[o] \in Outstanding /\ Destructed(o.of, f, stopped)
                                          THEN "failed" ELSE f[o]]
  BY DEF Settled
<1>2. \A y \in Op : Settled(f, stopped)[y] =
           IF f[y] \in Outstanding /\ Destructed(y.of, f, stopped) THEN "failed" ELSE f[y]
  BY <1>1, Zenon
<1>3. \A e : Destructed(e, f, stopped) => e # "acceptor" /\ stopped[e]
  BY DEF Destructed
<1>4. Settled(f, stopped) \in [Op -> OpState]
  BY <1>1 DEF OpState
<1> QED BY <1>2, <1>3, <1>4

\* The initial states satisfy the invariant.
LEMMA InitIInv == Init => IInv
<1> SUFFICES ASSUME Init PROVE IInv
  OBVIOUS
<1>1. /\ begun = {"acceptor", "syssig"}
      /\ stop_inited = [e \in Event |-> FALSE]
      /\ op = [o \in Op |-> IF o.of \notin Child /\ o.holds THEN "pending" ELSE "none"]
      /\ late = {} /\ hurried = FALSE /\ strayed = FALSE /\ signalled = FALSE
  BY DEF Init
<1>2. \A e \in Event : ~stop_inited[e]
  BY <1>1
<1>3. \A o \in Op : op[o] = IF o.of \notin Child /\ o.holds THEN "pending" ELSE "none"
  BY <1>1, Zenon
<1>4. TypeOK
  BY <1>1, Names DEF TypeOK, OpState
<1>5. RootPair
  BY <1>1, Names DEF RootPair
<1>6. Idle /\ Resolves
  BY <1>3 DEF Idle, Resolves
<1>7. HeldRests /\ SessionsRest /\ Loose
  BY <1>2, <1>3, Fields DEF HeldRests, SessionsRest, Loose
<1>8. Disarmed /\ StopReachesAll
  BY <1>1, <1>2, Names DEF Disarmed, StopReachesAll
<1>9. \A y \in RootOps : op[y] = "pending"
  BY <1>3, Roots, Names
<1>10. Serves /\ WaitFails
  BY <1>9 DEF RootOps, Serves, WaitFails
<1> QED BY <1>4, <1>5, <1>6, <1>7, <1>8, <1>10 DEF IInv

\* A handler that takes operation o away and leaves x as st, a result of o, or
\* a handler that finds its event destructed.
LEMMA StepKeeps ==
    ASSUME IInv, NEW o \in Op, NEW x \in Op, NEW st \in OpState, x.of = o.of,
           UNCHANGED <<begun, stop_inited, late, hurried>>,
           op' \in [Op -> OpState], strayed' \in BOOLEAN, signalled' \in BOOLEAN,
           \A y \in Op : Becomes(y, IF y = x THEN st ELSE IF y = o THEN "none" ELSE op[y]),
           op[o] # "none", x # o /\ ~x.holds => stop_inited[x.of],
           ~stop_inited["acceptor"] =>
              \A y \in RootOps : (y = o => x = o) /\ (y = x => st # "none"),
           x = Held("acceptor", "wait") /\ st = "failed" => stop_inited["acceptor"],
           st = "resolving" => x.of \in Reader,
           st = "pending" /\ stop_inited[x.of] =>
              ~x.holds /\ ~(x.of \in Session /\ x.kind = "io"),
           x \in Begins /\ stop_inited["acceptor"] /\ ~hurried => st \in {"none", "failed"}
    PROVE  IInv'
<1> DEFINE New(y) == IF y = x THEN st ELSE IF y = o THEN "none" ELSE op[y]
<1>1. \A y \in Op : \/ op'[y] = New(y)
                    \/ New(y) \in Outstanding /\ op'[y] = "failed"
                       /\ stop_inited[y.of] /\ y.of # "acceptor"
  BY DEF Becomes
<1>2. TypeOK'
  BY DEF IInv, TypeOK
<1>3. RootPair' /\ StopReachesAll'
  BY DEF IInv, RootPair, StopReachesAll
<1>4. ASSUME ~stop_inited["acceptor"], NEW y \in RootOps PROVE op'[y] # "none"
  <2>1. op[y] # "none"
    BY <1>4 DEF IInv, Serves, RootOps
  <2>2. New(y) # "none"
    BY <1>4, <2>1
  <2> QED BY <1>1, <2>2, Roots
<1>5. Serves'
  BY <1>4 DEF Serves, RootOps
<1>6. WaitFails'
  BY <1>1, Roots DEF IInv, WaitFails
<1>7. Idle'
  BY <1>1 DEF IInv, Idle, Outstanding
<1>8. Resolves'
  BY <1>1 DEF IInv, Resolves
<1>9. HeldRests'
  BY <1>1 DEF IInv, HeldRests
<1>10. SessionsRest'
  BY <1>1 DEF IInv, SessionsRest
<1>11. Disarmed'
  BY <1>1 DEF IInv, Disarmed, Begins
<1>12. Loose'
  BY <1>1 DEF IInv, Loose
<1> QED BY <1>2, <1>3, <1>5, <1>6, <1>7, <1>8, <1>9, <1>10, <1>11, <1>12 DEF IInv

\* A function with four of its values replaced.
LEMMA Replaced ==
    ASSUME NEW A, NEW B, NEW f \in [A -> B], NEW a \in A, NEW b \in A, NEW c \in A, NEW d \in A,
           NEW va \in B, NEW vb \in B, NEW vc \in B, NEW vd \in B
    PROVE  LET g == [f EXCEPT ![a] = va, ![b] = vb, ![c] = vc, ![d] = vd]
           IN  /\ g \in [A -> B]
               /\ \A y \in A : g[y] = IF y = d THEN vd ELSE IF y = c THEN vc
                                     ELSE IF y = b THEN vb ELSE IF y = a THEN va ELSE f[y]
OBVIOUS

\* The two operations of a child.
LEMMA ChildOps ==
    ASSUME NEW c \in Child
    PROVE  /\ Held(c, "wait") \in Op /\ Held(c, "io") \in Op
           /\ Held(c, "wait").of = c /\ Held(c, "io").of = c
           /\ Held(c, "wait").kind = "wait" /\ Held(c, "io").kind = "io"
           /\ Held(c, "wait").holds /\ Held(c, "io").holds
           /\ Held(c, "wait") # Held(c, "io")
<1>1. c \in Event /\ "wait" \in Kinds(c) /\ "io" \in Kinds(c)
  BY Names DEF Kinds
<1>2. /\ Held(c, "wait") \in Op /\ Held(c, "io") \in Op
      /\ Held(c, "wait").of = c /\ Held(c, "io").of = c
      /\ Held(c, "wait").kind = "wait" /\ Held(c, "io").kind = "io"
  <2>1. ASSUME NEW k \in Kinds(c)
        PROVE  Held(c, k) \in Op /\ Held(c, k).of = c /\ Held(c, k).kind = k
    BY <1>1, <2>1, HeldOps
  <2> QED BY <1>1, <2>1
<1>3. Held(c, "wait").holds /\ Held(c, "io").holds
  BY DEF Held
<1> QED BY <1>2, <1>3

\* create_child keeps the invariant, below a stopped acceptor as well.
LEMMA CreateKeeps ==
    ASSUME IInv, NEW c \in Child, NEW o \in Op, NEW x \in Op, NEW st \in OpState,
           CreateChild(c, o, x, st), o \in Begins, op[o] = "ok", x.of = o.of,
           x.kind = o.kind, ~stop_inited[o.of] => x = Held(o.of, o.kind),
           o.kind = "accept" => o.of = "acceptor",
           st = (IF o.of = "acceptor" \/ ~stop_inited[o.of] THEN "pending" ELSE "failed"),
           stop_inited[o.of] => ~x.holds
    PROVE  /\ IInv'
           /\ stop_inited'["acceptor"] = stop_inited["acceptor"]
<1> USE Names
<1> DEFINE w == Held(c, "wait")
           i == Held(c, "io")
           first == IF c \in Reader THEN "resolving" ELSE "pending"
           F == [op EXCEPT ![o] = "none", ![x] = st, ![w] = "pending", ![i] = first]
<1>1. /\ begun' = begun \cup {c}
      /\ stop_inited' = [stop_inited EXCEPT ![c] = FALSE]
      /\ op' = Settled(F, stop_inited')
      /\ late' = IF stop_inited["acceptor"] THEN late \cup {c} ELSE late
      /\ UNCHANGED <<hurried, strayed, signalled>>
      /\ c \notin begun \/ (stop_inited[c] /\ \A y \in Op : y.of = c => op[y] = "none")
  BY DEF CreateChild, Unused
<1>2. /\ w \in Op /\ i \in Op /\ w.of = c /\ i.of = c /\ w.kind = "wait" /\ i.kind = "io"
      /\ w # i /\ w.holds /\ i.holds
  BY ONLY c \in Child, ChildOps
<1>3. o.of # c /\ x.of # c
  BY <1>1 DEF IInv, Idle
<1>4. o # w /\ o # i /\ x # w /\ x # i
  BY <1>2, <1>3
<1>5. /\ F \in [Op -> OpState]
      /\ \A y \in Op : F[y] = IF y = i THEN first ELSE IF y = w THEN "pending"
                              ELSE IF y = x THEN st ELSE IF y = o THEN "none" ELSE op[y]
  <2>1. op \in [Op -> OpState]
    BY DEF IInv, TypeOK
  <2>2. {"none", "pending", first} \subseteq OpState
    BY DEF OpState
  <2>3. first \in OpState /\ "pending" \in OpState /\ "none" \in OpState
    BY <2>2
  <2> HIDE DEF w, i, first
  <2> QED BY ONLY <1>2, <2>1, <2>3, o \in Op, x \in Op, st \in OpState, Replaced DEF F
<1>6. \A y \in Op : F[y] = IF y = i THEN first ELSE IF y = w THEN "pending"
                           ELSE IF y = x THEN st ELSE IF y = o THEN "none" ELSE op[y]
  BY <1>5
<1> HIDE DEF F, w, i
<1>7. /\ op' \in [Op -> OpState]
      /\ \A y \in Op : \/ op'[y] = F[y]
                       \/ F[y] \in Outstanding /\ op'[y] = "failed"
                          /\ stop_inited'[y.of] /\ y.of # "acceptor"
  <2>1. F \in [Op -> OpState] /\ op' = Settled(F, stop_inited')
    BY <1>1, <1>5
  <2>2. /\ Settled(F, stop_inited') \in [Op -> OpState]
        /\ \A y \in Op : \/ Settled(F, stop_inited')[y] = F[y]
                         \/ /\ F[y] \in Outstanding
                            /\ Settled(F, stop_inited')[y] = "failed"
                            /\ stop_inited'[y.of] /\ y.of # "acceptor"
    BY ONLY <2>1, SettledFacts
  <2> QED BY ONLY <2>1, <2>2
<1>8. \A e \in Event : stop_inited'[e] = IF e = c THEN FALSE ELSE stop_inited[e]
  BY <1>1 DEF IInv, TypeOK
<1>9. \A y \in Op : y.of = c /\ y # w /\ y # i => F[y] = "none"
  <2> SUFFICES ASSUME NEW y \in Op, y.of = c, y # w, y # i PROVE F[y] = "none"
    OBVIOUS
  <2>1. op[y] = "none"
    BY <1>1 DEF IInv, Idle
  <2> QED BY <1>3, <1>6, <2>1
<1>10. TypeOK'
  <2>1. begun' \subseteq Event /\ late' \subseteq Child
    BY <1>1 DEF IInv, TypeOK
  <2>2. stop_inited' \in [Event -> BOOLEAN]
    BY <1>1 DEF IInv, TypeOK
  <2> QED BY <1>1, <1>7, <2>1, <2>2 DEF IInv, TypeOK
<1>11. RootPair' /\ stop_inited'["acceptor"] = stop_inited["acceptor"]
  BY <1>1, <1>8 DEF IInv, RootPair
<1>12. StopReachesAll'
  <2> SUFFICES ASSUME stop_inited["acceptor"], NEW e \in begun' \ late'
               PROVE  stop_inited'[e]
    BY <1>11 DEF StopReachesAll
  <2>1. e \in begun \ late /\ e # c
    BY <1>1
  <2>2. stop_inited[e] /\ e \in Event
    BY <2>1 DEF IInv, StopReachesAll, TypeOK
  <2> QED BY <1>8, <2>1, <2>2
<1>13. ASSUME ~stop_inited["acceptor"], NEW y \in RootOps PROVE op'[y] # "none"
  <2>1. op[y] # "none" /\ y \in Op /\ y.of \notin Child /\ y = Held(y.of, y.kind)
    BY <1>13, Roots, Fields DEF IInv, Serves, RootOps
  <2>2. y # w /\ y # i
    BY <1>2, <2>1
  <2>3. y = o => y = x
    BY <1>13, <2>1, Roots DEF IInv, RootPair
  <2>4. F[y] # "none"
    BY <1>6, <2>1, <2>2, <2>3
  <2> QED BY <1>7, <2>1, <2>4
<1>14. Serves'
  BY <1>11, <1>13 DEF Serves, RootOps
<1>15. WaitFails'
  <2>1. x.kind = "accept" \/ x.kind = "io"
    BY DEF Begins
  <2>2. LET y == Held("acceptor", "wait") IN op'[y] = "failed" => op[y] = "failed"
    BY <1>2, <1>6, <1>7, <2>1, Roots
  <2> QED BY <1>11, <2>2 DEF IInv, WaitFails
<1>16. Idle'
  <2> SUFFICES ASSUME NEW y \in Op, y.of \in Child, op'[y] # "none" PROVE y.of \in begun'
    BY DEF Idle
  <2>1. F[y] # "none"
    BY <1>7 DEF Outstanding
  <2>2. CASE y.of = c
    BY <1>1, <2>2
  <2>3. CASE y.of # c
    <3>1. op[y] # "none" \/ y.of = o.of
      BY <1>2, <1>6, <2>1, <2>3
    <3> QED BY <1>1, <3>1 DEF IInv, Idle
  <2> QED BY <2>2, <2>3
<1>17. Resolves'
  BY <1>2, <1>6, <1>7 DEF IInv, Resolves
<1>18. HeldRests'
  <2> SUFFICES ASSUME NEW y \in Op, y.kind # "signal", y.holds, stop_inited'[y.of]
               PROVE  op'[y] # "pending"
    BY DEF HeldRests
  <2>1. stop_inited[y.of] /\ y.of # c
    BY <1>8, Fields
  <2>2. y # x
    BY <2>1
  <2>3. op[y] # "pending"
    BY <2>1 DEF IInv, HeldRests
  <2> QED BY <1>2, <1>6, <1>7, <2>1, <2>2, <2>3
<1>19. SessionsRest'
  <2> SUFFICES ASSUME NEW y \in Op, y.of \in Session, y.kind = "io", stop_inited'[y.of]
               PROVE  op'[y] # "pending"
    BY DEF SessionsRest
  <2>1. stop_inited[y.of] /\ y.of # c
    BY <1>8, Fields
  <2>2. op[y] # "pending"
    BY <2>1 DEF IInv, SessionsRest
  <2>3. y = x => st = "failed"
    BY <2>1
  <2> QED BY <1>2, <1>6, <1>7, <2>1, <2>2, <2>3
<1>20. Disarmed'
  <2> SUFFICES ASSUME ~hurried PROVE late' = {} /\ ~stop_inited["acceptor"]
    BY <1>1, <1>11 DEF Disarmed
  <2>1. ~stop_inited["acceptor"]
    BY DEF IInv, Disarmed
  <2> QED BY <1>1, <2>1 DEF IInv, Disarmed
<1>21. Loose'
  <2> SUFFICES ASSUME NEW y \in Op, ~y.holds, op'[y] # "none" PROVE stop_inited'[y.of]
    BY DEF Loose
  <2>1. F[y] # "none" /\ y # w /\ y # i
    BY <1>2, <1>7 DEF Outstanding
  <2>2. y.of # c
    BY <1>9, <2>1
  <2>3. stop_inited[y.of]
    <3>1. y = x => stop_inited[x.of]
      BY DEF Held
    <3>2. y # x => op[y] # "none"
      BY <1>6, <2>1
    <3> QED BY <3>1, <3>2 DEF IInv, Loose
  <2> QED BY <1>8, <2>2, <2>3, Fields
<1> QED BY <1>10, <1>11, <1>12, <1>14, <1>15, <1>16, <1>17, <1>18, <1>19, <1>20, <1>21 DEF IInv

\* Only the acceptor accepts, only the listener waits for signals, and only children
\* have other operations.
LEMMA Whose ==
    ASSUME NEW o \in Op
    PROVE  /\ o.kind = "accept" => o.of = "acceptor"
           /\ o.kind = "signal" => o.of = "syssig"
           /\ o.kind = "io" => o.of \in Child
           /\ o.kind \in {"accept", "wait", "signal", "io"}
<1>1. o.of \in Event /\ o.kind \in Kinds(o.of)
  BY Fields
<1> QED BY <1>1, Names DEF Kinds

\* stop() keeps the invariant, if it drops an operation of the root only when it
\* stops the acceptor.
LEMMA StopKeeps ==
    ASSUME IInv, NEW e \in Event, NEW o \in Op, StopFrom(e, o), signalled' \in BOOLEAN,
           o \in RootOps => e \notin Child
    PROVE  /\ IInv'
           /\ e \in Child => stop_inited'["acceptor"] = stop_inited["acceptor"]
<1> DEFINE S == StopSet(e)
           F == [x \in Op |-> IF x = o THEN "none"
                              ELSE IF Cancelled(x, S) THEN "failed" ELSE op[x]]
<1>1. /\ stop_inited' = [x \in Event |-> stop_inited[x] \/ x \in S]
      /\ op' = Settled(F, stop_inited')
      /\ hurried' = (hurried \/ ("acceptor" \in S /\ \E x \in Begins : op[x] = "ok"))
      /\ UNCHANGED <<begun, late, strayed>>
  BY DEF StopFrom
<1>2. /\ e \in Child => S \subseteq {e}
      /\ e \notin Child => \A x \in begun : stop_inited[x] \/ x \in S \/ stop_inited[e]
      /\ S \subseteq begun \cup {e}
  BY DEF StopSet
<1>3. F \in [Op -> OpState]
  BY DEF IInv, TypeOK, OpState
<1>4. \A y \in Op : F[y] = IF y = o THEN "none"
                           ELSE IF Cancelled(y, S) THEN "failed" ELSE op[y]
  OBVIOUS
<1> HIDE DEF F, S
<1>5. /\ op' \in [Op -> OpState]
      /\ \A y \in Op : \/ op'[y] = F[y]
                       \/ F[y] \in Outstanding /\ op'[y] = "failed"
                          /\ stop_inited'[y.of] /\ y.of # "acceptor"
  <2>1. op' = Settled(F, stop_inited')
    BY <1>1
  <2>2. /\ Settled(F, stop_inited') \in [Op -> OpState]
        /\ \A y \in Op : \/ Settled(F, stop_inited')[y] = F[y]
                         \/ /\ F[y] \in Outstanding
                            /\ Settled(F, stop_inited')[y] = "failed"
                            /\ stop_inited'[y.of] /\ y.of # "acceptor"
    BY ONLY <1>3, SettledFacts
  <2> QED BY ONLY <2>1, <2>2
<1>6. \A x \in Event : stop_inited'[x] = (stop_inited[x] \/ x \in S)
  BY <1>1
<1>7. "acceptor" \in begun /\ "syssig" \in begun
      /\ stop_inited["acceptor"] \in BOOLEAN /\ stop_inited["syssig"] \in BOOLEAN
  BY Names DEF IInv, RootPair, TypeOK
<1>8. TypeOK'
  <2>1. stop_inited' \in [Event -> BOOLEAN]
    <3>1. \A x \in Event : (stop_inited[x] \/ x \in S) \in BOOLEAN
      OBVIOUS
    <3> QED BY <1>1, <3>1
  <2>2. hurried' \in BOOLEAN
    <3>1. hurried \in BOOLEAN
      BY DEF IInv, TypeOK
    <3> QED BY <1>1, <3>1, Zenon
  <2> QED BY <1>1, <1>5, <2>1, <2>2 DEF IInv, TypeOK
<1>9. e \in Child => /\ stop_inited'["acceptor"] = stop_inited["acceptor"]
                     /\ stop_inited'["syssig"] = stop_inited["syssig"]
  <2> SUFFICES ASSUME e \in Child
               PROVE  /\ stop_inited'["acceptor"] = stop_inited["acceptor"]
                      /\ stop_inited'["syssig"] = stop_inited["syssig"]
    OBVIOUS
  <2>1. "acceptor" \notin S /\ "syssig" \notin S
    BY <1>2, Names
  <2> QED BY <1>6, <1>7, <2>1, Names
<1>10. e \notin Child => \A x \in begun : stop_inited[x] \/ x \in S
                             \/ (stop_inited["acceptor"] /\ stop_inited["syssig"])
  <2>1. e \notin Child => e \in {"acceptor", "syssig"}
    BY Names
  <2> QED BY <1>2, <2>1 DEF IInv, RootPair
<1>11. e \notin Child => stop_inited'["acceptor"] /\ stop_inited'["syssig"]
  BY <1>6, <1>7, <1>10, Names
<1>12. RootPair'
  <2>1. stop_inited'["syssig"] = stop_inited'["acceptor"]
    <3>1. stop_inited'["acceptor"] \in BOOLEAN /\ stop_inited'["syssig"] \in BOOLEAN
      BY <1>8, Names DEF TypeOK
    <3> QED BY <1>9, <1>11, <3>1 DEF IInv, RootPair
  <2> QED BY <1>1, <2>1 DEF IInv, RootPair
<1>13. Serves' /\ WaitFails'
  <2>1. CASE e \notin Child
    BY <1>11, <2>1 DEF Serves, WaitFails
  <2>2. CASE e \in Child
    <3>1. ASSUME NEW y \in RootOps PROVE op'[y] = op[y] \/ (op[y] \in Outstanding /\ op'[y] = "failed" /\ y.of # "acceptor")
      <4>1. y \in Op /\ y.of \notin S /\ y # o
        BY <1>2, <2>2, Roots, Names
      <4>2. F[y] = op[y]
        BY <1>4, <4>1 DEF Cancelled
      <4> QED BY <1>5, <4>1, <4>2
    <3>2. ASSUME ~stop_inited["acceptor"], NEW y \in RootOps PROVE op'[y] # "none"
      <4>1. op[y] # "none"
        BY <3>2 DEF IInv, Serves, RootOps
      <4> QED BY <3>1, <4>1
    <3>3. Serves'
      BY <1>9, <2>2, <3>2 DEF Serves, RootOps
    <3>4. op'[Held("acceptor", "wait")] = op[Held("acceptor", "wait")]
      BY <3>1, Roots DEF RootOps
    <3>5. WaitFails'
      BY <1>9, <2>2, <3>4 DEF IInv, WaitFails
    <3> QED BY <3>3, <3>5
  <2> QED BY <2>1, <2>2
<1>14. StopReachesAll'
  <2> SUFFICES ASSUME stop_inited'["acceptor"], NEW x \in begun \ late
               PROVE  stop_inited'[x]
    BY <1>1 DEF StopReachesAll
  <2>1. x \in Event
    BY DEF IInv, TypeOK
  <2>2. CASE stop_inited["acceptor"]
    BY <1>6, <2>1, <2>2 DEF IInv, StopReachesAll
  <2>3. CASE ~stop_inited["acceptor"]
    BY <1>6, <1>9, <1>10, <2>1, <2>3
  <2> QED BY <2>2, <2>3
<1>15. \A y \in Op : /\ op'[y] # "none" => op[y] # "none"
                     /\ op'[y] = "resolving" => op[y] = "resolving"
                     /\ op'[y] = "pending" => op[y] = "pending" /\ ~Cancelled(y, S)
  <2>1. ASSUME NEW y \in Op, op'[y] # "none" PROVE op[y] # "none"
    <3>1. F[y] # "none"
      BY <1>5, <2>1 DEF Outstanding
    <3>2. Cancelled(y, S) => op[y] = "pending"
      BY DEF Cancelled
    <3> QED BY <1>4, <3>1, <3>2
  <2>2. ASSUME NEW y \in Op, op'[y] \in Outstanding
        PROVE  op[y] = op'[y] /\ ~Cancelled(y, S)
    <3>1. F[y] = op'[y]
      BY <1>5, <2>2 DEF Outstanding
    <3> QED BY <1>4, <2>2, <3>1 DEF Outstanding
  <2> QED BY <2>1, <2>2 DEF Outstanding
<1>16. Idle' /\ Resolves'
  BY <1>1, <1>15 DEF IInv, Idle, Resolves
<1>17. \A y \in Op : op'[y] = "pending" /\ y.kind # "signal" /\ stop_inited'[y.of] =>
                       stop_inited[y.of] /\ op[y] = "pending"
  BY <1>6, <1>15, Fields DEF Cancelled
<1>18. HeldRests' /\ SessionsRest' /\ Loose'
  <2>1. Loose'
    BY <1>6, <1>15, Fields DEF IInv, Loose
  <2> QED BY <1>17, <2>1 DEF IInv, HeldRests, SessionsRest
<1>19. Disarmed'
  <2> SUFFICES ASSUME ~hurried'
               PROVE  late = {} /\ (stop_inited'["acceptor"] =>
                         \A y \in Begins : op'[y] \in {"none", "failed"})
    BY <1>1 DEF Disarmed
  <2>1. ~hurried /\ late = {}
    BY <1>1 DEF IInv, Disarmed
  <2>2. ASSUME stop_inited["acceptor"], NEW y \in Begins PROVE op'[y] \in {"none", "failed"}
    <3>1. y \in Op /\ op[y] \in {"none", "failed"}
      BY <2>1, <2>2 DEF IInv, Disarmed, Begins
    <3>2. F[y] \in {"none", "failed"}
      BY <1>4, <3>1
    <3> QED BY <1>5, <3>1, <3>2
  <2>3. ASSUME ~stop_inited["acceptor"], stop_inited'["acceptor"], NEW y \in Begins
        PROVE  op'[y] \in {"none", "failed"}
    <3>1. "acceptor" \in S /\ e \notin Child
      BY <1>6, <1>9, <2>3, Names
    <3>2. y \in Op /\ op[y] \in OpState /\ op[y] # "ok"
      BY <1>1, <2>1, <3>1 DEF IInv, TypeOK, Begins
    <3>3. y.of = "acceptor" \/ (y.of \in Session /\ y.kind = "io")
      BY Whose DEF Begins
    <3>4. op[y] # "resolving"
      BY <3>2, <3>3, Names DEF IInv, Resolves
    <3>5. op[y] = "pending" => y.of \in S
      <4>1. y.of = "acceptor" => y.of \in S
        BY <3>1
      <4>2. op[y] = "pending" /\ y.of \in Session => y.of \in begun /\ ~stop_inited[y.of]
        BY <3>2, <3>3, Names DEF IInv, Idle, SessionsRest
      <4>3. op[y] = "pending" /\ y.of \in Session => y.of \in S
        BY <1>10, <2>3, <3>1, <4>2
      <4> QED BY <3>3, <4>1, <4>3
    <3>6. y.kind # "signal"
      BY <3>2, <3>3, Whose
    <3>7. op[y] = "pending" => Cancelled(y, S)
      BY <3>5, <3>6 DEF Cancelled
    <3>8. F[y] \in {"none", "failed"}
      BY <1>4, <3>2, <3>4, <3>7 DEF OpState
    <3> QED BY <1>5, <3>2, <3>8
  <2> QED BY <2>1, <2>2, <2>3
<1> QED BY <1>8, <1>9, <1>12, <1>13, <1>14, <1>16, <1>18, <1>19 DEF IInv

\* What a handler that stops nothing does to its own operation and one it starts.
LEMMA LeavesKeeps ==
    ASSUME IInv, NEW o \in Op, NEW x \in Op, NEW st \in OpState, Leaves(o, x, st),
           x.of = o.of, strayed' \in BOOLEAN, op[o] # "none",
           x # o /\ ~x.holds => stop_inited[x.of],
           ~stop_inited["acceptor"] =>
              \A y \in RootOps : (y = o => x = o) /\ (y = x => st # "none"),
           x = Held("acceptor", "wait") /\ st = "failed" => stop_inited["acceptor"],
           st = "resolving" => x.of \in Reader,
           st = "pending" /\ stop_inited[x.of] =>
              ~x.holds /\ ~(x.of \in Session /\ x.kind = "io"),
           x \in Begins /\ stop_inited["acceptor"] /\ ~hurried => st \in {"none", "failed"}
    PROVE  IInv'
<1> DEFINE F == [op EXCEPT ![o] = "none", ![x] = st]
<1>1. /\ op' = Settled(F, stop_inited)
      /\ UNCHANGED <<begun, stop_inited, late, hurried, signalled>>
  BY DEF Leaves
<1>2. op \in [Op -> OpState] /\ "none" \in OpState
  BY DEF IInv, TypeOK, OpState
<1>3. /\ F \in [Op -> OpState]
      /\ \A y \in Op : F[y] = IF y = x THEN st ELSE IF y = o THEN "none" ELSE op[y]
  BY <1>2
<1> HIDE DEF F
<1>4. /\ op' \in [Op -> OpState]
      /\ \A y \in Op : \/ op'[y] = F[y]
                       \/ F[y] \in Outstanding /\ op'[y] = "failed"
                          /\ stop_inited[y.of] /\ y.of # "acceptor"
  BY ONLY <1>1, <1>3, SettledFacts
<1>5. \A y \in Op : Becomes(y, IF y = x THEN st ELSE IF y = o THEN "none" ELSE op[y])
  BY <1>1, <1>3, <1>4 DEF Becomes
<1>6. signalled' \in BOOLEAN
  BY <1>1 DEF IInv, TypeOK
<1> QED BY <1>1, <1>4, <1>5, <1>6, StepKeeps

\* The operation that a handler of o starts.
LEMMA Started ==
    ASSUME IInv, NEW o \in Op, NEW k \in Kinds(o.of)
    PROVE  /\ Now(o.of, k) \in Op /\ Now(o.of, k).of = o.of /\ Now(o.of, k).kind = k
           /\ Now(o.of, k).holds = ~stop_inited[o.of]
           /\ ~stop_inited[o.of] => Now(o.of, k) = Held(o.of, k)
<1>1. o.of \in Event /\ stop_inited[o.of] \in BOOLEAN
  BY Fields DEF IInv, TypeOK
<1>2. \A h \in BOOLEAN : [of |-> o.of, kind |-> k, holds |-> h] \in Op
  BY <1>1 DEF Op
<1>3. (~stop_inited[o.of]) \in BOOLEAN
  OBVIOUS
<1>4. Now(o.of, k) \in Op
  BY <1>2, <1>3, Zenon DEF Now
<1>5. ~stop_inited[o.of] => Now(o.of, k) = Held(o.of, k)
  BY DEF Held, Now
<1>6. /\ Now(o.of, k).of = o.of /\ Now(o.of, k).kind = k
      /\ Now(o.of, k).holds = ~stop_inited[o.of]
  BY Zenon DEF Now
<1> QED BY <1>4, <1>5, <1>6

\* Restarting the timer, of whatever event, keeps the invariant.
LEMMA RestartsKeeps ==
    ASSUME IInv, NEW o \in Op, o.kind = "wait" \/ o.kind = "io", op[o] # "none",
           Restarts(o), strayed' \in BOOLEAN
    PROVE  IInv'
<1> DEFINE x == Now(o.of, "wait")
<1>1. /\ x \in Op /\ x.of = o.of /\ x.kind = "wait" /\ x.holds = ~stop_inited[o.of]
      /\ ~stop_inited[o.of] => x = Held(o.of, "wait")
  <2>1. "wait" \in Kinds(o.of)
    BY DEF Kinds
  <2> QED BY <2>1, Started
<1> HIDE DEF x
<1>2. PICK st \in {"ok", "pending"} : Leaves(o, x, st)
  BY DEF Restarts, x
<1>3. st \in OpState
  BY DEF OpState
<1>4. ASSUME ~stop_inited["acceptor"], NEW y \in RootOps, y = o PROVE x = o
  <2>1. o.of = "acceptor" /\ o.kind = "wait"
    BY <1>4, Roots, Whose, Names
  <2>2. o = Held(o.of, o.kind)
    BY <1>4, Roots, Fields
  <2> QED BY <1>1, <1>4, <2>1, <2>2
<1>5. x \notin Begins
  BY <1>1 DEF Begins
<1> QED BY <1>1, <1>2, <1>3, <1>4, <1>5, LeavesKeeps

\* A handler of a child that starts an operation of a session or a reader, or none.
LEMMA ChildKeeps ==
    ASSUME IInv, NEW o \in Op, o.kind = "io", op[o] = "ok", strayed' \in BOOLEAN,
           NEW x \in Op, NEW st \in OpState, Leaves(o, x, st),
           \/ x = o /\ st = "none"
           \/ x = Now(o.of, "io") /\ st \in After(o.of)
    PROVE  IInv'
<1>1. o.of \in Child /\ o \notin RootOps
  BY Whose, Roots, Names
<1>2. /\ x.of = o.of /\ x.kind = "io" /\ (x # o => x.holds = ~stop_inited[o.of])
      /\ st # "none" => x.holds = ~stop_inited[o.of]
  <2>1. "io" \in Kinds(o.of)
    BY <1>1, Names DEF Kinds
  <2> QED BY <2>1, Started DEF After
<1>3. x \notin RootOps /\ x # Held("acceptor", "wait")
  BY <1>1, <1>2, Roots, Names
<1>4. st = "resolving" => x.of \in Reader
  BY <1>1, <1>2 DEF After, Child
<1>5. st = "pending" /\ stop_inited[x.of] => ~x.holds /\ x.of \notin Session
  BY <1>2, Names DEF After
<1>6. x \in Begins /\ stop_inited["acceptor"] /\ ~hurried => st \in {"none", "failed"}
  <2>1. x \in Begins => o \in Begins
    BY <1>2 DEF Begins
  <2> QED BY <2>1 DEF IInv, Disarmed
<1> QED BY <1>1, <1>2, <1>3, <1>4, <1>5, <1>6, LeavesKeeps

\* Every step keeps the invariant, and stops the acceptor only from a handler of
\* a failed accept or of a signal.
LEMMA NextIInv ==
    ASSUME IInv, Next
    PROVE  /\ IInv'
           /\ ~stop_inited["acceptor"] /\ stop_inited'["acceptor"] =>
                 \/ op[Held("acceptor", "accept")] = "failed"
                 \/ op[Held("syssig", "signal")] = "ok"
<1> DEFINE Same == stop_inited'["acceptor"] = stop_inited["acceptor"]
<1>1. PICK o \in Op : Runs(o) \/ Complete(o)
  BY DEF Next
<1>2. /\ o.of \in Event /\ strayed \in BOOLEAN /\ signalled \in BOOLEAN
      /\ {"none", "pending", "resolving", "ok", "failed"} = OpState
      /\ op \in [Op -> OpState]
  BY Fields DEF IInv, TypeOK, OpState
<1>3. CASE Complete(o)
  <2>1. PICK st \in {"ok", "failed"} :
           /\ op' = [op EXCEPT ![o] = st] /\ op[o] \in Outstanding
           /\ o.kind \in {"wait", "signal"} => st = "ok"
           /\ UNCHANGED <<begun, stop_inited, late, hurried, strayed, signalled>>
    BY <1>3 DEF Complete
  <2>2. op[o] # "none"
    BY <2>1 DEF Outstanding
  <2>3. st \in OpState /\ op' \in [Op -> OpState]
    BY <1>2, <2>1
  <2>4. \A y \in Op : Becomes(y, IF y = o THEN st ELSE IF y = o THEN "none" ELSE op[y])
    BY <1>2, <2>1 DEF Becomes
  <2>5. o # Held("acceptor", "wait") \/ st # "failed"
    BY <2>1, Roots
  <2>6. o \in Begins => ~(stop_inited["acceptor"] /\ ~hurried)
    BY <2>1 DEF IInv, Disarmed, Outstanding
  <2>7. IInv'
    BY <1>2, <2>1, <2>2, <2>3, <2>4, <2>5, <2>6, StepKeeps
  <2> QED BY <2>1, <2>7
<1>4. CASE AcceptFailed(o)
  <2>1. o.kind = "accept" /\ op[o] = "failed" /\ StopFrom("acceptor", o) /\ signalled' = signalled
    BY <1>4 DEF AcceptFailed
  <2>2. IInv'
    BY <1>2, <2>1, StopKeeps, Names
  <2>3. ~stop_inited["acceptor"] => o = Held("acceptor", "accept")
    BY <2>1, Fields, Whose DEF IInv, Loose
  <2> QED BY <2>1, <2>2, <2>3
<1>5. CASE Signal(o)
  <2>1. o.kind = "signal" /\ op[o] = "ok" /\ StopFrom("syssig", o) /\ signalled' = TRUE
    BY <1>5 DEF Signal
  <2>2. IInv'
    BY <2>1, StopKeeps, Names
  <2>3. ~stop_inited["acceptor"] => o = Held("syssig", "signal")
    BY <2>1, Fields, Whose DEF IInv, Loose, RootPair
  <2> QED BY <2>1, <2>2, <2>3
<1>6. CASE ChildStops(o)
  <2>1. o.kind = "io" /\ op[o] # "none" /\ StopFrom(o.of, o) /\ signalled' = signalled
    BY <1>6 DEF ChildStops
  <2>2. o.of \in Child /\ o \notin RootOps
    BY <2>1, Whose, Roots, Names
  <2> QED BY <1>2, <2>1, <2>2, StopKeeps
<1>7. ASSUME NEW s \in Session, Accepted(o, s) PROVE IInv' /\ Same
  <2> DEFINE x == Now("acceptor", "accept")
  <2>1. o.kind = "accept" /\ op[o] = "ok" /\ CreateChild(s, o, x, "pending")
    BY <1>7 DEF Accepted
  <2>2. o.of = "acceptor" /\ o \in Begins
    BY <2>1, Whose DEF Begins
  <2>3. "accept" \in Kinds(o.of)
    BY <2>2 DEF Kinds
  <2>4. /\ x \in Op /\ x.of = o.of /\ x.kind = "accept" /\ x.holds = ~stop_inited[o.of]
        /\ ~stop_inited[o.of] => x = Held(o.of, "accept")
    BY <2>2, <2>3, Started
  <2> HIDE DEF x
  <2> QED BY <1>2, <2>1, <2>2, <2>4, CreateKeeps, Names
<1>8. ASSUME NEW r \in Reader, HandsOver(o, r) PROVE IInv' /\ Same
  <2> DEFINE x == Now(o.of, "io")
             st == IF stop_inited[o.of] THEN "failed" ELSE "pending"
  <2>1. o.kind = "io" /\ op[o] = "ok" /\ o.of \in Session /\ CreateChild(r, o, x, st)
    BY <1>8 DEF HandsOver
  <2>2. o \in Begins /\ o.of # "acceptor"
    BY <2>1, Names DEF Begins
  <2>3. "io" \in Kinds(o.of)
    BY <2>1, Names DEF Kinds
  <2>4. /\ x \in Op /\ x.of = o.of /\ x.kind = "io" /\ x.holds = ~stop_inited[o.of]
        /\ ~stop_inited[o.of] => x = Held(o.of, "io")
    BY <2>3, Started
  <2>5. st \in OpState /\ st = (IF o.of = "acceptor" \/ ~stop_inited[o.of] THEN "pending" ELSE "failed")
    BY <1>2, <2>2
  <2> HIDE DEF x, st
  <2> QED BY <2>1, <2>2, <2>4, <2>5, CreateKeeps, Names
<1>9. CASE Tick(o) \/ Replied(o)
  <2>1. (o.kind = "wait" \/ o.kind = "io") /\ op[o] = "ok" /\ Restarts(o) /\ strayed' = strayed
    BY <1>9 DEF Tick, Replied
  <2>2. Same
    BY <2>1 DEF Restarts, Leaves
  <2> QED BY <1>2, <2>1, <2>2, RestartsKeeps
<1>10. CASE TickCancelled(o)
  <2>1. o.kind = "wait" /\ op[o] = "failed" /\ Leaves(o, o, "none") /\ strayed' = strayed
    BY <1>10 DEF TickCancelled
  <2>2. Same
    BY <2>1 DEF Leaves
  <2>3. o \in RootOps => stop_inited["acceptor"]
    <3>1. o \in RootOps => o = Held("acceptor", "wait")
      BY <2>1, Roots, Fields, Whose
    <3> QED BY <2>1, <3>1 DEF IInv, WaitFails
  <2> QED BY <1>2, <2>1, <2>2, <2>3, LeavesKeeps
<1>11. CASE GoesOn(o) \/ ReaderForgets(o)
  <2>1. PICK x \in Op, st \in OpState :
           /\ o.kind = "io" /\ op[o] = "ok" /\ Leaves(o, x, st) /\ strayed' = strayed
           /\ (x = o /\ st = "none") \/ (x = Now(o.of, "io") /\ st \in After(o.of))
    <3>1. CASE ReaderForgets(o)
      BY <1>2, <3>1 DEF ReaderForgets
    <3>2. CASE GoesOn(o)
      <4>1. PICK st \in After(o.of) : Leaves(o, Now(o.of, "io"), st)
        BY <3>2 DEF GoesOn
      <4>2. o.kind = "io" /\ op[o] = "ok" /\ strayed' = strayed
        BY <3>2 DEF GoesOn
      <4>3. "io" \in Kinds(o.of)
        BY <4>2, Fields
      <4>4. st \in OpState /\ Now(o.of, "io") \in Op
        BY <1>2, <4>1, <4>3, Started DEF After
      <4> QED BY <4>1, <4>2, <4>4
    <3> QED BY <1>11, <3>1, <3>2
  <2>2. Same
    BY <2>1 DEF Leaves
  <2> QED BY <1>2, <2>1, <2>2, ChildKeeps
<1>12. CASE Strays(o)
  <2>1. PICK st \in {"none"} \cup (IF o.kind = "wait" THEN {"pending"} ELSE {}) :
           op' = [op EXCEPT ![o] = st]
    BY <1>12 DEF Strays
  <2>2. /\ o.kind \in {"io", "wait"} /\ Freed(o.of) /\ op[o] \in {"ok", "failed"}
        /\ strayed' = (strayed \/ op[o] = "ok")
        /\ UNCHANGED <<begun, stop_inited, late, hurried, signalled>>
    BY <1>12 DEF Strays
  <2>3. o.of # "acceptor" /\ stop_inited[o.of] /\ op[Held(o.of, o.kind)] = "none"
    BY <2>2, Fields DEF Freed, Destructed
  <2>4. ~o.holds
    BY <2>2, <2>3, Fields
  <2>5. o \notin RootOps
    BY <2>4, Roots
  <2>6. st \in OpState /\ op' \in [Op -> OpState] /\ strayed' \in BOOLEAN
    BY <1>2, <2>1, <2>2
  <2>7. \A y \in Op : Becomes(y, IF y = o THEN st ELSE IF y = o THEN "none" ELSE op[y])
    BY <1>2, <2>1 DEF Becomes
  <2>8. st \in {"none", "pending"} /\ (st = "pending" => o.kind = "wait" /\ o \notin Begins)
    BY <2>1 DEF Begins
  <2>9. IInv'
    BY <1>2, <2>2, <2>4, <2>5, <2>6, <2>7, <2>8, Roots, StepKeeps
  <2> QED BY <2>2, <2>9
<1>13. CASE Runs(o)
  BY <1>4, <1>5, <1>6, <1>7, <1>8, <1>9, <1>10, <1>11, <1>12, <1>13 DEF Runs
<1> QED BY <1>1, <1>3, <1>13

-----------------------------------------------------------------------------
\* The invariant holds of every execution of the daemon.
THEOREM Invariance == Spec => []IInv
<1>1. IInv /\ UNCHANGED vars => IInv'
  BY DEF vars, IInv, TypeOK, RootPair, WaitFails, Idle, Serves, StopReachesAll, Resolves,
         HeldRests, Loose, SessionsRest, Disarmed
<1>2. IInv /\ [Next]_vars => IInv'
  BY <1>1, NextIInv
<1> QED BY InitIInv, <1>2, PTL DEF Spec

\* Every variable stays within its type.
THEOREM TypeCorrect == Spec => []TypeOK
<1>1. IInv => TypeOK
  BY DEF IInv
<1> QED BY <1>1, Invariance, PTL

\* Until the acceptor is stopped it accepts, its timer runs, and it hears signals,
\* whatever sessions and readers do.
THEOREM ServesUntilStopped == Spec => []Serves
<1>1. IInv => Serves
  BY DEF IInv
<1> QED BY <1>1, Invariance, PTL

\* One stop of the acceptor has stopped every event below it that was begun.
THEOREM StopIsComplete == Spec => []StopReachesAll
<1>1. IInv => StopReachesAll
  BY DEF IInv
<1> QED BY <1>1, Invariance, PTL

\* What a stop of the acceptor cancels begins no session and no reader: only an
\* accept, or an operation of a session, that was queued with success then does.
THEOREM OnlyQueuedBegins == Spec => []LateWasQueued
<1>1. IInv => LateWasQueued
  BY DEF IInv, Disarmed, LateWasQueued
<1> QED BY <1>1, Invariance, PTL

\* Nothing but a failed accept or a signal stops the acceptor.
THEOREM NobodyElseStops == Spec => OnlyOwnStops
<1> DEFINE Own == ~stop_inited["acceptor"] /\ stop_inited'["acceptor"] =>
                     \/ op[Held("acceptor", "accept")] = "failed"
                     \/ op[Held("syssig", "signal")] = "ok"
<1>1. IInv /\ [Next]_vars => [Own]_vars
  BY NextIInv
<1>2. Spec => [][Own]_vars
  BY <1>1, Invariance, PTL DEF Spec
<1> QED BY <1>2 DEF OnlyOwnStops

-----------------------------------------------------------------------------
\* What QuietStopDrains says of operation y.
Drains(y) ==
    op'[y] # op[y] =>
       /\ y.of = "acceptor" => op'[y] = "none"
       /\ y.holds => \/ op'[y] = "none"
                     \/ op[y] \in Outstanding /\ op'[y] \notin Outstanding

\* Behind a quiet stop the acceptor has nothing outstanding or queued with success,
\* and what has an operation has stopped.
LEMMA QuietFacts ==
    ASSUME IInv, Quiet
    PROVE  /\ \A y \in Op : y.of = "acceptor" => op[y] \in {"none", "failed"}
           /\ \A y \in Op : op[y] # "none" => stop_inited[y.of]
<1>1. stop_inited["acceptor"] /\ stop_inited["syssig"] /\ late = {}
  BY DEF Quiet, IInv, RootPair
<1>2. ASSUME NEW y \in Op, y.of = "acceptor" PROVE op[y] \in {"none", "failed"}
  <2>1. op[y] # "ok" /\ (op[y] # "none" => y.holds) /\ op[y] \in OpState
    BY <1>2 DEF Quiet, IInv, TypeOK
  <2>2. op[y] # "resolving"
    BY <1>2, Names DEF IInv, Resolves
  <2>3. y.kind # "signal"
    BY <1>2, Whose
  <2>4. op[y] # "pending"
    BY <1>1, <1>2, <2>1, <2>3 DEF IInv, HeldRests
  <2> QED BY <2>1, <2>2, <2>4 DEF OpState
<1>3. ASSUME NEW y \in Op, op[y] # "none" PROVE stop_inited[y.of]
  <2>1. CASE y.of \in Child
    BY <1>1, <1>3, <2>1 DEF IInv, Idle, StopReachesAll
  <2> QED BY <1>1, <2>1, Fields, Names
<1> QED BY <1>2, <1>3

\* A handler that takes its operation away and starts one, if any, that does not
\* hold its event.
LEMMA QuietHandler ==
    ASSUME IInv, Quiet, NEW o \in Op, op[o] # "none", NEW x \in Op, NEW st \in OpState,
           op' = Settled([op EXCEPT ![o] = "none", ![x] = st], stop_inited),
           (x = o /\ st = "none") \/ (~x.holds /\ x.of # "acceptor"),
           NEW y \in Op
    PROVE  Drains(y)
<1> DEFINE F == [op EXCEPT ![o] = "none", ![x] = st]
<1>1. op \in [Op -> OpState] /\ "none" \in OpState
  BY DEF IInv, TypeOK, OpState
<1>2. F \in [Op -> OpState] /\ F[y] = IF y = x THEN st ELSE IF y = o THEN "none" ELSE op[y]
  BY <1>1
<1>3. op' = Settled(F, stop_inited)
  OBVIOUS
<1> HIDE DEF F
<1>4. op'[y] = F[y] \/ (F[y] \in Outstanding /\ op'[y] = "failed" /\ y.of # "acceptor")
  BY ONLY <1>2, <1>3, y \in Op, SettledFacts
<1> QED BY <1>2, <1>4 DEF Drains, Outstanding

\* stop() of an event that has stopped takes away the handler's own operation.
LEMMA StoppedFrom ==
    ASSUME IInv, NEW e, NEW o \in Op, stop_inited[e], StopFrom(e, o)
    PROVE  op' = Settled([op EXCEPT ![o] = "none", ![o] = "none"], stop_inited)
<1>1. StopSet(e) = {}
  BY DEF StopSet
<1>2. /\ stop_inited' = [x \in Event |-> stop_inited[x] \/ x \in {}]
      /\ op' = Settled([x \in Op |-> IF x = o THEN "none"
                          ELSE IF Cancelled(x, {}) THEN "failed" ELSE op[x]], stop_inited')
  BY <1>1 DEF StopFrom
<1>3. stop_inited' = stop_inited
  BY <1>2 DEF IInv, TypeOK
<1>4. \A x : ~Cancelled(x, {})
  BY DEF Cancelled
<1>5. op \in [Op -> OpState]
  BY DEF IInv, TypeOK
<1>6. [x \in Op |-> IF x = o THEN "none" ELSE IF Cancelled(x, {}) THEN "failed" ELSE op[x]]
         = [op EXCEPT ![o] = "none", ![o] = "none"]
  BY <1>4, <1>5
<1> QED BY <1>2, <1>3, <1>6

\* A step after a quiet stop that begins nothing.
LEMMA QuietStep ==
    ASSUME IInv, Quiet, Next, late' = {}, NEW y \in Op
    PROVE  Drains(y)
<1>1. PICK o \in Op : Runs(o) \/ Complete(o)
  BY DEF Next
<1>2. /\ \A z \in Op : z.of = "acceptor" => op[z] \in {"none", "failed"}
      /\ \A z \in Op : op[z] # "none" => stop_inited[z.of]
  BY QuietFacts
<1>3. /\ stop_inited["acceptor"] /\ stop_inited["syssig"]
      /\ op \in [Op -> OpState] /\ "none" \in OpState /\ "ok" \in OpState
      /\ "pending" \in OpState /\ "failed" \in OpState /\ "resolving" \in OpState
  BY DEF Quiet, IInv, RootPair, TypeOK, OpState
<1>4. ASSUME Leaves(o, o, "none"), op[o] # "none" PROVE Drains(y)
  BY <1>3, <1>4, QuietHandler DEF Leaves
<1>5. ASSUME NEW k \in Kinds(o.of), NEW st \in OpState, Leaves(o, Now(o.of, k), st),
             op[o] = "ok"
      PROVE  Drains(y)
  <2>1. stop_inited[o.of] /\ o.of # "acceptor"
    BY <1>2, <1>5
  <2>2. Now(o.of, k) \in Op /\ Now(o.of, k).of = o.of /\ ~Now(o.of, k).holds
    BY <2>1, Started
  <2> QED BY <1>5, <2>1, <2>2, QuietHandler DEF Leaves
<1>6. ASSUME NEW e, stop_inited[e], StopFrom(e, o), op[o] # "none" PROVE Drains(y)
  BY <1>3, <1>6, StoppedFrom, QuietHandler
<1>7. CASE Complete(o)
  <2>1. PICK st \in {"ok", "failed"} : op' = [op EXCEPT ![o] = st] /\ op[o] \in Outstanding
    BY <1>7 DEF Complete
  <2>2. o.of # "acceptor"
    BY <1>2, <2>1 DEF Outstanding
  <2> QED BY <1>3, <2>1, <2>2 DEF Drains, Outstanding
<1>8. CASE AcceptFailed(o)
  BY <1>3, <1>6, <1>8 DEF AcceptFailed
<1>9. CASE Signal(o)
  BY <1>3, <1>6, <1>9 DEF Signal
<1>10. CASE ChildStops(o)
  <2>1. StopFrom(o.of, o) /\ op[o] # "none"
    BY <1>10 DEF ChildStops
  <2> QED BY <1>2, <1>6, <2>1
<1>11. ASSUME NEW s \in Session, Accepted(o, s) PROVE FALSE
  BY <1>2, <1>11, Whose DEF Accepted
<1>12. ASSUME NEW r \in Reader, HandsOver(o, r) PROVE FALSE
  BY <1>3, <1>12 DEF HandsOver, CreateChild
<1>13. CASE Tick(o) \/ Replied(o)
  <2>1. PICK st \in OpState : Leaves(o, Now(o.of, "wait"), st) /\ op[o] = "ok"
    BY <1>3, <1>13 DEF Tick, Replied, Restarts
  <2>2. "wait" \in Kinds(o.of)
    BY DEF Kinds
  <2> QED BY <1>5, <2>1, <2>2
<1>14. CASE TickCancelled(o) \/ ReaderForgets(o)
  BY <1>4, <1>14 DEF TickCancelled, ReaderForgets
<1>15. CASE GoesOn(o)
  <2>1. PICK st \in After(o.of) : Leaves(o, Now(o.of, "io"), st)
    BY <1>15 DEF GoesOn
  <2>2. o.kind = "io" /\ op[o] = "ok"
    BY <1>15 DEF GoesOn
  <2>3. "io" \in Kinds(o.of)
    BY <2>2, Fields
  <2>4. st \in OpState
    BY <1>3 DEF After
  <2> QED BY <1>5, <2>1, <2>2, <2>3, <2>4
<1>16. CASE Strays(o)
  <2>1. \E st : op' = [op EXCEPT ![o] = st]
    BY <1>16 DEF Strays
  <2>2. o.kind \in {"io", "wait"} /\ Freed(o.of) /\ op[o] \in {"ok", "failed"}
    BY <1>16 DEF Strays
  <2>3. o.of # "acceptor" /\ ~o.holds
    BY <2>2, Fields DEF Freed, Destructed
  <2> QED BY <1>3, <2>1, <2>3 DEF Drains
<1>17. CASE Runs(o)
  BY <1>8, <1>9, <1>10, <1>11, <1>12, <1>13, <1>14, <1>15, <1>16, <1>17 DEF Runs
<1> QED BY <1>1, <1>7, <1>17

\* QuietStopDrains: after a stop that found none of the acceptor's own handlers
\* queued with success, and while nothing is begun, the acceptor starts nothing and
\* nobody else starts what would hold an event, its timer, a resolve and a reply
\* included; so the operations that keep events alive only grow fewer.
THEOREM QuietStopOnlyDrains == Spec => QuietStopDrains
<1> DEFINE Step == Quiet /\ late' = {} =>
                      \A o \in Op : op'[o] # op[o] =>
                         /\ o.of = "acceptor" => op'[o] = "none"
                         /\ o.holds => \/ op'[o] = "none"
                                       \/ op[o] \in Outstanding /\ op'[o] \notin Outstanding
<1>1. IInv /\ [Next]_vars => [Step]_vars
  BY QuietStep DEF Drains
<1>2. Spec => [][Step]_vars
  BY <1>1, Invariance, PTL DEF Spec
<1> QED BY <1>2 DEF QuietStopDrains

=============================================================================
