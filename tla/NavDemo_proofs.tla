--------------------------- MODULE NavDemo_proofs ---------------------------
(***************************************************************************)
(* What the navigation demo promises whatever the number of goals and      *)
(* intents, the size of the queues and the length of the ways: types, the  *)
(* last intent wins, and the simulator behind its inputs is a NavBase.     *)
(***************************************************************************)
EXTENDS NavDemo, TLAPS

-----------------------------------------------------------------------------
(* The inductive invariant.                                                *)

(* Mode and status of the base go together, and mode goal has a target.    *)
ModeInv ==
  /\ mode = "goal" => target \in Goals /\ status = "following"
  /\ mode = "velocity" => moving /\ status = "following"
  /\ mode = "idle" => status \in {"idle", "arrived"}

(* A message is of an intent there was, and one of the last intent says    *)
(* what that intent wants.                                                 *)
Upto(q, n, c) ==
  \A i \in DOMAIN q : q[i].n <= n /\ (q[i].n = n => q[i].cmd = c)

(* An intent has at most one message on an input.                          *)
Rising(q) == \A i, j \in DOMAIN q : i < j => q[i].n < q[j].n

InOrder(q) == Upto(q, sent, wanted) /\ Rising(q)

QueueInv == InOrder(goals) /\ InOrder(cancels) /\ InOrder(velocities)

IInv ==
  /\ TypeOK
  /\ ModeInv
  /\ QueueInv
  /\ handled <= sent
  /\ LastIntentWins

-----------------------------------------------------------------------------
(* The messages.                                                           *)

LEMMA PushType ==
  ASSUME NEW S, NEW q \in Seq(S), Len(q) <= QueueSize, NEW m \in S
  PROVE  Push(q, m) \in Seq(S) /\ Len(Push(q, m)) <= QueueSize
  BY NavDemoAssumption DEF Push

(* A full queue is one that has been shifted.                              *)
LEMMA PushMember ==
  ASSUME NEW S, NEW q \in Seq(S), Len(q) <= QueueSize, NEW m \in S
  PROVE  \E d \in {0, 1} :
           /\ Len(Push(q, m)) = Len(q) + 1 - d
           /\ Push(q, m)[Len(Push(q, m))] = m
           /\ \A i \in DOMAIN Push(q, m) :
                i # Len(Push(q, m)) =>
                  i + d \in DOMAIN q /\ Push(q, m)[i] = q[i + d]
<1>1. CASE Len(q) < QueueSize
  BY <1>1 DEF Push
<1>2. CASE ~(Len(q) < QueueSize)
  BY <1>2, NavDemoAssumption DEF Push
<1>. QED
  BY <1>1, <1>2

LEMMA TailMember ==
  ASSUME NEW S, NEW q \in Seq(S), q # << >>
  PROVE  /\ Head(q) \in S
         /\ 1 \in DOMAIN q /\ Head(q) = q[1]
         /\ Tail(q) \in Seq(S)
         /\ Len(Tail(q)) = Len(q) - 1
         /\ \A i \in DOMAIN Tail(q) : /\ i + 1 \in DOMAIN q
                                      /\ Tail(q)[i] = q[i + 1]
  OBVIOUS

LEMMA PushRising ==
  ASSUME NEW S, NEW q \in Seq(S), Len(q) <= QueueSize, NEW m \in S,
         \A x \in S : x.n \in Nat, Rising(q),
         \A i \in DOMAIN q : q[i].n < m.n
  PROVE  Rising(Push(q, m))
<1>. DEFINE p == Push(q, m)
<1>1. PICK d \in {0, 1} :
        /\ Len(p) = Len(q) + 1 - d
        /\ p[Len(p)] = m
        /\ \A i \in DOMAIN p :
             i # Len(p) => i + d \in DOMAIN q /\ p[i] = q[i + d]
  BY PushMember
<1>2. p \in Seq(S)
  BY PushType
<1>. HIDE DEF p
<1>3. SUFFICES ASSUME NEW i \in DOMAIN p, NEW j \in DOMAIN p, i < j
               PROVE  p[i].n < p[j].n
  BY DEF p, Rising
<1>4. i # Len(p) /\ i \in Nat /\ j \in Nat
  BY <1>2, <1>3
<1>5. i + d \in DOMAIN q /\ p[i] = q[i + d]
  BY <1>1, <1>4
<1>6. CASE j = Len(p)
  BY <1>1, <1>5, <1>6
<1>7. CASE j # Len(p)
  <2>1. j + d \in DOMAIN q /\ p[j] = q[j + d]
    BY <1>1, <1>7
  <2>. QED
    BY <1>3, <1>4, <1>5, <2>1 DEF Rising
<1>. QED
  BY <1>6, <1>7

(* A new intent, with a message in the queue or without one.               *)
LEMMA UptoPush ==
  ASSUME NEW S, NEW q \in Seq(S), Len(q) <= QueueSize,
         \A x \in S : x.n \in Nat,
         NEW n \in Nat, NEW w, NEW c, Upto(q, n, w),
         [n |-> n + 1, cmd |-> c] \in S
  PROVE  /\ Upto(q, n + 1, c)
         /\ Upto(Push(q, [n |-> n + 1, cmd |-> c]), n + 1, c)
<1>. DEFINE m == [n |-> n + 1, cmd |-> c]
            p == Push(q, m)
<1>1. PICK d \in {0, 1} :
        /\ Len(p) = Len(q) + 1 - d
        /\ p[Len(p)] = m
        /\ \A i \in DOMAIN p :
             i # Len(p) => i + d \in DOMAIN q /\ p[i] = q[i + d]
  BY PushMember
<1>2. \A i \in DOMAIN q : q[i].n \in Nat /\ q[i].n <= n
  BY DEF Upto
<1>3. Upto(q, n + 1, c)
  BY <1>2 DEF Upto
<1>4. m.n = n + 1 /\ m.cmd = c
  OBVIOUS
<1>. HIDE DEF m, p
<1>5. Upto(p, n + 1, c)
  <2>. SUFFICES ASSUME NEW i \in DOMAIN p
                PROVE  p[i].n <= n + 1 /\ (p[i].n = n + 1 => p[i].cmd = c)
    BY DEF Upto
  <2>1. CASE i = Len(p)
    BY <1>1, <1>4, <2>1
  <2>2. CASE i # Len(p)
    BY <1>1, <1>2, <2>2
  <2>. QED
    BY <2>1, <2>2
<1>. QED
  BY <1>3, <1>5 DEF m, p

LEMMA UptoTail ==
  ASSUME NEW S, NEW q \in Seq(S), q # << >>, NEW n, NEW c, Upto(q, n, c)
  PROVE  /\ Head(q).n <= n
         /\ Head(q).n = n => Head(q).cmd = c
         /\ Upto(Tail(q), n, c)
  BY TailMember DEF Upto

LEMMA RisingTail ==
  ASSUME NEW S, NEW q \in Seq(S), q # << >>, Rising(q)
  PROVE  /\ Rising(Tail(q))
         /\ \A i \in DOMAIN Tail(q) : Head(q).n < Tail(q)[i].n
<1>1. /\ 1 \in DOMAIN q /\ Head(q) = q[1]
      /\ \A i \in DOMAIN Tail(q) : i \in Nat /\ i > 0
      /\ \A i \in DOMAIN Tail(q) : i + 1 \in DOMAIN q /\ Tail(q)[i] = q[i + 1]
  BY TailMember
<1>. QED
  BY <1>1 DEF Rising

(* What a queue holds after a message came, or went.                       *)
LEMMA PushMessages ==
  ASSUME NEW S, NEW q \in Seq(S), Len(q) <= QueueSize, NEW m \in S
  PROVE  Messages(Push(q, m)) \subseteq Messages(q) \cup {m}
<1>1. PICK d \in {0, 1} :
        /\ Len(Push(q, m)) = Len(q) + 1 - d
        /\ Push(q, m)[Len(Push(q, m))] = m
        /\ \A i \in DOMAIN Push(q, m) :
             i # Len(Push(q, m)) =>
               i + d \in DOMAIN q /\ Push(q, m)[i] = q[i + d]
  BY PushMember
<1>. QED
  BY <1>1 DEF Messages

LEMMA TailMessages ==
  ASSUME NEW S, NEW q \in Seq(S), q # << >>, Rising(q), \A x \in S : x.n \in Nat
  PROVE  /\ Head(q) \in Messages(q)
         /\ Messages(Tail(q)) = Messages(q) \ {Head(q)}
<1>1. /\ 1 \in DOMAIN q /\ Head(q) = q[1] /\ Head(q) \in S
      /\ Len(Tail(q)) = Len(q) - 1
      /\ \A i \in DOMAIN Tail(q) : i + 1 \in DOMAIN q /\ Tail(q)[i] = q[i + 1]
  BY TailMember
<1>2. \A i \in DOMAIN Tail(q) : Tail(q)[i] # Head(q)
  BY <1>1, RisingTail
<1>3. \A i \in DOMAIN q : i # 1 => i - 1 \in DOMAIN Tail(q)
  OBVIOUS
<1>4. \A i \in DOMAIN q : i # 1 => Tail(q)[i - 1] = q[i]
  <2>. SUFFICES ASSUME NEW i \in DOMAIN q, i # 1
                PROVE  Tail(q)[i - 1] = q[i]
    OBVIOUS
  <2>1. Tail(q)[i - 1] = q[i - 1 + 1]
    BY <1>1, <1>3
  <2>. QED
    BY <2>1
<1>. QED
  BY <1>1, <1>2, <1>3, <1>4 DEF Messages

-----------------------------------------------------------------------------
(* Types.                                                                  *)

LEMMA VizTypeStep == VizTypeOK /\ [Next]_vars => VizTypeOK'
<1>. SUFFICES ASSUME VizTypeOK, [Next]_vars
              PROVE  VizTypeOK'
  OBVIOUS
<1>. USE NavVizAssumption DEF VizTypeOK
<1>1. ASSUME NEW k \in BOOLEAN, EmitSafetyEvent(k)
      PROVE  VizTypeOK'
  <2>1. /\ Append(events, k) \in Seq(BOOLEAN)
        /\ Len(Append(events, k)) = Len(events) + 1
        /\ events # << >> =>
             /\ Append(Tail(events), k) \in Seq(BOOLEAN)
             /\ Len(Append(Tail(events), k)) = Len(events)
    OBVIOUS
  <2>2. /\ events' \in Seq(BOOLEAN)
        /\ Len(events') <= EventQueueSize
    <3>1. CASE Len(events) < EventQueueSize
      BY <1>1, <2>1, <3>1 DEF EmitSafetyEvent
    <3>2. CASE ~(Len(events) < EventQueueSize)
      <4>1. events # << >>
        BY <3>2
      <4>2. events' = Append(Tail(events), k)
        BY <1>1, <3>2 DEF EmitSafetyEvent
      <4>. QED
        BY <2>1, <4>1, <4>2
    <3>. QED
      BY <3>1, <3>2
  <2>3. {alarm, estopped, title}' \subseteq BOOLEAN
    BY <1>1, Zenon DEF EmitSafetyEvent
  <2>. QED
    BY <2>2, <2>3
<1>2. CASE OnSafetyEvent
  <2>1. /\ Head(events) \in BOOLEAN /\ Tail(events) \in Seq(BOOLEAN)
        /\ Len(Tail(events)) = Len(events) - 1
    BY <1>2, TailMember DEF OnSafetyEvent
  <2>2. Len(Tail(events)) <= EventQueueSize
    BY <2>1
  <2>. QED
    BY <1>2, <2>1, <2>2, Zenon DEF OnSafetyEvent
<1>3. CASE OnPose
  BY <1>3 DEF OnPose
<1>4. CASE UNCHANGED vizVars
  BY <1>4 DEF vizVars
<1>. QED
  BY <1>1, <1>2, <1>3, <1>4 DEF Next, vars

LEMMA NavTypeStep == NavTypeOK /\ [Navigation]_navVars => NavTypeOK'
<1>. SUFFICES ASSUME NavTypeOK, [Navigation]_navVars
              PROVE  NavTypeOK'
  OBVIOUS
<1>. USE DEF NavTypeOK, SimTypeOK, Numbers, Report, GoalPayload, VelocityPayload
<1>. USE ToySimAssumption, NavDemoAssumption
<1>1. ASSUME NEW c \in GoalPayload \cup VelocityPayload, Intent(c)
      PROVE  /\ sent' \in Numbers /\ wanted' \in GoalPayload \cup VelocityPayload
             /\ \A S : c \in S => Order(c) \in Message(S)
             /\ UNCHANGED <<simVars, alive, handled, newest, news, seen>>
  BY <1>1 DEF Intent, Order, Message, baseVars
<1>2. ASSUME NEW S, NEW q \in Seq(Message(S)), Len(q) <= QueueSize, q # << >>
      PROVE  /\ Head(q).n \in Numbers /\ Head(q).cmd \in S
             /\ Tail(q) \in Seq(Message(S)) /\ Len(Tail(q)) <= QueueSize
  <2>1. /\ Head(q) \in Message(S) /\ Tail(q) \in Seq(Message(S))
        /\ Len(Tail(q)) = Len(q) - 1 /\ Len(q) \in Nat
    BY <1>2, TailMember
  <2>. QED
    BY <1>2, <2>1 DEF Message
<1>12. ASSUME NEW m, m.n \in Numbers, Obeyed(m)
       PROVE  handled' \in Numbers /\ newest' \in Numbers /\ alive' = alive
  BY <1>12 DEF Obeyed
<1>13. ASSUME NodeEnds
       PROVE  alive' \in BOOLEAN /\ UNCHANGED <<simVars, handled, newest>>
  BY <1>13, Zenon DEF NodeEnds
<1>3. ASSUME NEW g \in GoalPayload, GoTo(g)
      PROVE  NavTypeOK'
  <2>1. Order(g) \in Message(GoalPayload)
    BY <1>1, <1>3 DEF GoTo
  <2>2. goals' \in Seq(Message(GoalPayload)) /\ Len(goals') <= QueueSize
    BY <1>3, <2>1, PushType DEF GoTo
  <2>. QED
    BY <1>1, <1>3, <2>2 DEF GoTo, simVars
<1>4. ASSUME NEW c \in VelocityPayload, Steer(c)
      PROVE  NavTypeOK'
  <2>1. Order(c) \in Message(VelocityPayload)
    BY <1>1, <1>4 DEF Steer
  <2>2. velocities' \in Seq(Message(VelocityPayload)) /\ Len(velocities') <= QueueSize
    BY <1>4, <2>1, PushType DEF Steer
  <2>. QED
    BY <1>1, <1>4, <2>2 DEF Steer, simVars
<1>5. ASSUME GiveUpGoal \/ Halt
      PROVE  NavTypeOK'
  <2>0. Intent(None)
    BY <1>5 DEF GiveUpGoal, Halt
  <2>1. Order(None) \in Message({None}) /\ Order(None) \in Message(VelocityPayload)
    BY <1>1, <2>0
  <2>2. /\ Push(cancels, Order(None)) \in Seq(Message({None}))
        /\ Len(Push(cancels, Order(None))) <= QueueSize
    BY <2>1, PushType
  <2>3. /\ Push(velocities, Order(None)) \in Seq(Message(VelocityPayload))
        /\ Len(Push(velocities, Order(None))) <= QueueSize
    BY <2>1, PushType
  <2>. QED
    BY <1>1, <1>5, <2>0, <2>2, <2>3 DEF GiveUpGoal, Halt, simVars
<1>6. CASE ReadStatus
  BY <1>6 DEF ReadStatus, baseVars, queueVars, simVars
<1>7. CASE OnGoal
  <2>0. PICK m : m = Head(goals)
    OBVIOUS
  <2>1. /\ m.n \in Numbers /\ m.cmd \in GoalPayload
        /\ goals' \in Seq(Message(GoalPayload)) /\ Len(goals') <= QueueSize
        /\ UNCHANGED <<cancels, velocities, sent, wanted, news, seen>>
    BY <1>2, <1>7, <2>0 DEF OnGoal
  <2>2. CASE NodeEnds
    BY <1>13, <2>1, <2>2 DEF simVars
  <2>3. CASE UNCHANGED baseVars
    BY <2>1, <2>3 DEF baseVars, simVars
  <2>4. CASE m.cmd \in Goals /\ SetGoal(m.cmd) /\ Obeyed(m)
    <3>1. SimTypeOK'
      BY <2>4 DEF SetGoal
    <3>. QED
      BY <1>12, <2>1, <2>4, <3>1
  <2>. QED
    BY <1>7, <2>0, <2>2, <2>3, <2>4 DEF OnGoal
<1>8. CASE OnCancel
  <2>1. /\ handled' \in Numbers /\ newest' \in Numbers /\ alive' = alive
        /\ cancels' \in Seq(Message({None})) /\ Len(cancels') <= QueueSize
        /\ UNCHANGED <<goals, velocities, sent, wanted, news, seen>>
    BY <1>2, <1>8, <1>12 DEF OnCancel
  <2>2. moving' \in BOOLEAN
    BY <1>8, Zenon DEF OnCancel, Cancel
  <2>3. SimTypeOK'
    BY <1>8, <2>2 DEF OnCancel, Cancel
  <2>. QED
    BY <2>1, <2>3
<1>9. CASE OnVelocity
  <2>0. PICK m : m = Head(velocities)
    OBVIOUS
  <2>1. /\ m.n \in Numbers /\ m.cmd \in VelocityPayload
        /\ velocities' \in Seq(Message(VelocityPayload)) /\ Len(velocities') <= QueueSize
        /\ UNCHANGED <<goals, cancels, sent, wanted, news, seen>>
    BY <1>2, <1>9, <2>0 DEF OnVelocity
  <2>2. CASE NodeEnds
    BY <1>13, <2>1, <2>2 DEF simVars
  <2>3. CASE SetVelocity(m.cmd = Drive) /\ Obeyed(m)
    <3>1. SimTypeOK'
      BY <2>3 DEF SetVelocity
    <3>. QED
      BY <1>12, <2>1, <2>3, <3>1
  <2>. QED
    BY <1>9, <2>0, <2>2, <2>3 DEF OnVelocity
<1>10. CASE OnTick
  <2>1. SimTypeOK'
    <3>0. SimTypeOK /\ Step
      BY <1>10 DEF OnTick
    <3>1. CASE Arrive
      BY <3>0, <3>1 DEF Arrive
    <3>2. CASE Approach
      <4>1. dist' \in 0 .. MaxDist
        BY <3>0, <3>2 DEF Approach
      <4>2. turn' \in 0 .. MaxTurn
        BY <3>0, <3>2 DEF Approach
      <4>. QED
        BY <3>0, <3>2, <4>1, <4>2 DEF Approach
    <3>3. CASE UNCHANGED simVars
      BY <3>0, <3>3 DEF simVars
    <3>. QED
      BY <3>0, <3>1, <3>2, <3>3 DEF Step
  <2>. QED
    BY <1>10, <2>1 DEF OnTick, queueVars
<1>11. CASE UNCHANGED navVars
  BY <1>11 DEF navVars, baseVars, queueVars, simVars
<1>. QED
  BY <1>3, <1>4, <1>5, <1>6, <1>7, <1>8, <1>9, <1>10, <1>11 DEF Navigation

LEMMA TypeStep == TypeOK /\ [Next]_vars => TypeOK'
  BY NavTypeStep, VizTypeStep DEF TypeOK, Next, Navigation, vars

-----------------------------------------------------------------------------
(* The invariant.                                                          *)

LEMMA MessageType ==
  ASSUME NEW S, NEW m \in Message(S)
  PROVE  m.n \in Nat /\ m.cmd \in S
  BY NavDemoAssumption DEF Message, Numbers

LEMMA NumberType ==
  ASSUME NavTypeOK
  PROVE  sent \in Nat /\ handled \in Nat /\ newest \in Nat
  BY NavDemoAssumption DEF NavTypeOK, Numbers

LEMMA QueueType ==
  ASSUME NavTypeOK
  PROVE  /\ goals \in Seq(Message(GoalPayload)) /\ Len(goals) <= QueueSize
         /\ cancels \in Seq(Message({None})) /\ Len(cancels) <= QueueSize
         /\ velocities \in Seq(Message(VelocityPayload)) /\ Len(velocities) <= QueueSize
  BY DEF NavTypeOK

(* An intent leaves the base as it is; its own message is the newest.      *)
LEMMA IntentStep ==
  ASSUME IInv, TypeOK', NEW c, Intent(c),
         \/ goals' = goals
         \/ /\ goals' = Push(goals, Order(c))
            /\ Order(c) \in Message(GoalPayload),
         \/ cancels' = cancels
         \/ /\ cancels' = Push(cancels, Order(c))
            /\ Order(c) \in Message({None}),
         \/ velocities' = velocities
         \/ /\ velocities' = Push(velocities, Order(c))
            /\ Order(c) \in Message(VelocityPayload)
  PROVE  IInv'
<1>. USE DEF IInv
<1>1. /\ sent' = sent + 1 /\ wanted' = c
      /\ UNCHANGED <<simVars, handled>>
      /\ Order(c) = [n |-> sent + 1, cmd |-> c]
  BY DEF Intent, Order, baseVars
<1>2. NavTypeOK
  BY DEF TypeOK
<1>3. sent \in Nat /\ handled \in Nat
  BY <1>2, NumberType
<1>4. ModeInv'
  BY <1>1 DEF ModeInv, simVars
<1>5. handled' <= sent' /\ LastIntentWins'
  BY <1>1, <1>3 DEF LastIntentWins
<1>6. ASSUME NEW S, NEW q \in Seq(Message(S)), Len(q) <= QueueSize, InOrder(q)
      PROVE  /\ Upto(q, sent + 1, c) /\ Rising(q)
             /\ Order(c) \in Message(S) =>
                  Upto(Push(q, Order(c)), sent + 1, c) /\ Rising(Push(q, Order(c)))
  <2>1. \A x \in Message(S) : x.n \in Nat
    BY MessageType
  <2>2. \A i \in DOMAIN q : q[i].n \in Nat /\ q[i].n <= sent
    BY <1>6, <2>1 DEF InOrder, Upto
  <2>3. Upto(q, sent + 1, c) /\ Rising(q)
    BY <1>3, <1>6, <2>2 DEF InOrder, Upto
  <2>4. ASSUME Order(c) \in Message(S)
        PROVE  Upto(Push(q, Order(c)), sent + 1, c) /\ Rising(Push(q, Order(c)))
    <3>1. Upto(Push(q, Order(c)), sent + 1, c)
      BY <1>1, <1>3, <1>6, <2>1, <2>4, UptoPush DEF InOrder
    <3>2. \A i \in DOMAIN q : q[i].n < Order(c).n
      BY <1>1, <1>3, <2>2
    <3>3. Rising(Push(q, Order(c)))
      BY <1>6, <2>1, <2>4, <3>2, PushRising DEF InOrder
    <3>. QED
      BY <3>1, <3>3
  <2>. QED
    BY <2>3, <2>4
<1>7. InOrder(goals)'
  BY <1>1, <1>2, <1>6, QueueType DEF QueueInv, InOrder
<1>8. InOrder(cancels)'
  BY <1>1, <1>2, <1>6, QueueType DEF QueueInv, InOrder
<1>9. InOrder(velocities)'
  BY <1>1, <1>2, <1>6, QueueType DEF QueueInv, InOrder
<1>. QED
  BY <1>4, <1>5, <1>7, <1>8, <1>9 DEF QueueInv

(* A message the base obeys makes it do what the message says.             *)
LEMMA ObeyedStep ==
  ASSUME IInv, TypeOK', NEW m, Obeyed(m), UNCHANGED <<sent, wanted>>,
         m.n \in Nat, m.n <= sent, m.n = sent => m.cmd = wanted,
         ModeInv', QueueInv', Obeys(m.cmd)'
  PROVE  IInv'
<1>1. handled' = m.n
  BY DEF Obeyed
<1>2. LastIntentWins'
  <2>1. CASE m.n = sent
    <3>1. Obeys(wanted)'
      BY <2>1 DEF Obeys, CommandOf
    <3>. QED
      BY <3>1 DEF LastIntentWins
  <2>2. CASE m.n # sent
    BY <1>1, <2>2 DEF LastIntentWins
  <2>. QED
    BY <2>1, <2>2
<1>. QED
  BY <1>1, <1>2 DEF IInv

(* One it does not obey leaves it as it was, or ends its node.             *)
LEMMA DroppedStep ==
  ASSUME IInv, TypeOK', QueueInv', UNCHANGED <<simVars, handled, sent, wanted>>
  PROVE  IInv'
  BY DEF IInv, simVars, ModeInv, LastIntentWins, Obeys, CommandOf

LEMMA IInvStep == IInv /\ [Next]_vars => IInv'
<1>. SUFFICES ASSUME IInv, [Next]_vars
              PROVE  IInv'
  OBVIOUS
<1>. USE ToySimAssumption, NavDemoAssumption
<1>1. TypeOK' /\ NavTypeOK
  BY TypeStep DEF IInv, TypeOK
<1>2. sent \in Nat /\ handled \in Nat
  BY <1>1, NumberType
<1>3. ASSUME NEW S, NEW q \in Seq(Message(S)), q # << >>, InOrder(q)
      PROVE  /\ Head(q).n \in Nat /\ Head(q).cmd \in S
             /\ Head(q).n <= sent
             /\ Head(q).n = sent => Head(q).cmd = wanted
             /\ Upto(Tail(q), sent, wanted) /\ Rising(Tail(q))
  <2>1. Head(q) \in Message(S)
    BY <1>3, TailMember
  <2>. QED
    BY <1>3, <2>1, MessageType, UptoTail, RisingTail DEF InOrder
<1>4. ASSUME NEW g \in GoalPayload, GoTo(g)
      PROVE  IInv'
  <2>1. Intent(g) /\ Order(g) \in Message(GoalPayload)
    BY <1>1, <1>2, <1>4 DEF GoTo, Intent, Order, Message, Numbers
  <2>. QED
    BY <1>1, <1>4, <2>1, IntentStep DEF GoTo
<1>5. ASSUME NEW c \in VelocityPayload, Steer(c)
      PROVE  IInv'
  <2>1. Intent(c) /\ Order(c) \in Message(VelocityPayload)
    BY <1>1, <1>2, <1>5 DEF Steer, Intent, Order, Message, Numbers
  <2>. QED
    BY <1>1, <1>5, <2>1, IntentStep DEF Steer
<1>6. CASE GiveUpGoal \/ Halt
  <2>1. Intent(None) /\ Order(None) \in Message({None})
                    /\ Order(None) \in Message(VelocityPayload)
    BY <1>1, <1>2, <1>6
       DEF GiveUpGoal, Halt, Intent, Order, Message, Numbers, VelocityPayload
  <2>. QED
    BY <1>1, <1>6, <2>1, IntentStep DEF GiveUpGoal, Halt
<1>7. CASE ReadStatus
  BY <1>1, <1>7
     DEF ReadStatus, baseVars, simVars, queueVars, IInv, ModeInv, QueueInv,
         InOrder, Upto, Rising, LastIntentWins, Obeys, CommandOf
<1>8. CASE OnGoal
  <2>0. PICK m : m = Head(goals)
    OBVIOUS
  <2>1. /\ m.n \in Nat /\ m.n <= sent
        /\ m.n = sent => m.cmd = wanted
        /\ Upto(Tail(goals), sent, wanted) /\ Rising(Tail(goals))
    BY <1>1, <1>3, <1>8, <2>0, QueueType DEF OnGoal, IInv, QueueInv
  <2>2. /\ goals' = Tail(goals)
        /\ UNCHANGED <<cancels, velocities, sent, wanted>>
    BY <1>8 DEF OnGoal
  <2>3. QueueInv'
    BY <2>1, <2>2 DEF IInv, QueueInv, InOrder
  <2>4. CASE (m.cmd = Malformed /\ NodeEnds) \/ (m.cmd = Bad /\ UNCHANGED baseVars)
    BY <1>1, <2>2, <2>3, <2>4, DroppedStep DEF NodeEnds, baseVars
  <2>5. CASE m.cmd \in Goals /\ SetGoal(m.cmd) /\ Obeyed(m)
    <3>1. m.cmd \notin {Drive, None}
      BY <2>5
    <3>2. mode' = "goal" /\ target' = m.cmd /\ status' = "following"
      BY <2>5 DEF SetGoal
    <3>3. ModeInv' /\ Obeys(m.cmd)'
      BY <2>5, <3>1, <3>2 DEF ModeInv, Obeys, CommandOf
    <3>. QED
      BY <1>1, <2>1, <2>2, <2>3, <2>5, <3>3, ObeyedStep
  <2>. QED
    BY <1>8, <2>0, <2>4, <2>5 DEF OnGoal
<1>9. CASE OnCancel
  <2>0. PICK m : m = Head(cancels)
    OBVIOUS
  <2>1. /\ m.n \in Nat /\ m.cmd = None /\ m.n <= sent
        /\ m.n = sent => m.cmd = wanted
        /\ Upto(Tail(cancels), sent, wanted) /\ Rising(Tail(cancels))
    BY <1>1, <1>3, <1>9, <2>0, QueueType DEF OnCancel, IInv, QueueInv
  <2>2. /\ Obeyed(m) /\ cancels' = Tail(cancels)
        /\ UNCHANGED <<goals, velocities, sent, wanted>>
        /\ mode' = "idle" /\ status' = "idle"
    BY <1>9, <2>0 DEF OnCancel, Cancel
  <2>3. QueueInv'
    BY <2>1, <2>2 DEF IInv, QueueInv, InOrder
  <2>4. ModeInv' /\ Obeys(m.cmd)'
    BY <2>1, <2>2 DEF ModeInv, Obeys, CommandOf
  <2>. QED
    BY <1>1, <2>1, <2>2, <2>3, <2>4, ObeyedStep
<1>10. CASE OnVelocity
  <2>0. PICK m : m = Head(velocities)
    OBVIOUS
  <2>1. /\ m.n \in Nat /\ m.cmd \in VelocityPayload /\ m.n <= sent
        /\ m.n = sent => m.cmd = wanted
        /\ Upto(Tail(velocities), sent, wanted) /\ Rising(Tail(velocities))
    BY <1>1, <1>3, <1>10, <2>0, QueueType DEF OnVelocity, IInv, QueueInv
  <2>2. /\ velocities' = Tail(velocities)
        /\ UNCHANGED <<goals, cancels, sent, wanted>>
    BY <1>10 DEF OnVelocity
  <2>3. QueueInv'
    BY <2>1, <2>2 DEF IInv, QueueInv, InOrder
  <2>4. CASE m.cmd = Malformed /\ NodeEnds
    BY <1>1, <2>2, <2>3, <2>4, DroppedStep DEF NodeEnds
  <2>5. CASE m.cmd # Malformed /\ SetVelocity(m.cmd = Drive) /\ Obeyed(m)
    <3>1. m.cmd \in {Drive, None}
      BY <2>1, <2>5 DEF VelocityPayload
    <3>2. /\ moving' = (m.cmd = Drive)
          /\ mode' = IF m.cmd = Drive THEN "velocity" ELSE "idle"
          /\ status' = IF m.cmd = Drive THEN "following" ELSE "idle"
      BY <2>5 DEF SetVelocity
    <3>3. ModeInv' /\ Obeys(m.cmd)'
      BY <3>1, <3>2 DEF ModeInv, Obeys, CommandOf
    <3>. QED
      BY <1>1, <2>1, <2>2, <2>3, <2>5, <3>3, ObeyedStep
  <2>. QED
    BY <1>10, <2>0, <2>4, <2>5 DEF OnVelocity
<1>11. CASE OnTick
  <2>1. UNCHANGED <<goals, cancels, velocities, sent, wanted, handled>>
    BY <1>11 DEF OnTick, queueVars
  <2>2. QueueInv' /\ handled' <= sent'
    BY <2>1 DEF IInv, QueueInv, InOrder, Upto, Rising
  <2>3. ModeInv'
    BY <1>11 DEF OnTick, Step, Arrive, Approach, Following, simVars, IInv, ModeInv
  <2>4. ASSUME Obeys(wanted)
        PROVE  Obeys(wanted)'
    <3>1. CASE Arrive
      BY <2>1, <2>4, <3>1 DEF Arrive, Following, IInv, ModeInv, Obeys, CommandOf
    <3>2. CASE Approach
      BY <2>1, <2>4, <3>2 DEF Approach, Obeys, CommandOf
    <3>3. CASE UNCHANGED simVars
      BY <2>1, <2>4, <3>3 DEF simVars, Obeys, CommandOf
    <3>. QED
      BY <1>11, <3>1, <3>2, <3>3 DEF OnTick, Step
  <2>5. LastIntentWins'
    BY <2>1, <2>4 DEF IInv, LastIntentWins
  <2>. QED
    BY <1>1, <2>2, <2>3, <2>5 DEF IInv
<1>12. CASE UNCHANGED navVars
  BY <1>1, <1>12
     DEF navVars, baseVars, simVars, queueVars, IInv, ModeInv, QueueInv,
         InOrder, Upto, Rising, LastIntentWins, Obeys, CommandOf
<1>. QED
  BY <1>4, <1>5, <1>6, <1>7, <1>8, <1>9, <1>10, <1>11, <1>12
     DEF Next, Navigation, vars

LEMMA InitIInv == Init => IInv
<1>. SUFFICES ASSUME Init
              PROVE  IInv
  OBVIOUS
<1>. USE ToySimAssumption, NavDemoAssumption, NavVizAssumption DEF Init, SimInit, VizInit
<1>0. moving \in BOOLEAN /\ {alive, alarm, estopped, title} \subseteq BOOLEAN
  BY Zenon
<1>1. SimTypeOK
  BY <1>0 DEF SimTypeOK
<1>2. NavTypeOK
  BY <1>0, <1>1 DEF NavTypeOK, Numbers, Message, Report, GoalPayload, VelocityPayload
<1>3. VizTypeOK
  <2>1. events \in Seq(BOOLEAN) /\ Len(events) <= EventQueueSize
    OBVIOUS
  <2>. QED
    BY <1>0, <2>1, Zenon DEF VizTypeOK
<1>4. QueueInv
  BY DEF QueueInv, InOrder, Upto, Rising
<1>5. ModeInv /\ handled <= sent /\ LastIntentWins
  <2>1. mode = "idle" /\ status = "idle" /\ wanted = None
        /\ sent = 0 /\ handled = 0
    OBVIOUS
  <2>2. ModeInv /\ handled <= sent
    BY <2>1 DEF ModeInv
  <2>3. CommandOf = None
    BY <2>1 DEF CommandOf
  <2>4. LastIntentWins
    BY <2>1, <2>3 DEF LastIntentWins, Obeys
  <2>. QED
    BY <2>2, <2>4
<1>. QED
  BY <1>2, <1>3, <1>4, <1>5 DEF IInv, TypeOK

(* The inductive invariant holds.                                          *)
THEOREM Invariance == Spec => []IInv
  BY InitIInv, IInvStep, PTL DEF Spec

(* Types, for every number of goals, intents and queued messages.          *)
THEOREM TypeCorrect == Spec => []TypeOK
<1>1. IInv => TypeOK
  BY DEF IInv
<1>. QED
  BY <1>1, Invariance, PTL

(* The base obeys the last intent as long as a message of it is the last   *)
(* it obeyed, whatever was lost, and in whatever order the rest came.      *)
THEOREM LastIntent == Spec => []LastIntentWins
<1>1. IInv => LastIntentWins
  BY DEF IInv
<1>. QED
  BY <1>1, Invariance, PTL

-----------------------------------------------------------------------------
(* The simulator is a NavBase.                                             *)

LEMMA BaseInit == Init => AbstractBase!Init
  BY DEF Init, SimInit, CommandOf, Orders, Messages, AbstractBase!Init

LEMMA OrdersNext ==
  Orders' = {m \in Messages(goals') \cup Messages(cancels') \cup Messages(velocities') :
               m.cmd \notin {Bad, Malformed}}
  BY DEF Orders, Messages

(* An intent is an order given; what no longer fits is an order lost.      *)
LEMMA AskStep ==
  ASSUME IInv, NEW c, c \in GoalPayload \cup VelocityPayload, Intent(c),
         \/ goals' = goals
         \/ /\ goals' = Push(goals, Order(c))
            /\ Order(c) \in Message(GoalPayload),
         \/ cancels' = cancels
         \/ /\ cancels' = Push(cancels, Order(c))
            /\ Order(c) \in Message({None}),
         \/ velocities' = velocities
         \/ /\ velocities' = Push(velocities, Order(c))
            /\ Order(c) \in Message(VelocityPayload)
  PROVE  AbstractBase!Next
<1>1. NavTypeOK
  BY DEF IInv, TypeOK
<1>2. /\ Messages(goals') \subseteq Messages(goals) \cup {Order(c)}
      /\ Messages(cancels') \subseteq Messages(cancels) \cup {Order(c)}
      /\ Messages(velocities') \subseteq Messages(velocities) \cup {Order(c)}
  BY <1>1, QueueType, PushMessages
<1>3. Orders' \subseteq Orders \cup {Order(c)}
  BY <1>2, OrdersNext DEF Orders
<1>4. /\ sent' = sent + 1 /\ Order(c) = [n |-> sent + 1, cmd |-> c]
      /\ UNCHANGED <<simVars, handled>>
  BY DEF Intent, Order, baseVars
<1>5. CommandOf' = CommandOf /\ status' = status /\ handled' = handled
  BY <1>4 DEF simVars, CommandOf
<1>6. CASE c \in {Bad, Malformed}
  <2>1. Orders' \subseteq Orders
    <3>1. Order(c) \notin Orders'
      BY <1>4, <1>6 DEF Orders
    <3>. QED
      BY <1>3, <3>1
  <2>2. AbstractBase!Ask(None)
    BY <1>4, <1>5, <2>1 DEF AbstractBase!Ask
  <2>. QED
    BY <2>2 DEF AbstractBase!Next
<1>7. CASE c \notin {Bad, Malformed}
  <2>1. c \in Goals \cup {Drive, None}
    BY <1>7 DEF GoalPayload, VelocityPayload
  <2>2. AbstractBase!Ask(c)
    BY <1>3, <1>4, <1>5 DEF AbstractBase!Ask
  <2>. QED
    BY <2>1, <2>2 DEF AbstractBase!Next
<1>. QED
  BY <1>6, <1>7

(* Each message obeyed is an order taken, an arrival is an arrival, and    *)
(* the rest of a way to a goal is nothing.                                 *)
LEMMA BaseStep == IInv /\ [Next]_vars => [AbstractBase!Next]_AbstractBase!vars
<1>. SUFFICES ASSUME IInv, [Next]_vars
              PROVE  [AbstractBase!Next]_AbstractBase!vars
  OBVIOUS
<1>. USE ToySimAssumption, NavDemoAssumption
<1>0. /\ NavTypeOK /\ SimTypeOK /\ ModeInv /\ QueueInv
      /\ sent \in Nat
  BY NumberType DEF IInv, TypeOK, NavTypeOK
<1>1. ASSUME NEW S, NEW q \in Seq(Message(S)), q # << >>, InOrder(q)
      PROVE  /\ Head(q) \in Message(S) /\ Head(q).cmd \in S
             /\ Head(q) = [n |-> Head(q).n, cmd |-> Head(q).cmd]
             /\ Head(q) \in Messages(q)
             /\ Messages(Tail(q)) = Messages(q) \ {Head(q)}
  <2>1. Head(q) \in Message(S)
    BY <1>1, TailMember
  <2>2. \A x \in Message(S) : x.n \in Nat
    BY MessageType
  <2>3. Head(q) \in Messages(q) /\ Messages(Tail(q)) = Messages(q) \ {Head(q)}
    BY <1>1, <2>2, TailMessages DEF InOrder
  <2>4. Head(q).cmd \in S /\ Head(q) = [n |-> Head(q).n, cmd |-> Head(q).cmd]
    BY <2>1 DEF Message
  <2>. QED
    BY <2>1, <2>3, <2>4
<1>2. /\ \A m \in Messages(goals) : m.cmd \in GoalPayload
      /\ \A m \in Messages(cancels) : m.cmd = None
      /\ \A m \in Messages(velocities) : m.cmd \in VelocityPayload
  BY <1>0, QueueType, MessageType DEF Messages
<1>3. ASSUME NEW m, m \in Orders, Obeyed(m), UNCHANGED sent,
             m = [n |-> m.n, cmd |-> m.cmd],
             CommandOf' = m.cmd,
             status' = IF m.cmd = None THEN "idle" ELSE "following",
             Orders' = Orders \ {m} \/ (m.cmd = None /\ Orders' = Orders)
      PROVE  AbstractBase!Next
  <2>1. handled' = m.n
    BY <1>3 DEF Obeyed
  <2>2. AbstractBase!Take(m)
    BY <1>3, <2>1 DEF AbstractBase!Take
  <2>. QED
    BY <1>3, <2>2 DEF AbstractBase!Next
<1>4. ASSUME UNCHANGED <<simVars, handled, sent>>, Orders' = Orders
      PROVE  UNCHANGED AbstractBase!vars
  BY <1>4 DEF simVars, CommandOf, AbstractBase!vars
<1>5. CASE OnGoal
  <2>0. PICK m : m = Head(goals)
    OBVIOUS
  <2>1. /\ m.cmd \in GoalPayload /\ m = [n |-> m.n, cmd |-> m.cmd]
        /\ m \in Messages(goals)
        /\ Messages(goals') = Messages(goals) \ {m}
        /\ UNCHANGED <<cancels, velocities, sent>>
    BY <1>0, <1>1, <1>5, <2>0, QueueType DEF OnGoal, QueueInv
  <2>2. CASE (m.cmd = Malformed /\ NodeEnds) \/ (m.cmd = Bad /\ UNCHANGED baseVars)
    <3>1. Orders' = Orders
      BY <2>1, <2>2, OrdersNext DEF Orders
    <3>2. UNCHANGED <<simVars, handled>>
      BY <2>2 DEF NodeEnds, baseVars
    <3>. QED
      BY <1>4, <2>1, <3>1, <3>2
  <2>3. CASE m.cmd \in Goals /\ SetGoal(m.cmd) /\ Obeyed(m)
    <3>1. m.cmd \notin {Bad, Malformed, Drive, None}
      BY <2>3
    <3>2. m \in Orders
      BY <2>1, <3>1 DEF Orders
    <3>3. m \notin Messages(cancels) /\ m \notin Messages(velocities)
      BY <1>2, <3>1 DEF VelocityPayload
    <3>4. Orders' = Orders \ {m}
      BY <2>1, <3>3, OrdersNext DEF Orders
    <3>5. CommandOf' = m.cmd /\ status' = "following"
      BY <2>3 DEF SetGoal, CommandOf
    <3>. QED
      BY <1>3, <2>1, <2>3, <3>1, <3>2, <3>4, <3>5
  <2>. QED
    BY <1>5, <2>0, <2>2, <2>3 DEF OnGoal
<1>6. CASE OnCancel
  <2>0. PICK m : m = Head(cancels)
    OBVIOUS
  <2>1. /\ m.cmd = None /\ m = [n |-> m.n, cmd |-> m.cmd]
        /\ m \in Messages(cancels)
        /\ Messages(cancels') = Messages(cancels) \ {m}
        /\ UNCHANGED <<goals, velocities, sent>>
        /\ Obeyed(m)
    BY <1>0, <1>1, <1>6, <2>0, QueueType DEF OnCancel, QueueInv
  <2>2. m \in Orders
    BY <2>1 DEF Orders
  <2>3. Orders' = Orders \ {m} \/ Orders' = Orders
    <3>1. CASE m \in Messages(goals) \/ m \in Messages(velocities)
      BY <2>1, <3>1, OrdersNext DEF Orders
    <3>2. CASE ~(m \in Messages(goals) \/ m \in Messages(velocities))
      BY <2>1, <3>2, OrdersNext DEF Orders
    <3>. QED
      BY <3>1, <3>2
  <2>4. CommandOf' = None /\ status' = "idle"
    BY <1>6 DEF OnCancel, Cancel, CommandOf
  <2>. QED
    BY <1>3, <2>1, <2>2, <2>3, <2>4
<1>7. CASE OnVelocity
  <2>0. PICK m : m = Head(velocities)
    OBVIOUS
  <2>1. /\ m.cmd \in VelocityPayload /\ m = [n |-> m.n, cmd |-> m.cmd]
        /\ m \in Messages(velocities)
        /\ Messages(velocities') = Messages(velocities) \ {m}
        /\ UNCHANGED <<goals, cancels, sent>>
    BY <1>0, <1>1, <1>7, <2>0, QueueType DEF OnVelocity, QueueInv
  <2>2. CASE m.cmd = Malformed /\ NodeEnds
    <3>1. Orders' = Orders
      BY <2>1, <2>2, OrdersNext DEF Orders
    <3>2. UNCHANGED <<simVars, handled>>
      BY <2>2 DEF NodeEnds
    <3>. QED
      BY <1>4, <2>1, <3>1, <3>2
  <2>3. CASE m.cmd # Malformed /\ SetVelocity(m.cmd = Drive) /\ Obeyed(m)
    <3>1. m.cmd \in {Drive, None} /\ m.cmd \notin Goals
      BY <2>1, <2>3 DEF VelocityPayload
    <3>2. m \in Orders
      BY <2>1, <3>1 DEF Orders
    <3>3. m \notin Messages(goals)
      BY <1>2, <3>1 DEF GoalPayload
    <3>4. Orders' = Orders \ {m} \/ (m.cmd = None /\ Orders' = Orders)
      <4>1. CASE m \in Messages(cancels)
        BY <1>2, <2>1, <4>1, OrdersNext DEF Orders
      <4>2. CASE m \notin Messages(cancels)
        BY <2>1, <3>3, <4>2, OrdersNext DEF Orders
      <4>. QED
        BY <4>1, <4>2
    <3>5. /\ CommandOf' = m.cmd
          /\ status' = IF m.cmd = None THEN "idle" ELSE "following"
      BY <2>3, <3>1 DEF SetVelocity, CommandOf
    <3>. QED
      BY <1>3, <2>1, <2>3, <3>2, <3>4, <3>5
  <2>. QED
    BY <1>7, <2>0, <2>2, <2>3 DEF OnVelocity
<1>8. CASE OnTick
  <2>1. Orders' = Orders /\ UNCHANGED <<sent, handled>>
    BY <1>8 DEF OnTick, queueVars, Orders, Messages
  <2>2. CASE Arrive
    <3>1. CommandOf \in Goals /\ CommandOf' = None /\ status' = "arrived"
      BY <1>0, <2>2 DEF Arrive, Following, CommandOf, SimTypeOK
    <3>2. AbstractBase!Reach
      BY <2>1, <3>1 DEF AbstractBase!Reach
    <3>. QED
      BY <3>2 DEF AbstractBase!Next
  <2>3. CASE Approach
    BY <2>1, <2>3 DEF Approach, CommandOf, AbstractBase!vars
  <2>4. CASE UNCHANGED simVars
    BY <1>4, <2>1, <2>4
  <2>. QED
    BY <1>8, <2>2, <2>3, <2>4 DEF OnTick, Step
<1>9. CASE UNCHANGED <<simVars, handled, sent, goals, cancels, velocities>>
  <2>1. Orders' = Orders
    BY <1>9 DEF Orders, Messages
  <2>. QED
    BY <1>4, <1>9, <2>1
<1>10. CASE ReadStatus \/ UNCHANGED navVars
  BY <1>9, <1>10 DEF ReadStatus, navVars, baseVars, queueVars
<1>11. ASSUME NEW g \in GoalPayload, GoTo(g)
       PROVE  AbstractBase!Next
  <2>1. Order(g) \in Message(GoalPayload)
    BY <1>0, <1>11 DEF GoTo, Intent, Order, Message, Numbers
  <2>. QED
    BY <1>11, <2>1, AskStep DEF GoTo
<1>12. ASSUME NEW c \in VelocityPayload, Steer(c)
       PROVE  AbstractBase!Next
  <2>1. Order(c) \in Message(VelocityPayload)
    BY <1>0, <1>12 DEF Steer, Intent, Order, Message, Numbers
  <2>. QED
    BY <1>12, <2>1, AskStep DEF Steer
<1>13. CASE GiveUpGoal \/ Halt
  <2>1. Intent(None) /\ Order(None) \in Message({None})
                    /\ Order(None) \in Message(VelocityPayload)
                    /\ None \in VelocityPayload
    BY <1>0, <1>13
       DEF GiveUpGoal, Halt, Intent, Order, Message, Numbers, VelocityPayload
  <2>. QED
    BY <1>13, <2>1, AskStep DEF GiveUpGoal, Halt
<1>. QED
  BY <1>5, <1>6, <1>7, <1>8, <1>10, <1>11, <1>12, <1>13
     DEF Next, Navigation, vars

(* Every behaviour of the demo is one of NavBase: no order is carried out  *)
(* twice or taken up again, and an arrival is that of the order last taken. *)
THEOREM ImplementsNavBase == Spec => NavBaseSpec
<1>. USE DEF NavBaseSpec, AbstractBase!Spec
<1>. QED
  BY BaseInit, BaseStep, Invariance, PTL DEF Spec

=============================================================================
