--------------------------- MODULE MonitorProofs ---------------------------
(***************************************************************************)
(* What is proved of EventMonitor for every set of nodes and every         *)
(* configuration: types, that no node is held to be down on a heartbeat    *)
(* that is fresh, and how far the registry may disagree with the monitor.  *)
(***************************************************************************)
EXTENDS EventMonitor, TLAPS

-----------------------------------------------------------------------------
(* What the judgement of a node can be.                                    *)

(* A heartbeat becomes older, up to MaxAge.                                *)
LEMMA OlderType ==
  ASSUME NEW a \in 0..MaxAge
  PROVE  Older(a) \in 0..MaxAge /\ Older(a) >= a
BY ConfigAssumption DEF Older, MaxAge

(* A node that is down was so before the clock of this cycle was read: a   *)
(* cycle that has yet to judge it will find it overdue.                    *)
StillDown ==
  \A n \in Nodes :
    health[n] = "inactive" /\ (Locked => n \in todo) => Overdue(n)

(* A cycle changes the status of a node only from active to inactive, and  *)
(* only when its heartbeat is older than Timeout.                          *)
LEMMA JudgedType ==
  ASSUME TypeOK, NoFalseAlarm, StillDown, NEW n \in todo
  PROVE  /\ Judged(n).status \in {"unknown", "active", "inactive"}
         /\ Judged(n).missed \in 0..MaxMissed
         /\ Judged(n).status = "active" => Judged(n).missed < MaxMissed
         /\ Judged(n).status = "inactive" => age[n] > Timeout
         /\ Judged(n).status # health[n] => Judged(n).status = "inactive"
<1>1. /\ n \in Nodes
      /\ health[n] \in {"unknown", "active", "inactive"}
      /\ missed[n] \in 0..MaxMissed
      /\ health[n] = "active" => missed[n] < MaxMissed
      /\ age[n] \in Nat /\ lag \in Nat /\ Timeout \in Nat /\ MaxMissed \in Nat
      /\ health[n] = "inactive" => age[n] > Timeout
      /\ health[n] = "inactive" => Overdue(n)
  BY ConfigAssumption DEF TypeOK, NoFalseAlarm, StillDown, MaxAge
<1>2. CASE health[n] = "active" /\ Overdue(n)
  <2>1. Judged(n) = Struck(n)
    BY <1>2 DEF Judged
  <2>2. age[n] > Timeout
    BY <1>1, <1>2 DEF Overdue
  <2>3. missed[n] + 1 \in 0..MaxMissed
    BY <1>1, <1>2
  <2>4. QED  BY <1>1, <1>2, <2>1, <2>2, <2>3 DEF Struck
<1>3. CASE ~(health[n] = "active" /\ Overdue(n))
  <2>1. Judged(n) = [status |-> health[n], missed |-> missed[n]]
    BY <1>1, <1>3 DEF Judged
  <2>2. QED  BY <1>1, <2>1
<1>4. QED  BY <1>2, <1>3
-----------------------------------------------------------------------------
(* The inductive invariant.                                                *)

(* A change is written to the registry only for a node that is down.       *)
TellingDown == told # Nobody => health[told] = "inactive"

IInv == TypeOK /\ NoFalseAlarm /\ StillDown /\ TellingDown /\ DownIsShown

LEMMA InitInv == Init => IInv
BY ConfigAssumption
   DEF Init, IInv, TypeOK, NoFalseAlarm, StillDown, TellingDown, DownIsShown,
       MaxAge, Requests

(* What a heartbeat leaves well typed.                                     *)
LEMMA SeenType ==
  ASSUME TypeOK, NEW n \in Nodes, NEW a \in 0..MaxAge, Seen(n, a)
  PROVE  /\ health' \in [Nodes -> {"unknown", "active", "inactive"}]
         /\ missed' \in [Nodes -> 0..MaxMissed]
         /\ \A m \in Nodes : health'[m] = "active" => missed'[m] < MaxMissed
         /\ age' \in [Nodes -> 0..MaxAge]
         /\ health'[n] = "active"
         /\ \A m \in Nodes \ {n} : health'[m] = health[m] /\ age'[m] = age[m]
BY ConfigAssumption DEF TypeOK, Seen

(* What a write to the registry leaves well typed, and what it changes.    *)
LEMMA SaveType ==
  ASSUME TypeOK, NEW n \in Nodes, NEW s \in {"active", "inactive", "removed"},
         Save(n, s)
  PROVE  /\ registry' \in [Nodes -> {"none", "active", "inactive", "removed"}]
         /\ unsaved' \subseteq Nodes
         /\ faults' \in 0..MaxFaults
         /\ registry'[n] = s \/ n \in unsaved'
         /\ registry'[n] \in {s, registry[n]}
         /\ \A m \in Nodes \ {n} : registry'[m] = registry[m] /\ (m \in unsaved => m \in unsaved')
BY ConfigAssumption DEF TypeOK, Save, Fault, Lost

LEMMA TypeStep == IInv /\ [Next]_vars => TypeOK'
<1> SUFFICES ASSUME IInv, [Next]_vars PROVE TypeOK'  OBVIOUS
<1> USE ConfigAssumption, NobodyAssumption
<1>0. TypeOK /\ NoFalseAlarm /\ StillDown /\ TellingDown
  BY DEF IInv
<1>1. ASSUME NEW n \in Nodes, NodeStarts(n) \/ NodeStops(n) PROVE TypeOK'
  BY <1>0, <1>1 DEF TypeOK, NodeStarts, NodeStops, monitor, check, budget
<1>2. CASE Tick
  <2>1. age' \in [Nodes -> 0..MaxAge]
    BY <1>0, <1>2, OlderType DEF TypeOK, Tick
  <2>2. lag' \in 0..MaxLag
    BY <1>0, <1>2 DEF TypeOK, Tick
  <2>3. QED  BY <1>0, <1>2, <2>1, <2>2 DEF TypeOK, Tick, budget
<1>3. ASSUME NEW n \in Nodes, Heartbeat(n) PROVE TypeOK'
  <2>1. Seen(n, 0) /\ 0 \in 0..MaxAge
    BY <1>3 DEF Heartbeat, MaxAge
  <2>2. QED  BY <1>0, <1>3, <2>1, SeenType DEF TypeOK, Heartbeat, check, budget
<1>4. ASSUME NEW n \in Nodes, NEW a \in 0..MaxAge, ChannelHeartbeat(n, a) PROVE TypeOK'
  <2>1. Seen(n, a)
    BY <1>4 DEF ChannelHeartbeat
  <2>2. QED  BY <1>0, <1>4, <2>1, SeenType DEF TypeOK, ChannelHeartbeat, check, budget
<1>5. CASE ReadClock
  BY <1>0, <1>5 DEF TypeOK, ReadClock, monitor, budget
<1>6. CASE TakeLock
  BY <1>0, <1>6 DEF TypeOK, TakeLock, Known, monitor, budget
<1>7. ASSUME NEW n \in Nodes, Judge(n) PROVE TypeOK'
  <2>1. n \in todo /\ checkPc = "judge" /\ told = Nobody
    BY <1>0, <1>7 DEF TypeOK, Judge, OnNodeStatusChange
  <2>2. /\ health' \in [Nodes -> {"unknown", "active", "inactive"}]
        /\ missed' \in [Nodes -> 0..MaxMissed]
        /\ \A m \in Nodes : health'[m] = "active" => missed'[m] < MaxMissed
    BY <1>0, <1>7, <2>1, JudgedType DEF TypeOK, Judge, OnNodeStatusChange
  <2>3. /\ checkPc' \in {"judge", "read"}
        /\ told' \in Nodes \union {Nobody}
        /\ (checkPc' = "read") = (told' # Nobody)
    BY <1>7, <2>1 DEF Judge, OnNodeStatusChange
  <2>4. QED  BY <1>0, <1>7, <2>2, <2>3 DEF TypeOK, Judge, budget, OnNodeStatusChange
<1>8. CASE ReleaseLock
  BY <1>0, <1>8 DEF TypeOK, ReleaseLock, monitor, budget
<1>9. CASE TellRead
  BY <1>0, <1>9 DEF TypeOK, TellRead, Found, Fault, monitor
<1>10. CASE TellSave
  <2>1. told \in Nodes /\ health[told] = "inactive" /\ Save(told, "inactive")
    BY <1>0, <1>10 DEF TypeOK, TellSave, TellingDown, OnNodeStatusChange
  <2>2. /\ checkPc' \in {"judge", "read"}
        /\ told' \in Nodes \union {Nobody}
        /\ (checkPc' = "read") = (told' # Nobody)
    BY <1>10, <2>1 DEF TellSave, OnNodeStatusChange
  <2>3. QED  BY <1>0, <1>10, <2>1, <2>2, SaveType
    DEF TypeOK, TellSave, monitor, OnNodeStatusChange
<1>11. ASSUME NEW n \in Nodes, Register(n) PROVE TypeOK'
  <2>1. Save(n, "active") /\ request' \in Requests
    BY <1>11 DEF Register, Requests
  <2>2. QED  BY <1>0, <1>11, <2>1, SaveType DEF TypeOK, Register, monitor, check
<1>12. ASSUME NEW n \in Nodes, Unregister(n) PROVE TypeOK'
  BY <1>0, <1>12 DEF TypeOK, Unregister, Found, Fault, Requests, monitor, check
<1>13. CASE Track
  <2>1. request.node \in Nodes /\ Seen(request.node, 0) /\ 0 \in 0..MaxAge
    BY <1>0, <1>13 DEF TypeOK, Track, Requests, Idle, MaxAge
  <2>2. request' \in Requests
    BY <1>13 DEF Track, Requests
  <2>3. QED  BY <1>0, <1>13, <2>1, <2>2, SeenType DEF TypeOK, Track, check, budget
<1>14. CASE Remove
  <2>1. request.node \in Nodes /\ Save(request.node, "removed")
    BY <1>0, <1>14 DEF TypeOK, Remove, Requests, Idle
  <2>2. request' \in Requests
    BY <1>14 DEF Remove, Requests
  <2>3. QED  BY <1>0, <1>14, <2>1, <2>2, SaveType DEF TypeOK, Remove, monitor, check
<1>15. CASE Restart
  BY <1>0, <1>15 DEF TypeOK, Restart, Fault, Requests, MaxAge
<1>16. CASE UNCHANGED vars
  BY <1>0, <1>16 DEF TypeOK, vars, monitor, check, budget
<1>17. QED
  BY <1>1, <1>2, <1>3, <1>4, <1>5, <1>6, <1>7, <1>8, <1>9, <1>10, <1>11, <1>12,
     <1>13, <1>14, <1>15, <1>16 DEF Next, CheckStep, Listen

(* A heartbeat makes its node active and leaves the others alone.          *)
LEMMA SeenAlarm ==
  ASSUME IInv, NEW n \in Nodes, NEW a \in 0..MaxAge, Seen(n, a), ~Locked,
         UNCHANGED check
  PROVE  NoFalseAlarm' /\ StillDown' /\ TellingDown'
<1>1. TypeOK /\ NoFalseAlarm /\ StillDown /\ told = Nobody
  BY DEF IInv, TypeOK, Locked
<1>2. /\ health'[n] = "active"
      /\ \A m \in Nodes \ {n} : health'[m] = health[m] /\ age'[m] = age[m]
  BY <1>1, SeenType
<1>3. QED
  BY <1>1, <1>2 DEF NoFalseAlarm, StillDown, TellingDown, Overdue, Locked, check

LEMMA AlarmStep == IInv /\ [Next]_vars => NoFalseAlarm' /\ StillDown' /\ TellingDown'
<1> DEFINE Goal == NoFalseAlarm' /\ StillDown' /\ TellingDown'
<1> SUFFICES ASSUME IInv, [Next]_vars PROVE Goal  OBVIOUS
<1> USE ConfigAssumption, NobodyAssumption
<1>0. TypeOK /\ NoFalseAlarm /\ StillDown /\ TellingDown
  BY DEF IInv
<1>1. CASE UNCHANGED <<health, age, check>>
  BY <1>0, <1>1 DEF NoFalseAlarm, StillDown, TellingDown, Overdue, Locked, check
<1>2. CASE Tick
  <2>1. ASSUME NEW n \in Nodes, health[n] = "inactive"
        PROVE  age'[n] = Older(age[n]) /\ age'[n] >= age[n] /\ age'[n] \in 0..MaxAge
    BY <1>0, <1>2, <2>1, OlderType DEF TypeOK, Tick, Known
  <2>2. NoFalseAlarm'
    <3> SUFFICES ASSUME NEW n \in Nodes, health'[n] = "inactive" PROVE age'[n] > Timeout
      BY DEF NoFalseAlarm
    <3>1. age[n] \in Nat /\ age[n] > Timeout /\ age'[n] >= age[n] /\ age'[n] \in Nat
      BY <1>0, <1>2, <2>1 DEF TypeOK, Tick, NoFalseAlarm
    <3>2. QED  BY <3>1
  <2>3. StillDown'
    <3> SUFFICES ASSUME NEW n \in Nodes, health'[n] = "inactive", (Locked => n \in todo)'
                 PROVE  age'[n] - lag' > Timeout
      BY DEF StillDown, Overdue
    <3>1. /\ age[n] - lag > Timeout /\ age[n] > Timeout
          /\ age[n] \in 0..MaxAge /\ lag \in 0..MaxLag
          /\ age'[n] = Older(age[n])
      BY <1>0, <1>2, <2>1 DEF TypeOK, Tick, NoFalseAlarm, StillDown, Overdue, Locked
    <3>2. CASE checkPc = "sleep"
      BY <1>2, <3>1, <3>2 DEF Tick, Older, MaxAge
    <3>3. CASE checkPc # "sleep"
      BY <1>2, <3>1, <3>3 DEF Tick, Older, MaxAge
    <3>4. QED  BY <3>2, <3>3
  <2>4. TellingDown'
    BY <1>0, <1>2 DEF Tick, TellingDown
  <2>5. QED  BY <2>2, <2>3, <2>4
<1>3. ASSUME NEW n \in Nodes, NEW a \in 0..MaxAge, ChannelHeartbeat(n, a) PROVE Goal
  BY <1>3, SeenAlarm DEF ChannelHeartbeat
<1>4. ASSUME NEW n \in Nodes, Heartbeat(n) PROVE Goal
  BY <1>4, SeenAlarm DEF Heartbeat, MaxAge
<1>5. CASE Track
  <2>1. request.node \in Nodes
    BY <1>0, <1>5 DEF TypeOK, Track, Requests, Idle
  <2>2. QED  BY <1>5, <2>1, SeenAlarm DEF Track, MaxAge
<1>6. CASE ReadClock
  <2>1. ASSUME NEW n \in Nodes, health'[n] = "inactive" PROVE age'[n] - lag' > Timeout
    BY <1>0, <1>6, <2>1 DEF TypeOK, ReadClock, NoFalseAlarm, monitor, MaxAge
  <2>2. QED
    BY <1>0, <1>6, <2>1 DEF ReadClock, NoFalseAlarm, StillDown, TellingDown, Overdue, monitor
<1>7. CASE TakeLock
  BY <1>0, <1>7 DEF TakeLock, NoFalseAlarm, StillDown, TellingDown, Overdue, Locked, monitor
<1>8. ASSUME NEW n \in Nodes, Judge(n) PROVE Goal
  <2>1. /\ n \in todo /\ checkPc = "judge" /\ told = Nobody
        /\ Locked /\ Locked'
        /\ todo' = todo \ {n} /\ lag' = lag /\ age' = age
        /\ health' = [health EXCEPT ![n] = Judged(n).status]
    BY <1>0, <1>8 DEF TypeOK, Judge, Locked, OnNodeStatusChange
  <2>2. /\ Judged(n).status = "inactive" => age[n] > Timeout
        /\ Judged(n).status # health[n] => Judged(n).status = "inactive"
    BY <1>0, <2>1, JudgedType
  <2>3. NoFalseAlarm'
    BY <1>0, <2>1, <2>2 DEF TypeOK, NoFalseAlarm
  <2>4. StillDown'
    BY <1>0, <2>1 DEF TypeOK, StillDown, Overdue
  <2>5. TellingDown'
    BY <1>0, <1>8, <2>1, <2>2 DEF TypeOK, Judge, TellingDown, OnNodeStatusChange
  <2>6. QED  BY <2>3, <2>4, <2>5
<1>9. CASE ReleaseLock
  <2>1. ASSUME NEW n \in Nodes, health'[n] = "inactive" PROVE age'[n] - lag' > Timeout
    BY <1>0, <1>9, <2>1 DEF TypeOK, ReleaseLock, NoFalseAlarm, monitor, MaxAge
  <2>2. QED
    BY <1>0, <1>9, <2>1 DEF ReleaseLock, NoFalseAlarm, StillDown, TellingDown, Overdue, monitor
<1>10. CASE TellRead \/ TellSave
  <2>1. /\ Locked /\ Locked'
        /\ told' \in {told, Nobody}
        /\ UNCHANGED <<health, age, lag, todo>>
    BY <1>10 DEF TellRead, TellSave, Locked, monitor, OnNodeStatusChange
  <2>2. QED
    BY <1>0, <2>1 DEF NoFalseAlarm, StillDown, TellingDown, Overdue
<1>11. CASE Restart
  BY <1>0, <1>11 DEF Restart, NoFalseAlarm, StillDown, TellingDown
<1>12. \/ UNCHANGED <<health, age, check>> \/ Tick \/ ReadClock \/ TakeLock
       \/ ReleaseLock \/ TellRead \/ TellSave \/ Track \/ Restart
       \/ \E n \in Nodes : Judge(n) \/ Heartbeat(n)
       \/ \E n \in Nodes, a \in 0..MaxAge : ChannelHeartbeat(n, a)
  BY DEF Next, CheckStep, NodeStarts, NodeStops, Register, Unregister, Remove,
         vars, monitor, Listen
<1>13. QED
  BY <1>1, <1>2, <1>3, <1>4, <1>5, <1>6, <1>7, <1>8, <1>9, <1>10, <1>11, <1>12
(* Which steps write to the registry, and what.                            *)
LEMMA RegistrySteps ==
  ASSUME IInv, [Next]_vars
  PROVE  \/ UNCHANGED registry
         \/ checkPc = "save" /\ TellSave /\ Save(told, "inactive") /\ told \in Nodes
         \/ \E n \in Nodes : Register(n) /\ Save(n, "active")
         \/ Remove /\ Save(request.node, "removed") /\ request.node \in Nodes
<1>0. TypeOK /\ TellingDown
  BY DEF IInv
<1>1. CASE TellSave
  BY <1>0, <1>1, NobodyAssumption DEF TypeOK, TellSave, TellingDown, OnNodeStatusChange
<1>2. CASE Remove
  BY <1>0, <1>2 DEF TypeOK, Remove, Requests, Idle
<1>3. ASSUME NEW n \in Nodes, Register(n) PROVE Save(n, "active")
  BY <1>3 DEF Register
<1>4. \/ UNCHANGED registry \/ TellSave \/ Remove \/ \E n \in Nodes : Register(n)
  BY DEF Next, CheckStep, NodeStarts, NodeStops, Tick, Heartbeat, ChannelHeartbeat,
         ReadClock, TakeLock, Judge, ReleaseLock, TellRead, Unregister, Track,
         Restart, vars, Listen, OnNodeStatusChange
<1>5. QED  BY <1>1, <1>2, <1>3, <1>4

(* Every step leaves a node that is down and shown as active an excuse.    *)
LEMMA ShownStep == IInv /\ [Next]_vars => DownIsShown'
<1> DEFINE Excused(n) == told = n \/ request = [kind |-> "track", node |-> n] \/ n \in unsaved
<1> SUFFICES ASSUME IInv, [Next]_vars,
                    NEW n \in Nodes, health'[n] = "inactive", registry'[n] = "active"
             PROVE  Excused(n)'
  BY DEF DownIsShown
<1> USE NobodyAssumption
<1>0. /\ TypeOK /\ NoFalseAlarm /\ StillDown /\ TellingDown
      /\ health[n] = "inactive" /\ registry[n] = "active" => Excused(n)
  BY DEF IInv, DownIsShown
<1>1. CASE UNCHANGED <<health, registry, told, request, unsaved>>
  BY <1>0, <1>1
<1>2. ASSUME NEW m \in Nodes, NEW a \in 0..MaxAge, Seen(m, a), ~Locked,
             UNCHANGED <<registry, told, unsaved>>,
             (request' = request) \/ (request.kind = "track" /\ m = request.node)
      PROVE  Excused(n)'
  <2>1. n # m /\ health[n] = "inactive" /\ told = Nobody
    BY <1>0, <1>2, SeenType DEF TypeOK, Locked
  <2>2. request = [kind |-> "track", node |-> n] \/ n \in unsaved
    BY <1>0, <1>2, <2>1
  <2>3. QED  BY <1>2, <2>1, <2>2
<1>3. ASSUME NEW m \in Nodes, Judge(m) PROVE Excused(n)'
  <2>1. m \in todo /\ told = Nobody /\ UNCHANGED <<registry, request, unsaved>>
    BY <1>0, <1>3 DEF TypeOK, Judge, OnNodeStatusChange
  <2>2. CASE n = m /\ Judged(m).status # health[m]
    BY <1>3, <2>2 DEF Judge, OnNodeStatusChange
  <2>3. CASE ~(n = m /\ Judged(m).status # health[m])
    <3>1. health[n] = "inactive"
      BY <1>0, <1>3, <2>3 DEF TypeOK, Judge, OnNodeStatusChange
    <3>2. QED  BY <1>0, <2>1, <3>1
  <2>4. QED  BY <2>2, <2>3
<1>4. CASE TellRead
  <2>1. health[n] = "inactive" /\ registry[n] = "active" /\ UNCHANGED request
    BY <1>4 DEF TellRead, monitor
  <2>2. /\ unsaved \subseteq unsaved'
        /\ told' = told \/ (registry[told] = "none" \/ told \in unsaved')
    BY <1>4 DEF TellRead
  <2>3. QED  BY <1>0, <2>1, <2>2
<1>5. CASE TellSave /\ Save(told, "inactive") /\ told \in Nodes
  <2>1. health[n] = "inactive" /\ UNCHANGED request
    BY <1>5 DEF TellSave, monitor, OnNodeStatusChange
  <2>2. CASE n = told
    BY <1>0, <1>5, <2>2, SaveType
  <2>3. CASE n # told
    BY <1>0, <1>5, <2>1, <2>3, SaveType
  <2>4. QED  BY <2>2, <2>3
<1>6. ASSUME NEW m \in Nodes, Register(m), Save(m, "active") PROVE Excused(n)'
  <2>1. /\ health[n] = "inactive" /\ request = Idle /\ UNCHANGED told
        /\ request' = [kind |-> "track", node |-> m]
    BY <1>6 DEF Register, monitor, check
  <2>2. CASE n = m
    BY <2>1, <2>2
  <2>3. CASE n # m
    <3>1. request.kind # "track"
      BY <2>1 DEF Idle
    <3>2. QED  BY <1>0, <1>6, <2>1, <2>3, <3>1, SaveType
  <2>4. QED  BY <2>2, <2>3
<1>7. CASE Remove /\ Save(request.node, "removed") /\ request.node \in Nodes
  <2>1. health[n] = "inactive" /\ request.kind # "track" /\ UNCHANGED told
    BY <1>7 DEF Remove, monitor, check
  <2>2. CASE n = request.node
    BY <1>0, <1>7, <2>2, SaveType
  <2>3. CASE n # request.node
    BY <1>0, <1>7, <2>1, <2>3, SaveType
  <2>4. QED  BY <2>2, <2>3
<1>8. CASE Restart
  BY <1>8 DEF Restart
<1>9. ASSUME NEW m \in Nodes, Unregister(m) PROVE Excused(n)'
  <2>1. /\ UNCHANGED <<health, registry, told, unsaved>>
        /\ request = Idle
    BY <1>9 DEF Unregister, monitor, check
  <2>2. request.kind # "track"
    BY <2>1 DEF Idle
  <2>3. QED  BY <1>0, <2>1, <2>2
<1>10. ASSUME NEW m \in Nodes, Heartbeat(m) PROVE Excused(n)'
  <2>1. 0 \in 0..MaxAge
    BY ConfigAssumption DEF MaxAge
  <2>2. Seen(m, 0) /\ ~Locked /\ UNCHANGED <<registry, told, unsaved>> /\ request' = request
    BY <1>10 DEF Heartbeat, check
  <2>3. QED  BY <1>2, <2>1, <2>2, Zenon
<1>11. ASSUME NEW m \in Nodes, NEW a \in 0..MaxAge, ChannelHeartbeat(m, a) PROVE Excused(n)'
  <2>1. Seen(m, a) /\ ~Locked /\ UNCHANGED <<registry, told, unsaved>> /\ request' = request
    BY <1>11 DEF ChannelHeartbeat, check
  <2>2. QED  BY <1>2, <2>1, Zenon
<1>12. CASE Track
  <2>1. request.node \in Nodes
    BY <1>0, <1>12 DEF TypeOK, Track, Requests, Idle
  <2>2. QED  BY <1>2, <1>12, <2>1, ConfigAssumption DEF Track, check, MaxAge
<1>13. \/ UNCHANGED <<health, registry, told, request, unsaved>>
       \/ TellRead \/ TellSave \/ Remove \/ Restart \/ Track
       \/ \E m \in Nodes : Judge(m) \/ Register(m) \/ Unregister(m) \/ Heartbeat(m)
       \/ \E m \in Nodes, a \in 0..MaxAge : ChannelHeartbeat(m, a)
  BY DEF Next, CheckStep, NodeStarts, NodeStops, Tick, ReadClock, TakeLock,
         ReleaseLock, vars, monitor, check, budget, Listen
<1>14. ASSUME NEW m \in Nodes, Register(m) PROVE Excused(n)'
  BY <1>6, <1>14 DEF Register
<1>15. CASE TellSave
  BY <1>0, <1>5, <1>15 DEF TypeOK, TellSave, TellingDown, OnNodeStatusChange
<1>16. CASE Remove
  BY <1>0, <1>7, <1>16 DEF TypeOK, Remove, Requests, Idle
<1>17. QED
  BY <1>1, <1>3, <1>4, <1>8, <1>9, <1>10, <1>11, <1>12, <1>13, <1>14, <1>15, <1>16

LEMMA Invariance == Spec => []IInv
<1>1. IInv /\ [Next]_vars => IInv'
  BY TypeStep, AlarmStep, ShownStep DEF IInv
<1>2. QED  BY InitInv, <1>1, PTL DEF Spec

-----------------------------------------------------------------------------
(* What follows.                                                           *)

(* Every variable keeps to its type, and an active node has fewer misses   *)
(* than max_missed.                                                        *)
THEOREM TypeCorrect == Spec => []TypeOK
<1>1. IInv => TypeOK
  BY DEF IInv
<1>2. QED  BY Invariance, <1>1, PTL

(* A node is held to be down only while its last heartbeat is older than   *)
(* the timeout; the branch that restores a node is dead code.              *)
THEOREM AlarmsTrue == Spec => []NoFalseAlarm
<1>1. IInv => NoFalseAlarm
  BY DEF IInv
<1>2. QED  BY Invariance, <1>1, PTL

(* The registry, which the panel shows, follows the monitor when a node    *)
(* goes down, but for a write in progress or lost.                         *)
THEOREM DownShown == Spec => []DownIsShown
<1>1. IInv => DownIsShown
  BY DEF IInv
<1>2. QED  BY Invariance, <1>1, PTL

(* The registry comes to show a node as active only by a registration, or  *)
(* for a node shown as inactive that the monitor holds to be active: no    *)
(* old status is written over a removal.                                   *)
THEOREM BroughtBack == Spec => BroughtBackRightly
<1> DEFINE A == \A n \in Nodes : registry[n] # "active" /\ registry'[n] = "active" =>
                  \/ request = Idle /\ request' = [kind |-> "track", node |-> n]
                  \/ registry[n] = "inactive" /\ health[n] = "active"
<1>1. ASSUME IInv, [Next]_vars PROVE A
  <2> SUFFICES ASSUME NEW n \in Nodes, registry[n] # "active", registry'[n] = "active"
               PROVE  request = Idle /\ request' = [kind |-> "track", node |-> n]
    OBVIOUS
  <2>0. TypeOK
    BY <1>1 DEF IInv
  <2>1. ASSUME NEW m \in Nodes, NEW s \in {"inactive", "removed"}, Save(m, s)
        PROVE  FALSE
    BY <2>0, <2>1, SaveType
  <2>2. PICK m \in Nodes : Register(m) /\ Save(m, "active")
    BY <1>1, <2>1, RegistrySteps
  <2>3. m = n
    BY <2>0, <2>2 DEF TypeOK, Save, Lost
  <2>4. QED  BY <2>2, <2>3 DEF Register
<1>2. IInv /\ [Next]_vars => [A]_vars
  BY <1>1
<1>3. QED  BY Invariance, <1>2, PTL DEF Spec, BroughtBackRightly

-----------------------------------------------------------------------------
(* The contract.                                                           *)

(* A status is about to be written only for a node that is in the list.    *)
WritingListed ==
  /\ checkPc = "save" => registry[told] # "none"
  /\ request.kind = "remove" => registry[request.node] # "none"

(* A node that is in the list stays there.                                 *)
LEMMA StaysListed ==
  ASSUME IInv, [Next]_vars
  PROVE  \A n \in Nodes : registry[n] # "none" => registry'[n] # "none"
<1>1. ASSUME NEW m \in Nodes, NEW s \in {"active", "inactive", "removed"}, Save(m, s)
      PROVE  \A n \in Nodes : registry[n] # "none" => registry'[n] # "none"
  BY <1>1, SaveType DEF IInv
<1>2. QED  BY <1>1, RegistrySteps

LEMMA WritingStep ==
  ASSUME IInv, WritingListed, [Next]_vars
  PROVE  WritingListed'
<1>0. TypeOK
  BY DEF IInv
<1>1. checkPc' = "save" => registry'[told'] # "none"
  <2>1. CASE TellRead
    BY <2>1 DEF TellRead, Found
  <2>2. CASE checkPc' = checkPc /\ told' = told
    BY <1>0, <2>2, StaysListed DEF WritingListed, TypeOK
  <2>3. CASE checkPc' # "save"
    BY <2>3
  <2>4. QED
    BY <2>1, <2>2, <2>3
       DEF Next, CheckStep, NodeStarts, NodeStops, Tick, Heartbeat, ChannelHeartbeat,
           ReadClock, TakeLock, Judge, ReleaseLock, TellSave, Register, Unregister,
           Track, Remove, Restart, vars, check, Listen, OnNodeStatusChange
<1>2. request'.kind = "remove" => registry'[request'.node] # "none"
  <2>1. ASSUME NEW n \in Nodes, Unregister(n)
        PROVE  request'.kind = "remove" => registry'[request'.node] # "none"
    BY <2>1 DEF Unregister, Found, Idle
  <2>2. CASE request' = request
    <3>1. request.kind = "remove" => request.node \in Nodes
      BY <1>0 DEF TypeOK, Requests, Idle
    <3>2. QED  BY <2>2, <3>1, StaysListed DEF WritingListed
  <2>3. CASE request'.kind # "remove"
    BY <2>3
  <2>4. QED
    BY <2>1, <2>2, <2>3
       DEF Next, CheckStep, NodeStarts, NodeStops, Tick, Heartbeat, ChannelHeartbeat,
           ReadClock, TakeLock, Judge, ReleaseLock, TellRead, TellSave, Register,
           Track, Remove, Restart, vars, Idle, Listen, OnNodeStatusChange
<1>3. QED  BY <1>1, <1>2 DEF WritingListed

(* A heartbeat is heard.                                                   *)
LEMMA SeenIsHeard ==
  ASSUME TypeOK, NEW n \in Nodes, NEW a \in 0..MaxAge, Seen(n, a), UNCHANGED registry
  PROVE  Detector!Next
<1> DEFINE late == a > Timeout
<1>1. late \in BOOLEAN
  OBVIOUS
<1>2. [m \in Nodes |-> age'[m] > Timeout]
        = [[m \in Nodes |-> age[m] > Timeout] EXCEPT ![n] = late]
  BY DEF Seen, TypeOK
<1> HIDE DEF late
<1>3. Detector!Hear(n, late)
  BY <1>2 DEF Seen, Detector!Hear
<1>4. QED  BY <1>1, <1>3 DEF Detector!Next

(* A judgement is a strike, or changes nothing.                            *)
LEMMA JudgedIsStrike ==
  ASSUME IInv, NEW n \in Nodes, Judge(n)
  PROVE  Detector!Strike(n) \/ UNCHANGED <<health, missed, age, registry>>
<1>1. /\ TypeOK /\ NoFalseAlarm /\ StillDown
      /\ n \in todo /\ checkPc = "judge"
      /\ health' = [health EXCEPT ![n] = Judged(n).status]
      /\ missed' = [missed EXCEPT ![n] = Judged(n).missed]
      /\ UNCHANGED <<age, registry>>
  BY DEF IInv, Judge, OnNodeStatusChange
<1>2. /\ age[n] \in Nat /\ lag \in Nat /\ Timeout \in Nat
      /\ missed[n] \in Nat /\ MaxMissed \in Nat
      /\ health[n] = "active" => missed[n] < MaxMissed
  BY <1>1, ConfigAssumption DEF TypeOK, MaxAge
<1>3. CASE health[n] = "active" /\ Overdue(n)
  <2>1. age[n] > Timeout
    BY <1>2, <1>3 DEF Overdue
  <2>2. Judged(n) = [status |-> IF missed[n] + 1 = MaxMissed THEN "inactive" ELSE "active",
                     missed |-> missed[n] + 1]
    BY <1>2, <1>3 DEF Judged, Struck
  <2>3. missed' = [missed EXCEPT ![n] = @ + 1]
    BY <1>1, <2>2 DEF TypeOK
  <2>4. health' = [health EXCEPT ![n] = IF missed[n] + 1 = MaxMissed THEN "inactive" ELSE @]
    BY <1>1, <1>3, <2>2 DEF TypeOK
  <2>5. QED  BY <1>1, <1>3, <2>1, <2>3, <2>4 DEF Detector!Strike
<1>4. CASE ~(health[n] = "active" /\ Overdue(n))
  <2>1. ~(health[n] = "inactive" /\ ~Overdue(n))
    BY <1>1 DEF StillDown
  <2>2. Judged(n) = [status |-> health[n], missed |-> missed[n]]
    BY <1>4, <2>1 DEF Judged
  <2>3. QED  BY <1>1, <2>2 DEF TypeOK
<1>5. QED  BY <1>3, <1>4

(* Every step is one of the contract's, or none to it.                     *)
LEMMA DetectorStep ==
  ASSUME IInv, WritingListed, [Next]_vars
  PROVE  [Detector!Next]_(Detector!vars)
<1>0. TypeOK /\ TellingDown
  BY DEF IInv
<1>1. CASE UNCHANGED <<health, missed, age, registry>>
  BY <1>1 DEF Detector!vars
<1>2. CASE Tick
  <2>1. \A n \in Nodes : age'[n] >= age[n] /\ age'[n] \in 0..MaxAge /\ age[n] \in 0..MaxAge
    BY <1>0, <1>2, OlderType DEF TypeOK, Tick
  <2>2. \A n \in Nodes : age[n] > Timeout => age'[n] > Timeout
    BY <2>1, ConfigAssumption DEF MaxAge
  <2> DEFINE silent(n) == age[n] > Timeout
             later(n) == age'[n] > Timeout
  <2>3. \A n \in Nodes : later(n) \in BOOLEAN
    OBVIOUS
  <2>4. [n \in Nodes |-> later(n)] \in [Nodes -> BOOLEAN]
    <3> HIDE DEF later
    <3>1. QED  BY <2>3
  <2>5. \A n \in Nodes : [m \in Nodes |-> silent(m)][n] => [m \in Nodes |-> later(m)][n]
    BY <2>2
  <2>6. Detector!FallSilent
    BY <1>2, <2>4, <2>5 DEF Tick, Detector!FallSilent
  <2>7. QED  BY <2>6 DEF Detector!Next
<1>3. ASSUME NEW n \in Nodes, Heartbeat(n)  PROVE Detector!Next
  BY <1>0, <1>3, SeenIsHeard, ConfigAssumption DEF Heartbeat, MaxAge
<1>4. ASSUME NEW n \in Nodes, NEW a \in 0..MaxAge, ChannelHeartbeat(n, a)
      PROVE  Detector!Next
  BY <1>0, <1>4, SeenIsHeard DEF ChannelHeartbeat
<1>5. CASE Track
  <2>1. request.node \in Nodes /\ 0 \in 0..MaxAge
    BY <1>0, <1>5, ConfigAssumption DEF TypeOK, Track, Requests, Idle, MaxAge
  <2>2. QED  BY <1>0, <1>5, <2>1, SeenIsHeard DEF Track
<1>6. ASSUME NEW n \in Nodes, Judge(n)  PROVE [Detector!Next]_(Detector!vars)
  BY <1>1, <1>6, JudgedIsStrike DEF Detector!Next
<1>7. CASE TellSave
  <2>1. /\ told \in Nodes /\ health[told] = "inactive" /\ registry[told] # "none"
        /\ Save(told, "inactive") /\ UNCHANGED <<health, missed, age>>
    BY <1>0, <1>7, NobodyAssumption DEF TypeOK, TellSave, TellingDown,
       WritingListed, monitor, OnNodeStatusChange
  <2>2. CASE registry' = registry
    BY <1>1, <2>1, <2>2
  <2>3. CASE registry' # registry
    BY <2>1, <2>3 DEF Save, Detector!ShowDown, Detector!Next, Lost
  <2>4. QED  BY <2>2, <2>3
<1>8. ASSUME NEW n \in Nodes, Register(n)  PROVE [Detector!Next]_(Detector!vars)
  <2>1. Save(n, "active") /\ UNCHANGED <<health, missed, age>>
    BY <1>8 DEF Register, monitor
  <2>2. CASE registry' = registry
    BY <1>1, <2>1, <2>2
  <2>3. CASE registry' # registry
    BY <2>1, <2>3 DEF Save, Detector!Register, Detector!Next, Lost
  <2>4. QED  BY <2>2, <2>3
<1>9. CASE Remove
  <2>1. /\ request.node \in Nodes /\ registry[request.node] # "none"
        /\ Save(request.node, "removed") /\ UNCHANGED <<health, missed, age>>
    BY <1>0, <1>9 DEF TypeOK, Remove, Requests, Idle, WritingListed, monitor
  <2>2. CASE registry' = registry
    BY <1>1, <2>1, <2>2
  <2>3. CASE registry' # registry
    BY <2>1, <2>3 DEF Save, Detector!Remove, Detector!Next, Lost
  <2>4. QED  BY <2>2, <2>3
<1>10. CASE Restart
  <2> DEFINE silent(n) == age'[n] > Timeout
  <2>1. \A n \in Nodes : silent(n) = FALSE
    BY <1>10, ConfigAssumption DEF Restart
  <2>2. [n \in Nodes |-> silent(n)] = [n \in Nodes |-> FALSE]
    <3> HIDE DEF silent
    <3>1. QED  BY <2>1
  <2>3. Detector!Forget
    BY <1>10, <2>2 DEF Restart, Detector!Forget
  <2>4. QED  BY <2>3 DEF Detector!Next
<1>11. \/ UNCHANGED <<health, missed, age, registry>>
       \/ Tick \/ TellSave \/ Remove \/ Restart \/ Track
       \/ \E n \in Nodes : Judge(n) \/ Register(n) \/ Heartbeat(n)
       \/ \E n \in Nodes, a \in 0..MaxAge : ChannelHeartbeat(n, a)
  BY DEF Next, CheckStep, NodeStarts, NodeStops, ReadClock, TakeLock, ReleaseLock,
         TellRead, Unregister, vars, monitor, Listen
<1>12. QED
  BY <1>1, <1>2, <1>3, <1>4, <1>5, <1>6, <1>7, <1>8, <1>9, <1>10, <1>11

(* The monitor keeps the contract of a failure detector and of a list,     *)
(* although a cycle judges by an old clock, and a status is read, changed  *)
(* and written back in steps between which requests write to the list.     *)
THEOREM KeepsDetector == Spec => DetectorSpec
<1>1. Init => Detector!Init /\ WritingListed
  <2> SUFFICES ASSUME Init  PROVE Detector!Init /\ WritingListed
    OBVIOUS
  <2> DEFINE silent(n) == age[n] > Timeout
  <2>1. \A n \in Nodes : silent(n) = FALSE
    BY ConfigAssumption DEF Init
  <2>2. [n \in Nodes |-> silent(n)] = [n \in Nodes |-> FALSE]
    <3> HIDE DEF silent
    <3>1. QED  BY <2>1
  <2>3. WritingListed
    BY DEF Init, Idle, WritingListed
  <2>4. QED  BY <2>2, <2>3 DEF Init, Detector!Init
<1>2. IInv /\ WritingListed /\ [Next]_vars => WritingListed'
  BY WritingStep
<1>3. IInv /\ WritingListed /\ [Next]_vars => [Detector!Next]_(Detector!vars)
  BY DetectorStep
<1>4. QED  BY Invariance, <1>1, <1>2, <1>3, PTL DEF Spec, DetectorSpec, Detector!Spec
=============================================================================
