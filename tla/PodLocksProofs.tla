--------------------------- MODULE PodLocksProofs ---------------------------
(* Proofs of what module PodLocksProperties states, for any number of      *)
(* tasks.  A step of a task is reduced to what it does to the task's own   *)
(* locks and to those who wait for them (Moves); module PodLocksPrograms   *)
(* tells which locks those are.                                            *)
EXTENDS PodLocksPrograms

-----------------------------------------------------------------------------
(* The part of the invariant that is about the locks alone.                *)

Core == TypeOK /\ HeldInv /\ QueueInv /\ LineInv /\ NoCircleAtLock

\* Where a task stands.
LEMMA Standing ==
    ASSUME Core, NEW t \in Task, Running(t)
    PROVE  /\ prog[t] \in DOMAIN Code
           /\ pc[t] \in 1..Len(Code[prog[t]])
           /\ Sound(prog[t], Now(t), Kept(prog[t], pc[t]))
           /\ pc[t] # Len(Code[prog[t]]) =>
                 /\ pc[t] + 1 \in 1..Len(Code[prog[t]])
                 /\ Kept(prog[t], pc[t] + 1) = After(Now(t), Kept(prog[t], pc[t]))
<1>1. prog[t] \in DOMAIN Code /\ pc[t] \in 1..Len(Code[prog[t]])
  BY DEF Core, TypeOK, Running
<1>2. QED
  BY <1>1, OpSound DEF Now

\* A task waits only at the lock it asks for, and elsewhere has what it holds.
LEMMA OwnModes ==
    ASSUME Core, NEW t \in Task, NEW l \in Lock
    PROVE  /\ mode[t][l] \in {"none", "read", "write"}
           /\ Holds(t, l) <=> Running(t) /\ l \in Kept(prog[t], pc[t])
           /\ mode[t][l] # "none" <=> Holds(t, l) \/ Waiting(t, l)
<1>1. mode[t][l] \in {"none", "read", "write"}
  BY DEF Core, TypeOK
<1>2. Holds(t, l) <=> Running(t) /\ l \in Kept(prog[t], pc[t])
  BY DEF Core, HeldInv
<1>3. Waiting(t, l) => mode[t][l] # "none"
  BY DEF Core, QueueInv, Waiting, Mode
<1>4. QED
  BY <1>1, <1>2, <1>3 DEF Holds

\* What a step of t that gives back the locks in gone does to the others.
Moves(t, gone) ==
    /\ \A u \in Task \ {t} :
          /\ prog'[u] = prog[u] /\ pc'[u] = pc[u] /\ mode'[u] = mode[u]
          /\ u \in queued' <=> u \in queued
          /\ before'[u] =
                IF u \in queued /\ Now(u).lock \in gone THEN before[u] \ {t} ELSE before[u]
    /\ t \notin queued' /\ before'[t] = {}

\* After such a step the locks are in order, if t has what its program keeps
\* (Held), still stands where others wait for it (Awaited), and got no lock but
\* one that nobody has (Granted).
LEMMA MoveKeepsCore ==
    ASSUME Core, TypeOK', NEW t \in Task, NEW gone, Moves(t, gone),
           \A l \in Lock :
              mode'[t][l] # "none" <=> Running(t)' /\ l \in Kept(prog'[t], pc'[t]),
           \A l \in Lock, u \in Task :
              u # t /\ u \in queued /\ Now(u).lock = l /\ t \in before[u] /\ l \notin gone
                 => mode'[t][l] = mode[t][l],
           \A l \in Lock, u \in Task :
              u # t /\ Conflict(mode'[t][l], mode[u][l])
                 => l \notin gone /\ Waiting(u, l) /\ t \in before[u]
    PROVE  Core'
<1>1. ASSUME NEW u \in Task, u # t
      PROVE  /\ prog'[u] = prog[u] /\ pc'[u] = pc[u] /\ mode'[u] = mode[u]
             /\ u \in queued' <=> u \in queued
             /\ before'[u] \subseteq before[u]
             /\ \A w \in Task \ {t} : w \in before[u] <=> w \in before'[u]
             /\ t \in before'[u] <=>
                   t \in before[u] /\ ~(u \in queued /\ Now(u).lock \in gone)
             /\ Running(u)' <=> Running(u)
             /\ Now(u)' = Now(u)
             /\ \A l : Waiting(u, l)' <=> Waiting(u, l)
             /\ \A l : Holds(u, l)' <=> Holds(u, l)
  BY <1>1 DEF Moves, Running, Now, Waiting, Holds
<1>2. \A l : ~Waiting(t, l)'
  BY DEF Moves, Waiting
<1>3. HeldInv'
  <2>1. ASSUME NEW u \in Task, NEW l \in Lock
        PROVE  (Holds(u, l) <=> Running(u) /\ l \in Kept(prog[u], pc[u]))'
    <3>1. CASE u = t
      BY <1>2, <3>1 DEF Holds
    <3>2. CASE u # t
      BY <1>1, <3>2 DEF Core, HeldInv
    <3>3. QED
      BY <3>1, <3>2
  <2>2. QED
    BY <2>1 DEF HeldInv
<1>4. QueueInv'
  <2>1. ASSUME NEW u \in Task, u \in queued'
        PROVE  /\ (Running(u) /\ Takes(Now(u)))'
               /\ (mode[u][Now(u).lock] = Mode(Now(u)))'
               /\ \A w \in before'[u] :
                     w # u /\ (Conflict(Mode(Now(u)), mode[w][Now(u).lock]))'
    <3>1. u # t /\ u \in queued
      BY <1>1, <2>1 DEF Moves
    <3>2. /\ Running(u) /\ Takes(Now(u)) /\ mode[u][Now(u).lock] = Mode(Now(u))
          /\ \A w \in before[u] : w # u /\ Conflict(Mode(Now(u)), mode[w][Now(u).lock])
      BY <3>1 DEF Core, QueueInv
    <3>3. Now(u).lock \in Lock
      BY <3>2, Standing DEF Sound, Takes
    <3>4. (Running(u) /\ Takes(Now(u)) /\ mode[u][Now(u).lock] = Mode(Now(u)))'
      BY <1>1, <3>1, <3>2
    <3>5. ASSUME NEW w \in before'[u]
          PROVE  w # u /\ Conflict(Mode(Now(u)), mode'[w][Now(u).lock])
      <4>1. w \in before[u] /\ w \in Task
        BY <1>1, <3>1 DEF Core, TypeOK
      <4>2. CASE w = t
        BY <1>1, <3>1, <3>2, <3>3, <4>1, <4>2
      <4>3. CASE w # t
        BY <1>1, <3>2, <4>1, <4>3
      <4>4. QED
        BY <4>2, <4>3
    <3>6. QED
      BY <1>1, <3>1, <3>4, <3>5
  <2>2. ASSUME NEW u \in Task, u \notin queued' PROVE before'[u] = {}
    <3>1. CASE u = t
      BY <3>1 DEF Moves
    <3>2. CASE u # t
      BY <1>1, <2>2, <3>2 DEF Core, QueueInv
    <3>3. QED
      BY <3>1, <3>2
  <2>3. QED
    BY <2>1, <2>2 DEF QueueInv
<1>5. LineInv'
  <2>1. ASSUME NEW u \in Task, u # t, NEW l \in Lock, Conflict(mode'[t][l], mode'[u][l])
        PROVE  Waiting(u, l)' /\ t \in before'[u]
    BY <1>1, <2>1 DEF Waiting
  <2>2. ASSUME NEW u \in Task, NEW w \in Task, NEW l \in Lock, u # w, u # t, w # t,
               Conflict(mode'[u][l], mode'[w][l])
        PROVE  \/ Waiting(u, l)' /\ w \in before'[u]
               \/ Waiting(w, l)' /\ u \in before'[w]
    <3>1. \/ Waiting(u, l) /\ w \in before[u]
          \/ Waiting(w, l) /\ u \in before[w]
      BY <1>1, <2>2 DEF Core, LineInv
    <3>2. QED
      BY <1>1, <2>2, <3>1
  <2>3. ASSUME NEW u \in Task, NEW w \in Task, NEW l \in Lock, u # w,
               Conflict(mode'[u][l], mode'[w][l])
        PROVE  \/ Waiting(u, l)' /\ w \in before'[u]
               \/ Waiting(w, l)' /\ u \in before'[w]
    <3>1. Conflict(mode'[w][l], mode'[u][l])
      BY <2>3 DEF Conflict
    <3>2. QED
      BY <2>1, <2>2, <2>3, <3>1
  <2>4. QED
    BY <2>3 DEF LineInv
<1>6. NoCircleAtLock'
  <2>1. ASSUME NEW l \in Lock, NEW S \in SUBSET {u \in queued' : (Now(u).lock)' = l}, S # {}
        PROVE  \E u \in S : before'[u] \cap S = {}
    <3>1. \A u \in S : u # t /\ u \in Task /\ u \in queued /\ Now(u).lock = l
      BY <1>1 DEF Moves, TypeOK
    <3>2. PICK u \in S : before[u] \cap S = {}
      BY <2>1, <3>1 DEF Core, NoCircleAtLock
    <3>3. QED
      BY <1>1, <3>1, <3>2
  <2>2. QED
    BY <2>1 DEF NoCircleAtLock
<1>7. QED
  BY <1>3, <1>4, <1>5, <1>6 DEF Core

-----------------------------------------------------------------------------
(* The steps of a task.                                                    *)

\* What t asks for, nobody has that it cannot share it with.
Granted(t) ==
    Takes(Now(t)) => IF t \in queued THEN before[t] = {} ELSE Ahead(t) = {}

\* Whoever has a lock that t cannot share with it waits for t at that lock.
LEMMA GrantedAlone ==
    ASSUME Core, NEW t \in Task, Running(t), Takes(Now(t)), Granted(t),
           NEW u \in Task, u # t, Conflict(Mode(Now(t)), mode[u][Now(t).lock])
    PROVE  t \in queued /\ Waiting(u, Now(t).lock) /\ t \in before[u]
<1>1. Now(t).lock \in Lock
  BY Standing DEF Sound, Takes
<1>2. t \in queued
  BY DEF Granted, Ahead
<1>3. mode[t][Now(t).lock] = Mode(Now(t)) /\ before[t] = {}
  BY <1>2 DEF Core, QueueInv, Granted
<1>4. QED
  BY <1>1, <1>2, <1>3 DEF Core, LineInv

\* The end of a task.
LEMMA EndKeepsCore ==
    ASSUME Core, NEW t \in Task, End(t), role' \in Role
    PROVE  Core'
<1>1. /\ prog'[t] = "idle" /\ pc'[t] = 1 /\ \A l \in Lock : mode'[t][l] = "none"
      /\ \A u \in Task \ {t} : prog'[u] = prog[u] /\ pc'[u] = pc[u] /\ mode'[u] = mode[u]
  BY DEF End, Core, TypeOK
<1>2. Moves(t, Lock)
  BY <1>1 DEF End, Leave, Moves
<1>3. TypeOK'
  <2>1. /\ prog' \in [Task -> DOMAIN Code \cup {"idle"}]
        /\ pc' \in [Task -> Nat]
        /\ mode' \in [Task -> [Lock -> {"none", "read", "write"}]]
    BY DEF End, Core, TypeOK
  <2>2. queued' \subseteq Task /\ before' \in [Task -> SUBSET Task]
    BY DEF End, Leave, Core, TypeOK
  <2>3. \A u \in Task :
           (IF Running(u) THEN pc[u] \in 1..Len(Code[prog[u]]) ELSE pc[u] = 1)'
    BY <1>1 DEF Core, TypeOK, Running
  <2>4. QED
    BY <2>1, <2>2, <2>3 DEF TypeOK
<1>4. ~Running(t)'
  BY <1>1 DEF Running
<1>5. QED
  BY <1>1, <1>2, <1>3, <1>4, MoveKeepsCore DEF Conflict

\* A step of a task within its program, or into another one that keeps the same.
LEMMA GoOnKeepsCore ==
    ASSUME Core, NEW t \in Task, Running(t), Granted(t), role' \in Role,
           NEW p \in DOMAIN Code, GoOn(t, p), pc[t] # Len(Code[p]),
           pc[t] + 1 \in 1..Len(Code[p]),
           Kept(p, pc[t] + 1) = After(Now(t), Kept(prog[t], pc[t]))
    PROVE  Core'
<1> DEFINE op == Now(t)
           kept == Kept(prog[t], pc[t])
           gone == IF Keeps(op) THEN {} ELSE {op.lock}
           got == IF Keeps(op) THEN Mode(op) ELSE "none"
<1>1. /\ Sound(prog[t], op, kept)
      /\ op.lock \in Lock \/ (~Takes(op) /\ op.lock = "network")
      /\ Keeps(op) => Takes(op)
      /\ Mode(op) \in {"read", "write"}
  BY Standing DEF Sound, Do, Takes, Keeps, Mode
<1> HIDE DEF op
<1>a. /\ prog' = [prog EXCEPT ![t] = p]
      /\ pc' = [pc EXCEPT ![t] = pc[t] + 1]
      /\ mode' = IF op.lock \notin Lock THEN mode ELSE [mode EXCEPT ![t][op.lock] = got]
      /\ Leave(t, gone)
  BY DEF GoOn, op
<1>2. /\ prog'[t] = p /\ pc'[t] = pc[t] + 1
      /\ \A u \in Task \ {t} : prog'[u] = prog[u] /\ pc'[u] = pc[u] /\ mode'[u] = mode[u]
      /\ \A l \in Lock : mode'[t][l] = IF l = op.lock THEN got ELSE mode[t][l]
      /\ Leave(t, gone)
  BY <1>1, <1>a DEF Core, TypeOK
<1>3. Moves(t, gone)
  BY <1>2 DEF Leave, Moves
<1>4. TypeOK'
  <2>1. /\ prog' \in [Task -> DOMAIN Code \cup {"idle"}]
        /\ pc' \in [Task -> Nat]
    BY <1>a DEF Core, TypeOK
  <2>2. mode' \in [Task -> [Lock -> {"none", "read", "write"}]]
    BY <1>1, <1>a DEF Core, TypeOK
  <2>3. queued' \subseteq Task /\ before' \in [Task -> SUBSET Task]
    BY <1>2 DEF Leave, Core, TypeOK
  <2>4. \A u \in Task :
           (IF Running(u) THEN pc[u] \in 1..Len(Code[prog[u]]) ELSE pc[u] = 1)'
    BY <1>2, Programs DEF Core, TypeOK, Running
  <2>5. QED
    BY <2>1, <2>2, <2>3, <2>4 DEF TypeOK
<1>5. Running(t)'
  BY <1>2, Programs DEF Running
<1>6. \A l \in Lock :
         mode'[t][l] # "none" <=> Running(t)' /\ l \in Kept(prog'[t], pc'[t])
  <2>1. ASSUME NEW l \in Lock, l # op.lock
        PROVE  mode[t][l] # "none" <=> l \in kept
    BY <2>1, OwnModes DEF Waiting, op
  <2>2. QED
    BY <1>1, <1>2, <1>5, <2>1 DEF After, op
<1>7. ASSUME NEW l \in Lock, NEW u \in Task, u # t, u \in queued, Now(u).lock = l,
             t \in before[u], l \notin gone
      PROVE  mode'[t][l] = mode[t][l]
  <2>1. CASE l # op.lock
    BY <1>2, <2>1
  <2>2. CASE l = op.lock
    <3>1. Keeps(op) /\ l \notin kept
      BY <1>1, <1>7, <2>2 DEF Sound
    <3>2. mode[t][l] # "none"
      BY <1>7 DEF Core, QueueInv, Conflict
    <3>3. t \in queued
      BY <3>1, <3>2, OwnModes DEF Waiting
    <3>4. QED
      BY <1>2, <2>2, <3>1, <3>3 DEF Core, QueueInv, op
  <2>3. QED
    BY <2>1, <2>2
<1>8. ASSUME NEW l \in Lock, NEW u \in Task, u # t, Conflict(mode'[t][l], mode[u][l])
      PROVE  l \notin gone /\ Waiting(u, l) /\ t \in before[u]
  <2>1. CASE l # op.lock
    <3>1. ~Waiting(t, l)
      BY <2>1 DEF Waiting, op
    <3>2. QED
      BY <1>2, <1>8, <2>1, <3>1 DEF Core, LineInv
  <2>2. CASE l = op.lock
    <3>1. Keeps(op) /\ mode'[t][l] = Mode(op)
      BY <1>2, <1>8, <2>2 DEF Conflict
    <3>2. QED
      BY <1>1, <1>8, <2>2, <3>1, GrantedAlone DEF op
  <2>3. QED
    BY <2>1, <2>2
<1> HIDE DEF gone
<1>9. QED
  BY <1>3, <1>4, <1>6, <1>7, <1>8, MoveKeepsCore

\* A task that begins, or goes on elsewhere, without a lock more or less.
LEMMA ElsewhereKeepsCore ==
    ASSUME Core, NEW t \in Task, t \notin queued, UNCHANGED <<locks, role>>,
           NEW p \in DOMAIN Code, NEW i \in 1..Len(Code[p]),
           prog' = [prog EXCEPT ![t] = p], pc' = [pc EXCEPT ![t] = i],
           \A l \in Lock : Holds(t, l) <=> l \in Kept(p, i)
    PROVE  Core'
<1>1. /\ prog'[t] = p /\ pc'[t] = i /\ Running(t)' /\ mode' = mode
      /\ \A u \in Task \ {t} : prog'[u] = prog[u] /\ pc'[u] = pc[u]
      /\ queued' = queued /\ before' = before
  BY Programs DEF Core, TypeOK, Running, locks
<1>2. before[t] = {}
  BY DEF Core, QueueInv
<1>3. Moves(t, {})
  BY <1>1, <1>2 DEF Moves
<1>4. TypeOK'
  BY <1>1, Programs DEF Core, TypeOK, Running
<1>5. \A l \in Lock : ~Waiting(t, l)
  BY DEF Waiting
<1>6. \A l \in Lock : mode[t][l] # "none" <=> l \in Kept(p, i)
  BY <1>5, OwnModes
<1>7. QED
  BY <1>1, <1>3, <1>4, <1>5, <1>6, MoveKeepsCore DEF Core, LineInv

\* A task that begins to wait.
LEMMA WaitKeepsCore ==
    ASSUME Core, NEW t \in Task, Wait(t)
    PROVE  Core'
<1> DEFINE lk == Now(t).lock
<1>1. /\ lk \in Lock /\ Mode(Now(t)) \in {"read", "write"}
      /\ mode[t][lk] = "none"
  <2>1. lk \in Lock /\ lk \notin Kept(prog[t], pc[t])
    BY Standing DEF Wait, Sound, Takes
  <2>2. QED
    BY <2>1, OwnModes DEF Wait, Waiting, Mode
<1>2. /\ queued' = queued \cup {t} /\ prog' = prog /\ pc' = pc
      /\ before'[t] = Ahead(t) /\ \A u \in Task \ {t} : before'[u] = before[u]
      /\ \A u \in Task \ {t} : mode'[u] = mode[u]
      /\ \A l \in Lock : mode'[t][l] = IF l = lk THEN Mode(Now(t)) ELSE mode[t][l]
  BY <1>1 DEF Wait, Core, TypeOK
<1>3. /\ \A u : Running(u)' <=> Running(u)
      /\ \A u : Now(u)' = Now(u)
      /\ \A u, l : u # t => (Waiting(u, l)' <=> Waiting(u, l))
      /\ \A l : Waiting(t, l)' <=> l = lk
      /\ \A l : ~Waiting(t, l)
  BY <1>2 DEF Running, Now, Waiting, Wait
<1>4. TypeOK'
  <2>1. mode' \in [Task -> [Lock -> {"none", "read", "write"}]]
    BY <1>1 DEF Wait, Core, TypeOK
  <2>2. before' \in [Task -> SUBSET Task] /\ queued' \subseteq Task
    BY DEF Wait, Core, TypeOK, Ahead
  <2>3. QED
    BY <1>2, <1>3, <2>1, <2>2 DEF Core, TypeOK, Wait
<1>5. HeldInv'
  BY <1>1, <1>2, <1>3 DEF Core, HeldInv, Holds
<1>6. \A u \in Task : u \in queued => ~(t \in before[u] /\ Now(u).lock = lk)
  BY <1>1 DEF Core, QueueInv, Conflict
<1>7. QueueInv'
  <2>1. ASSUME NEW u \in Task, u \in queued'
        PROVE  /\ (Running(u) /\ Takes(Now(u)))'
               /\ (mode[u][Now(u).lock] = Mode(Now(u)))'
               /\ \A w \in before'[u] :
                     w # u /\ (Conflict(Mode(Now(u)), mode[w][Now(u).lock]))'
    <3>1. CASE u = t
      <4>1. \A w \in Ahead(t) : w \in Task /\ w # t /\ Conflict(Mode(Now(t)), mode[w][lk])
        BY <1>1 DEF Ahead, Conflict
      <4>2. QED
        BY <1>1, <1>2, <1>3, <3>1, <4>1 DEF Wait
    <3>2. CASE u # t
      <4>1. /\ u \in queued /\ Running(u) /\ Takes(Now(u))
            /\ mode[u][Now(u).lock] = Mode(Now(u))
            /\ \A w \in before[u] :
                  w \in Task /\ w # u /\ Conflict(Mode(Now(u)), mode[w][Now(u).lock])
        BY <1>2, <2>1, <3>2 DEF Core, QueueInv, TypeOK
      <4>2. Now(u).lock \in Lock
        BY <4>1, Standing DEF Sound, Takes
      <4>3. ASSUME NEW w \in before[u]
            PROVE  mode'[w][Now(u).lock] = mode[w][Now(u).lock]
        BY <1>2, <1>6, <4>1, <4>2
      <4>4. QED
        BY <1>2, <1>3, <3>2, <4>1, <4>3
    <3>3. QED
      BY <3>1, <3>2
  <2>2. ASSUME NEW u \in Task, u \notin queued' PROVE before'[u] = {}
    BY <1>2, <2>2 DEF Core, QueueInv
  <2>3. QED
    BY <2>1, <2>2 DEF QueueInv
<1>8. LineInv'
  <2>1. ASSUME NEW u \in Task, u # t, NEW l \in Lock, Conflict(mode'[t][l], mode'[u][l])
        PROVE  \/ Waiting(t, l)' /\ u \in before'[t]
               \/ Waiting(u, l)' /\ t \in before'[u]
    <3>1. CASE l = lk
      BY <1>2, <1>3, <2>1, <3>1 DEF Ahead
    <3>2. CASE l # lk
      BY <1>2, <1>3, <2>1, <3>2 DEF Core, LineInv
    <3>3. QED
      BY <3>1, <3>2
  <2>2. ASSUME NEW u \in Task, NEW w \in Task, NEW l \in Lock, u # w, u # t, w # t,
               Conflict(mode'[u][l], mode'[w][l])
        PROVE  \/ Waiting(u, l)' /\ w \in before'[u]
               \/ Waiting(w, l)' /\ u \in before'[w]
    BY <1>2, <1>3, <2>2 DEF Core, LineInv
  <2>3. ASSUME NEW u \in Task, NEW w \in Task, NEW l \in Lock, u # w,
               Conflict(mode'[u][l], mode'[w][l])
        PROVE  \/ Waiting(u, l)' /\ w \in before'[u]
               \/ Waiting(w, l)' /\ u \in before'[w]
    <3>1. Conflict(mode'[w][l], mode'[u][l])
      BY <2>3 DEF Conflict
    <3>2. QED
      BY <2>1, <2>2, <2>3, <3>1
  <2>4. QED
    BY <2>3 DEF LineInv
<1>9. NoCircleAtLock'
  <2>1. ASSUME NEW l \in Lock, NEW S \in SUBSET {u \in queued' : (Now(u).lock)' = l}, S # {}
        PROVE  \E u \in S : before'[u] \cap S = {}
    <3>1. \A u \in S \ {t} : u \in Task /\ u \in queued /\ Now(u).lock = l
      BY <1>2, <1>3 DEF Core, TypeOK
    <3>2. CASE S = {t}
      BY <1>1, <1>2, <3>2 DEF Ahead, Conflict
    <3>3. CASE S # {t}
      <4> DEFINE R == S \ {t}
      <4>a. R # {} /\ R \in SUBSET {u \in queued : Now(u).lock = l}
        BY <2>1, <3>1, <3>3
      <4> HIDE DEF R
      <4>b. \E u \in R : before[u] \cap R = {}
        BY <4>a DEF Core, NoCircleAtLock
      <4>1. PICK u \in S \ {t} : before[u] \cap (S \ {t}) = {}
        BY <4>b DEF R

      <4>2. t \in S => t \notin before[u]
        BY <1>3, <1>6, <3>1, <4>1
      <4>3. QED
        BY <1>2, <3>1, <4>1, <4>2
    <3>4. QED
      BY <3>2, <3>3
  <2>2. QED
    BY <2>1 DEF NoCircleAtLock
<1>10. QED
  BY <1>4, <1>5, <1>7, <1>8, <1>9 DEF Core

-----------------------------------------------------------------------------
(* The whole invariant.                                                    *)

\* The arms of a match on the role.
LEMMA Arms ==
    ASSUME NEW t \in Task, NEW p \in Arm(t)
    PROVE  \/ role = "Leader" /\ p = prog[t]
           \/ /\ role = "Follower" /\ p = "FollowerRound"
              /\ prog[t] = "LeaderRound" /\ pc[t] = 2
  BY DEF Arm

\* The roles that are written.
LEMMA Becoming ==
    /\ \A p : Becomes(p) \in Role
    /\ Becomes("FollowerVote") = "Follower"
  BY DEF Becomes, Role

\* Only the senator writes the role.
LEMMA RoleIsTheSenators ==
    ASSUME LocksInv, NEW t \in Task, Running(t), Takes(Now(t)),
           Now(t).lock = "role", Mode(Now(t)) = "write"
    PROVE  t = senator
  BY Standing DEF LocksInv, Core, Sound, KindInv

\* A step of a task in its program.
LEMMA GoOnKeeps ==
    ASSUME LocksInv, NEW t \in Task, Running(t), Granted(t), NEW p, GoOn(t, p),
           IF Now(t) = Match THEN p \in Arm(t) ELSE p = prog[t],
           role' = IF Now(t) = Assign("role") THEN Becomes(prog[t]) ELSE role
    PROVE  LocksInv'
<1> DEFINE op == Now(t)
<1> USE DEF LocksInv
<1>1. Core
  BY DEF Core
<1>2. /\ p \in DOMAIN Code
      /\ p = prog[t] \/ (p = "FollowerRound" /\ prog[t] = "LeaderRound" /\ pc[t] = 2)
  BY <1>1, Standing, Arms, Programs
<1>3. role' \in Role
  BY Becoming DEF TypeOK
<1>4. Core'
  <2>1. CASE pc[t] = Len(Code[p])
    BY <1>1, <1>3, <2>1, EndKeepsCore DEF GoOn
  <2>2. CASE pc[t] # Len(Code[p])
    <3>1. /\ pc[t] + 1 \in 1..Len(Code[p])
          /\ Kept(p, pc[t] + 1) = After(op, Kept(prog[t], pc[t]))
      <4>1. CASE p = prog[t]
        BY <1>1, <2>2, <4>1, Standing
      <4>2. CASE p = "FollowerRound" /\ prog[t] = "LeaderRound" /\ pc[t] = 2
        BY <4>2, ArmSound
      <4>3. QED
        BY <1>2, <4>1, <4>2
    <3>2. QED
      BY <1>1, <1>2, <1>3, <2>2, <3>1, GoOnKeepsCore
  <2>3. QED
    BY <2>1, <2>2
<1>5. /\ Sound(prog[t], op, Kept(prog[t], pc[t]))
      /\ "role" \in Lock
      /\ Keeps(op) => Takes(op)
  BY <1>1, Standing DEF Takes, Keeps, Lock
<1>6. /\ \A u \in Task \ {t} : prog'[u] = prog[u] /\ mode'[u] = mode[u]
      /\ \A u \in Task \ {t} : Running(u)' <=> Running(u)
      /\ \A u \in Task \ {t} : Holds(u, "role")' <=> Holds(u, "role")
      /\ t \notin queued'
      /\ prog'[t] \in {"idle", p}
      /\ mode'[t]["role"] # "none" =>
            /\ prog'[t] = p
            /\ IF op.lock = "role" THEN Keeps(op) /\ mode'[t]["role"] = Mode(op)
               ELSE mode'[t]["role"] = mode[t]["role"]
  <2>1. CASE pc[t] = Len(Code[p])
    BY <1>5, <2>1 DEF GoOn, End, Leave, TypeOK, Running, Holds, Waiting, Now
  <2>2. CASE pc[t] # Len(Code[p])
    <3>1. /\ prog' = [prog EXCEPT ![t] = p]
          /\ pc' = [pc EXCEPT ![t] = @ + 1]
          /\ mode' = IF op.lock \notin Lock THEN mode
                     ELSE [mode EXCEPT ![t][op.lock] =
                              IF Keeps(op) THEN Mode(op) ELSE "none"]
          /\ queued' = queued \ {t}
      BY <2>2 DEF GoOn, Leave
    <3>2. /\ \A u \in Task \ {t} : prog'[u] = prog[u] /\ pc'[u] = pc[u] /\ mode'[u] = mode[u]
          /\ prog'[t] = p
          /\ IF op.lock = "role"
             THEN mode'[t]["role"] = IF Keeps(op) THEN Mode(op) ELSE "none"
             ELSE mode'[t]["role"] = mode[t]["role"]
      BY <1>5, <3>1 DEF TypeOK
    <3>3. QED
      BY <3>1, <3>2 DEF Running, Holds, Waiting, Now
  <2>3. QED
    BY <2>1, <2>2
<1>7. p \in SenatorCode <=> prog[t] \in SenatorCode
  BY <1>2, Programs
<1>8. KindInv'
  <2>1. ASSUME NEW u \in Task
        PROVE  prog'[u] \in SenatorCode <=> u = senator /\ Running(u)'
    <3>1. CASE u # t
      BY <1>6, <3>1 DEF KindInv
    <3>2. CASE u = t
      BY <1>1, <1>2, <1>6, <1>7, <3>2, Programs DEF KindInv, Running, SenatorCode
    <3>3. QED
      BY <3>1, <3>2
  <2>2. ASSUME NEW u \in Worker
        PROVE  mode'[u]["role"] # "write"
    <3>1. u \in Task /\ u # senator
      BY SenatorAssumption DEF Task
    <3>2. CASE u # t
      BY <1>6, <3>1, <3>2 DEF KindInv
    <3>3. CASE u = t
      BY <1>5, <1>6, <3>1, <3>3, RoleIsTheSenators DEF KindInv
    <3>4. QED
      BY <3>2, <3>3
  <2>3. QED
    BY <2>1, <2>2 DEF KindInv
<1>9. op = Assign("role") => t = senator /\ Takes(op) /\ op.lock = "role" /\ Mode(op) = "write"
  BY RoleIsTheSenators DEF Assign, Op, Takes, Mode
<1>10. ASSUME prog'[senator] = "FollowerVote"
       PROVE  role' = "Follower"
  <2>1. prog[senator] = "FollowerVote"
    BY <1>2, <1>6, <1>10 DEF Task
  <2>2. QED
    BY <1>9, <2>1, Becoming DEF RoleInv
<1>11. ASSUME NEW u \in Worker, prog'[u] \in {"LeaderRound", "RequestState"},
              Holds(u, "role")'
       PROVE  role' = "Leader"
  <2>1. u \in Task /\ u # senator
    BY SenatorAssumption DEF Task
  <2>2. CASE u # t
    <3>1. Holds(u, "role") /\ prog[u] \in {"LeaderRound", "RequestState"}
      BY <1>6, <1>11, <2>1, <2>2
    <3>2. op # Assign("role")
      <4>1. SUFFICES ASSUME op = Assign("role") PROVE FALSE
        OBVIOUS
      <4>2. Conflict(Mode(op), mode[u]["role"])
        BY <1>9, <3>1, <4>1 DEF Holds, Conflict
      <4>3. QED
        BY <1>1, <1>9, <2>1, <2>2, <3>1, <4>1, <4>2, GrantedAlone DEF Holds
    <3>3. QED
      BY <3>1, <3>2 DEF RoleInv
  <2>3. CASE u = t
    <3>1. op # Assign("role")
      BY <1>9, <2>1, <2>3
    <3>2. p = prog[t] /\ prog'[t] = p /\ p \in {"LeaderRound", "RequestState"}
      BY <1>2, <1>6, <1>11, <2>3
    <3>3. CASE op.lock = "role"
      <4>1. op = Match
        BY <1>5, <1>6, <1>11, <2>3, <3>2, <3>3 DEF Holds, Sound
      <4>2. QED
        BY <3>1, <3>2, <4>1, Arms
    <3>4. CASE op.lock # "role"
      <4>1. Holds(t, "role")
        BY <1>6, <1>11, <2>3, <3>4 DEF Holds, Waiting
      <4>2. QED
        BY <2>3, <3>1, <3>2, <4>1 DEF RoleInv
    <3>5. QED
      BY <3>3, <3>4
  <2>4. QED
    BY <2>2, <2>3
<1>12. mode'[t]["generator"] # "read"
  <2>1. CASE pc[t] = Len(Code[p])
    BY <2>1 DEF GoOn, End, TypeOK, Lock
  <2>2. CASE pc[t] # Len(Code[p])
    <3>1. mode' = IF op.lock \notin Lock THEN mode
                  ELSE [mode EXCEPT ![t][op.lock] = IF Keeps(op) THEN Mode(op) ELSE "none"]
      BY <2>2 DEF GoOn
    <3>2. mode[t]["generator"] # "read" /\ "generator" \in Lock
      BY DEF RoundInv, Lock
    <3>3. op.lock = "generator" /\ Keeps(op) => Mode(op) # "read"
      BY <1>5 DEF Sound
    <3> HIDE DEF op
    <3>4. QED
      BY <3>1, <3>2, <3>3 DEF TypeOK
  <2>3. QED
    BY <2>1, <2>2
<1>13. RoundInv'
  BY <1>6, <1>12 DEF RoundInv
<1>14. QED
  BY <1>4, <1>8, <1>10, <1>11, <1>13 DEF Core, RoleInv

\* A task that ends.
LEMMA EndKeeps ==
    ASSUME LocksInv, NEW t \in Task, End(t), UNCHANGED role
    PROVE  LocksInv'
<1> USE DEF LocksInv
<1>1. Core'
  BY EndKeepsCore DEF Core, TypeOK
<1>2. /\ \A u \in Task \ {t} : prog'[u] = prog[u] /\ mode'[u] = mode[u] /\ pc'[u] = pc[u]
      /\ prog'[t] = "idle" /\ mode'[t]["role"] = "none" /\ queued' = queued \ {t}
      /\ mode'[t]["generator"] = "none"
  BY DEF End, Leave, TypeOK, Lock
<1>3. /\ \A u \in Task \ {t} : Running(u)' <=> Running(u)
      /\ \A u \in Task \ {t} : Holds(u, "role")' <=> Holds(u, "role")
      /\ ~Running(t)' /\ ~Holds(t, "role")'
  BY <1>2 DEF Running, Holds, Waiting, Now
<1>4. KindInv'
  BY <1>2, <1>3 DEF KindInv, SenatorCode, Task
<1>5. RoleInv'
  BY <1>2, <1>3 DEF RoleInv, Task
<1>6. RoundInv'
  BY <1>2 DEF RoundInv
<1>7. QED
  BY <1>1, <1>4, <1>5, <1>6 DEF Core

\* A task that begins to wait.
LEMMA WaitKeeps ==
    ASSUME LocksInv, NEW t \in Task, Wait(t)
    PROVE  LocksInv'
<1> USE DEF LocksInv
<1>1. Core /\ Core'
  BY WaitKeepsCore DEF Core
<1>2. /\ prog' = prog /\ pc' = pc /\ role' = role /\ Running(t) /\ Takes(Now(t))
      /\ \A u \in Task \ {t} : mode'[u] = mode[u]
      /\ mode'[t]["role"] = IF Now(t).lock = "role" THEN Mode(Now(t)) ELSE mode[t]["role"]
  BY <1>1, Standing DEF Wait, TypeOK, Lock, Sound
<1>3. \A u \in Task : Holds(u, "role")' <=> Holds(u, "role")
  BY <1>1, <1>2 DEF Core, HeldInv, Running, Lock
<1>4. KindInv'
  <2>1. \A u \in Worker : u \in Task /\ u # senator
    BY SenatorAssumption DEF Task
  <2>2. \A u \in Worker : mode'[u]["role"] # "write"
    BY <1>2, <2>1, RoleIsTheSenators DEF KindInv
  <2>3. QED
    BY <1>2, <2>2 DEF KindInv, Running
<1>5. RoleInv'
  BY <1>2, <1>3 DEF RoleInv, Task
<1>6. RoundInv'
  <2>1. mode' = [mode EXCEPT ![t][Now(t).lock] = Mode(Now(t))]
    BY DEF Wait
  <2>2. Now(t).lock = "generator" => Mode(Now(t)) # "read"
    BY <1>1, <1>2, Standing DEF Sound
  <2>3. Now(t).lock \in Lock
    BY <1>1, <1>2, Standing DEF Sound, Takes
  <2>4. QED
    BY <2>1, <2>2, <2>3 DEF RoundInv, TypeOK, Lock
<1>7. QED
  BY <1>1, <1>4, <1>5, <1>6 DEF Core

\* A task that begins.
LEMMA SpawnKeeps ==
    ASSUME LocksInv, NEW t \in Task, NEW p \in DOMAIN Code, Spawn(t, p),
           p \in SenatorCode <=> t = senator,
           p = "FollowerVote" => role = "Follower"
    PROVE  LocksInv'
<1> USE DEF LocksInv
<1>1. Core
  BY DEF Core
<1>2. t \notin queued /\ pc[t] = 1 /\ \A l \in Lock : ~Holds(t, l)
  BY DEF Spawn, QueueInv, TypeOK, HeldInv
<1>3. pc' = [pc EXCEPT ![t] = 1] /\ pc' = pc /\ UNCHANGED <<locks, role>>
  BY <1>2 DEF Spawn, TypeOK
<1>4. 1 \in 1..Len(Code[p]) /\ Kept(p, 1) = {}
  BY StartSound
<1>5. Core'
  BY <1>1, <1>2, <1>3, <1>4, ElsewhereKeepsCore DEF Spawn
<1>6. /\ prog'[t] = p /\ \A u \in Task \ {t} : prog'[u] = prog[u]
      /\ mode' = mode /\ queued' = queued /\ role' = role
      /\ p # "idle" /\ Running(t)'
      /\ \A u \in Task \ {t} : Running(u)' <=> Running(u)
  BY <1>3, Programs DEF Spawn, TypeOK, Running, locks
<1>7. \A u \in Task : Holds(u, "role")' <=> Holds(u, "role")
  BY <1>2, <1>3, <1>4, <1>5, <1>6 DEF Core, HeldInv, Lock
<1>8. KindInv'
  BY <1>6 DEF KindInv, Task
<1>9. RoleInv'
  BY <1>2, <1>6, <1>7 DEF RoleInv, Task, Lock
<1>10. QED
  BY <1>5, <1>6, <1>8, <1>9 DEF Core, RoundInv

\* A round that goes on elsewhere.
LEMMA JumpKeeps ==
    ASSUME LocksInv, NEW t \in Task, Jump(t)
    PROVE  LocksInv'
<1> USE DEF LocksInv
<1>1. Core
  BY DEF Core
<1>2. PICK j \in Jumps : pc[t] = j[1] /\ pc' = [pc EXCEPT ![t] = j[2]]
  BY DEF Jump
<1>3. /\ prog[t] = "LeaderRound" /\ "LeaderRound" \in DOMAIN Code /\ Running(t)
      /\ t \notin queued /\ prog' = prog /\ UNCHANGED <<locks, role>>
  BY Programs DEF Jump, Running
<1>4. prog' = [prog EXCEPT ![t] = "LeaderRound"]
  BY <1>3 DEF TypeOK
<1>5. \A l \in Lock : Holds(t, l) <=> l \in Kept("LeaderRound", j[2])
  BY <1>2, <1>3, JumpSound DEF HeldInv
<1>6. Core'
  BY <1>1, <1>2, <1>3, <1>4, <1>5, JumpSound, ElsewhereKeepsCore
<1>7. \A u \in Task : Holds(u, "role")' <=> Holds(u, "role")
  BY <1>2, <1>3, <1>5, <1>6 DEF Core, HeldInv, Running, Lock, TypeOK
<1>8. KindInv'
  BY <1>3 DEF KindInv, Running, locks
<1>9. RoleInv'
  BY <1>3, <1>7 DEF RoleInv, Task
<1>10. QED
  BY <1>3, <1>6, <1>8, <1>9 DEF Core, RoundInv, locks

\* Every step.
LEMMA NextKeeps ==
    ASSUME LocksInv, [Next]_vars
    PROVE  LocksInv'
<1>1. CASE UNCHANGED vars
  <2>1. UNCHANGED <<prog, pc, mode, queued, before, role>>
    BY <1>1 DEF vars, locks
  <2>2. (TypeOK /\ HeldInv /\ QueueInv /\ LineInv)'
    BY <2>1 DEF LocksInv, TypeOK, HeldInv, QueueInv, LineInv, Running, Holds, Waiting, Now
  <2>3. (NoCircleAtLock /\ KindInv /\ RoundInv /\ RoleInv)'
    BY <2>1 DEF LocksInv, NoCircleAtLock, KindInv, RoundInv, RoleInv, Running, Holds,
       Waiting, Now
  <2>4. QED
    BY <2>2, <2>3 DEF LocksInv
<1>2. ASSUME NEW t \in Task, Take(t) PROVE LocksInv'
  <2>1. Running(t) /\ Granted(t)
    BY <1>2 DEF Take, Granted
  <2>2. CASE Now(t) # Match /\ GoOn(t, prog[t])
    BY <1>2, <2>1, <2>2, GoOnKeeps DEF Take
  <2>3. CASE Now(t) = Match /\ \E p \in Arm(t) : GoOn(t, p)
    BY <1>2, <2>1, <2>3, GoOnKeeps DEF Take
  <2>4. CASE Now(t) = Match /\ End(t)
    <3>1. role' = role
      BY <1>2, <2>4 DEF Take, Match, Assign, Op
    <3>2. QED
      BY <2>4, <3>1, EndKeeps
  <2>5. QED
    BY <1>2, <2>2, <2>3, <2>4 DEF Take
<1>3. ASSUME NEW t \in Task, NEW do \in {"free", "call", "exchange"}, Pass(t, do)
      PROVE  LocksInv'
  <2>1. Granted(t) /\ Now(t) # Match /\ Now(t) # Assign("role")
    BY <1>3 DEF Pass, Granted, Takes, Match, Assign, Op
  <2>2. QED
    BY <1>3, <2>1, GoOnKeeps DEF Pass
<1>4. CASE SpawnHandler
  <2>1. PICK p \in Handlers(role) : Spawn(senator, p)
    BY <1>4 DEF SpawnHandler
  <2>2. role \in Role
    BY DEF LocksInv, TypeOK
  <2>3. QED
    BY <2>1, <2>2, Programs, SpawnKeeps DEF Task
<1>5. CASE SpawnWorker
  <2>1. PICK t \in Worker, p \in DOMAIN Code \ SenatorCode : Spawn(t, p)
    BY <1>5, Programs DEF SpawnWorker, Worker
  <2>2. t \in Task /\ t # senator /\ p # "FollowerVote"
    BY SenatorAssumption DEF Task, SenatorCode
  <2>3. QED
    BY <2>1, <2>2, SpawnKeeps
<1>6. CASE Cancel
  BY <1>6, EndKeeps DEF Cancel, Task
<1>7. ASSUME NEW t \in Task, Return(t) PROVE LocksInv'
  BY <1>7, EndKeeps DEF Return
<1>8. QED
  BY <1>1, <1>2, <1>3, <1>4, <1>5, <1>6, <1>7, WaitKeeps, JumpKeeps DEF Next, Step

\* At first nothing is held.
LEMMA InitLocks ==
    ASSUME Init
    PROVE  LocksInv
  BY Programs DEF Init, LocksInv, TypeOK, HeldInv, QueueInv, LineInv, NoCircleAtLock,
     KindInv, RoundInv, RoleInv, Running, Holds, Waiting, SenatorCode, Conflict, Role,
     Worker, Task, Lock

\* The locks of a pod are in order: a task holds what its program keeps, and
\* those that ask for a lock wait for those before them, in no circle.
THEOREM LocksCorrect == Spec => []LocksInv
<1>1. Init => LocksInv
  BY InitLocks
<1>2. LocksInv /\ [Next]_vars => LocksInv'
  BY NextKeeps
<1>3. QED
  BY <1>1, <1>2, PTL DEF Spec

-----------------------------------------------------------------------------
(* Circles.                                                                *)

\* There is a last one among ranks.
LEMMA Highest ==
    ASSUME NEW R \in SUBSET (1..8), R # {}
    PROVE  \E m \in R : \A n \in R : n <= m
<1>1. SUFFICES ASSUME \A m \in R : \E n \in R : n > m
               PROVE  FALSE
  OBVIOUS
<1>2. 8 \notin R
  BY <1>1
<1>3. 7 \notin R
  BY <1>1, <1>2
<1>4. 6 \notin R /\ 5 \notin R
  BY <1>1, <1>2, <1>3
<1>5. 4 \notin R /\ 3 \notin R
  BY <1>1, <1>2, <1>3, <1>4
<1>6. 2 \notin R /\ 1 \notin R
  BY <1>1, <1>2, <1>3, <1>4, <1>5
<1>7. PICK x \in R : x \in 1..8
  OBVIOUS
<1>8. x \in {1, 2, 3, 4, 5, 6, 7, 8}
  BY <1>7
<1>9. QED
  BY <1>2, <1>3, <1>4, <1>5, <1>6, <1>7, <1>8

\* Of the locks at which the tasks of a circle wait, take the last in the order.
\* One who waits there does so for a task of the circle that waits elsewhere, so
\* it holds that lock and asks for an earlier one: that is the vote.
LEMMA CircleThroughVote ==
    ASSUME LocksInv, NEW S \in SUBSET queued, Circle(S)
    PROVE  /\ senator \in S /\ Holds(senator, "term") /\ Waiting(senator, "role")
           /\ prog[senator] \in {"Vote", "FollowerVote"}
           /\ \A t \in S : Now(t).lock # "peers"
<1> USE DEF LocksInv
<1>1. Core
  BY DEF Core
<1>2. \A t \in S : t \in Task /\ Running(t) /\ Takes(Now(t)) /\ Now(t).lock \in Lock
  BY <1>1, Standing DEF Sound, Takes, QueueInv, TypeOK
<1> DEFINE R == {Rank[Now(t).lock] : t \in S}
<1>3. PICK m \in R : \A n \in R : n <= m
  <2>1. R # {} /\ R \subseteq 1..8
    BY <1>2 DEF Circle, Rank, Lock
  <2> HIDE DEF R
  <2>2. QED
    BY <2>1, Highest
<1>4. PICK l \in Lock : Rank[l] = m /\ \E t \in S : Now(t).lock = l
  BY <1>2
<1> DEFINE L == {t \in S : Now(t).lock = l}
<1>5. PICK t \in L : before[t] \cap L = {}
  <2>1. L # {} /\ L \in SUBSET {t \in queued : Now(t).lock = l}
    BY <1>4
  <2>2. QED
    BY <2>1 DEF NoCircleAtLock
<1>6. PICK u \in before[t] : u \in S /\ Now(u).lock # l
  BY <1>5 DEF Circle
<1>7. Holds(u, l)
  BY <1>2, <1>5, <1>6 DEF QueueInv, Conflict, Holds, Waiting
<1>8. l \in Kept(prog[u], pc[u])
  BY <1>2, <1>6, <1>7 DEF HeldInv
<1>9. ~(Rank[l] < Rank[Now(u).lock])
  <2>1. Rank[Now(u).lock] \in R
    BY <1>6
  <2>2. \A k \in Lock : Rank[k] \in Nat
    BY DEF Rank, Lock
  <2> HIDE DEF R
  <2>3. QED
    BY <1>2, <1>3, <1>4, <1>6, <2>1, <2>2
<1>10. AgainstOrder(prog[u], Now(u), l)
  BY <1>1, <1>2, <1>6, <1>8, <1>9, Standing DEF Sound
<1>11. u = senator
  BY <1>2, <1>6, <1>10 DEF AgainstOrder, KindInv, SenatorCode
<1>12. \A w \in S : Now(w).lock # "peers"
  <2>1. \A w \in S : Rank[Now(w).lock] \in R
    OBVIOUS
  <2> HIDE DEF R
  <2>2. \A w \in S : Rank[Now(w).lock] <= 7
    BY <1>3, <1>4, <1>10, <2>1 DEF AgainstOrder, Rank
  <2>3. QED
    BY <2>2 DEF Rank
<1>13. QED
  BY <1>6, <1>7, <1>10, <1>11, <1>12 DEF AgainstOrder, Waiting

\* The task of a circle that the vote waits for, if no timer drops the vote.
LEMMA CircleThroughRequest ==
    ASSUME LocksInv, NEW S \in SUBSET queued, Circle(S), prog[senator] \notin Timed
    PROVE  /\ role = "Follower"
           /\ \E t \in S : prog[t] = "FollowerRound" /\ Holds(t, "role")
<1> USE DEF LocksInv
<1>1. /\ senator \in S /\ senator \in queued /\ Waiting(senator, "role")
      /\ prog[senator] = "FollowerVote"
      /\ \A t \in S : Now(t).lock # "peers"
  BY CircleThroughVote DEF Timed
<1>2. PICK u \in before[senator] : u \in S
  BY <1>1 DEF Circle
<1>3. /\ u \in Task /\ u # senator /\ u \in Worker /\ u \in queued
      /\ mode[u]["role"] # "none"
      /\ Running(u) /\ Takes(Now(u))
  BY <1>1, <1>2 DEF Task, TypeOK, QueueInv, Waiting, Conflict
<1>4. ~Waiting(u, "role")
  <2>1. SUFFICES ASSUME Waiting(u, "role") PROVE FALSE
    OBVIOUS
  <2>2. Mode(Now(u)) = "read"
    BY <1>3, <2>1 DEF QueueInv, Waiting, KindInv, Mode
  <2>3. PICK w \in before[u] : w \in S
    BY <1>1, <1>2 DEF Circle
  <2>4. w \in Task /\ mode[w]["role"] = "write"
    BY <1>3, <2>1, <2>2, <2>3 DEF QueueInv, TypeOK, Waiting, Conflict
  <2>5. w = senator
    BY <2>4 DEF KindInv, Task
  <2> DEFINE P == {u, senator}
  <2>6. \E t \in P : before[t] \cap P = {}
    <3>1. P # {} /\ P \in SUBSET {t \in queued : Now(t).lock = "role"} /\ "role" \in Lock
      BY <1>1, <1>3, <2>1 DEF Waiting, Lock
    <3>2. QED
      BY <3>1 DEF NoCircleAtLock
  <2>7. QED
    BY <1>2, <2>3, <2>5, <2>6
<1>5. Holds(u, "role") /\ "role" \in Kept(prog[u], pc[u])
  BY <1>3, <1>4 DEF Holds, HeldInv, Lock
<1>6. Sound(prog[u], Now(u), Kept(prog[u], pc[u]))
  BY <1>3, Standing DEF Core
<1>7. prog[u] \in RoleKeepers /\ prog[u] # "SendMsg"
  BY <1>1, <1>2, <1>3, <1>5, <1>6 DEF Sound
<1>8. prog[u] \notin SenatorCode
  BY <1>3 DEF KindInv
<1>9. prog[u] \notin {"LeaderRound", "RequestState"}
  BY <1>1, <1>3, <1>5 DEF RoleInv
<1>10. role = "Follower"
  BY <1>1 DEF RoleInv
<1>11. QED
  BY <1>2, <1>5, <1>7, <1>8, <1>9, <1>10 DEF RoleKeepers, SenatorCode

\* The invariant bounds the circles.
LEMMA LocksBoundCircles ==
    ASSUME LocksInv
    PROVE  CirclesAreVotes
  BY CircleThroughVote, CircleThroughRequest DEF CirclesAreVotes

\* A round has its generator for itself.
LEMMA OneRound ==
    ASSUME LocksInv, NEW t \in Task, NEW u \in Task,
           Holds(t, "generator"), Holds(u, "generator")
    PROVE  t = u
<1>1. SUFFICES ASSUME t # u PROVE FALSE
  OBVIOUS
<1>2. Conflict(mode[t]["generator"], mode[u]["generator"])
  BY DEF LocksInv, RoundInv, TypeOK, Holds, Conflict, Lock
<1>3. QED
  BY <1>1, <1>2 DEF LocksInv, LineInv, Holds, Lock

\* The request for the state, in the circle, keeps all rounds of a leader away;
\* the role keeps the answers away; the watch waits for nobody who stays.  So
\* nobody of the circle has a lock that clients ask for, and then nobody waits
\* for one.
LEMMA LocksSpareClients ==
    ASSUME LocksInv
    PROVE  CirclesSpareClients
<1> USE DEF LocksInv
<1> SUFFICES ASSUME NEW S \in SUBSET queued, Circle(S), prog[senator] \notin Timed,
                    NEW t \in S, NEW l \in Served
             PROVE  mode[t][l] = "none"
  BY DEF CirclesSpareClients
<1>1. Core
  BY DEF Core
<1>2. \A w \in S : w \in Task /\ w \in queued /\ Running(w)
  BY DEF QueueInv, TypeOK
<1>3. \A w \in S, k \in Served : Holds(w, k) => k \in Kept(prog[w], pc[w])
  BY <1>2 DEF HeldInv, Served, Lock
<1>4. ASSUME NEW k \in Served, NEW w \in S, Waiting(w, k)
      PROVE  \E v \in S : Holds(v, k)
  <2> DEFINE L == {v \in S : Now(v).lock = k}
  <2>1. L # {} /\ L \in SUBSET {v \in queued : Now(v).lock = k} /\ k \in Lock
    BY <1>4 DEF Waiting, Served, Lock
  <2>2. PICK v \in L : before[v] \cap L = {}
    BY <2>1 DEF NoCircleAtLock
  <2>3. PICK x \in before[v] : x \in S /\ Now(x).lock # k
    BY <2>2 DEF Circle
  <2>4. QED
    BY <1>2, <2>2, <2>3 DEF QueueInv, Conflict, Holds, Waiting
<1>5. \A w \in S : ~Waiting(w, "subscribers")
  <2>1. \A w \in S : ~Holds(w, "subscribers")
    BY <1>1, <1>2, <1>3, Standing, ServedKeepers DEF Served
  <2>2. QED
    BY <1>4, <2>1 DEF Served
<1>6. ASSUME NEW w \in S, NEW k \in Served, Holds(w, k)
      PROVE  FALSE
  <2>1. /\ prog[w] \in DOMAIN Code /\ pc[w] \in 1..Len(Code[prog[w]])
        /\ k \in Kept(prog[w], pc[w])
    BY <1>1, <1>2, <1>3, <1>6, Standing
  <2>2. PICK u \in S : prog[u] = "FollowerRound" /\ Holds(u, "role") /\ role = "Follower"
    BY CircleThroughRequest
  <2>3. CASE prog[w] = "LeaderRound" /\ "generator" \in Kept(prog[w], pc[w])
    <3>1. "generator" \in Kept(prog[u], pc[u])
      BY <1>1, <1>2, <2>2, Standing, RequestKeepsGenerator DEF HeldInv, Lock
    <3>2. Holds(u, "generator") /\ Holds(w, "generator")
      BY <1>2, <2>3, <3>1 DEF HeldInv, Lock
    <3>3. QED
      BY <1>2, <2>2, <2>3, <3>2, OneRound
  <2>4. CASE prog[w] = "RequestState" /\ "role" \in Kept(prog[w], pc[w])
    <3>1. Holds(w, "role") /\ w \in Worker
      BY <1>2, <2>4 DEF HeldInv, Lock, KindInv, SenatorCode, Task
    <3>2. QED
      BY <2>2, <2>4, <3>1 DEF RoleInv
  <2>5. CASE Code[prog[w]][pc[w]] = Assign("subscribers")
    BY <1>2, <1>5, <2>5 DEF Waiting, Now, Assign, Op
  <2>6. QED
    BY <2>1, <2>3, <2>4, <2>5, ServedKeepers
<1>7. Waiting(t, l) => \E v \in S : Holds(v, l)
  BY <1>4
<1>8. QED
  BY <1>2, <1>6, <1>7 DEF Holds

\* Every circle of waiting tasks goes through the write of role in
\* handle_vote_request, and one that no timer breaks through a follower's
\* request for the state: all other tasks take their locks in one order.
THEOREM CirclesNeedVotes == Spec => []CirclesAreVotes
<1>1. LocksInv => CirclesAreVotes
  BY LocksBoundCircles
<1>2. QED
  BY <1>1, LocksCorrect, PTL

\* A circle that no timer breaks neither has a lock that requests, handshakes
\* and the watch ask for, nor waits for one: the election's own deadlock leaves
\* them alone.
THEOREM CirclesLeaveClients == Spec => []CirclesSpareClients
<1>1. LocksInv => CirclesSpareClients
  BY LocksSpareClients
<1>2. QED
  BY <1>1, LocksCorrect, PTL
=============================================================================
