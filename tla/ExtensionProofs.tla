-------------------------- MODULE ExtensionProofs --------------------------
(***************************************************************************)
(* The service worker of the extension, for any number of messages, URLs,  *)
(* servers and limits: the slots follow the limit, none is idle while a    *)
(* task waits, and no URL is posted twice while the worker lives.          *)
(*                                                                         *)
(* None of the three is inductive.  The slots need that `active` counts    *)
(* the tasks that hold one, that the queue lists every waiting task once,  *)
(* and that it is empty unless every slot is taken.  The posts need that a *)
(* task past its claim keeps its URL in inFlight, alone, and that a URL in *)
(* posted is claimed by nobody but the task that posts it.                 *)
(***************************************************************************)
EXTENDS Extension, FiniteSetTheorems, SequenceTheorems, TLAPS

Steps == {"page", "load", "jobs", "refresh", "acquire", "wait", "fetch", "posting", "done"}

SlotTypes ==
    /\ server \in Server
    /\ pc \in [Task -> Steps] /\ target \in [Task -> Server \cup {""}]
    /\ \A t \in Task : pc[t] = "jobs" => target[t] \in Server
    /\ refresh # NoRefresh => refresh.asks \in Server
    /\ maxParallel \in Nat /\ active \in Nat

(* The queue is the tasks that wait, each of them once.                    *)
LineInv ==
    /\ waiters \in Seq(Task)
    /\ \A i, j \in 1 .. Len(waiters) : waiters[i] = waiters[j] => i = j
    /\ \A t \in Task : pc[t] = "wait" <=> \E i \in 1 .. Len(waiters) : waiters[i] = t

SlotInv ==
    /\ SlotTypes
    /\ LineInv
    /\ IsFiniteSet(Holders)
    /\ active = Cardinality(Holders)
    /\ Len(waiters) # 0 => active >= maxParallel

-----------------------------------------------------------------------------
(* The queue *)

LEMMA LineFacts ==
    ASSUME SlotInv
    PROVE  /\ Len(waiters) \in Nat
           /\ \A i \in 1 .. Len(waiters) : waiters[i] \in Task /\ pc[waiters[i]] = "wait"
           /\ waiters = <<>> <=> Len(waiters) = 0
<1>1. waiters \in Seq(Task)
  BY DEF SlotInv, LineInv
<1>2. Len(waiters) \in Nat /\ \A i \in 1 .. Len(waiters) : waiters[i] \in Task
  BY <1>1, LenProperties, ElementOfSeq
<1>3. waiters = <<>> <=> Len(waiters) = 0
  BY <1>1, EmptySeq
<1> QED
  BY <1>2, <1>3 DEF SlotInv, LineInv

(* The first m of the queue leave it.                                      *)
LEMMA LineAdvances ==
    ASSUME SlotInv, NEW m \in 0 .. Len(waiters),
           waiters' = SubSeq(waiters, m + 1, Len(waiters)),
           NEW now, now = {waiters[i] : i \in 1 .. m},
           \A t \in Task : pc'[t] = "wait" <=> pc[t] = "wait" /\ t \notin now
    PROVE  /\ LineInv' /\ Len(waiters') = Len(waiters) - m
           /\ now \subseteq Queued
           /\ IsFiniteSet(now) /\ Cardinality(now) = m
<1>1. /\ Len(waiters) \in Nat /\ m \in Nat /\ m <= Len(waiters) /\ waiters \in Seq(Task)
      /\ \A i \in 1 .. Len(waiters) : waiters[i] \in Task /\ pc[waiters[i]] = "wait"
      /\ \A i, j \in 1 .. Len(waiters) : waiters[i] = waiters[j] => i = j
      /\ \A t \in Task : pc[t] = "wait" => \E i \in 1 .. Len(waiters) : waiters[i] = t
  BY LineFacts DEF SlotInv, LineInv
<1> DEFINE n == Len(waiters)
<1>2. /\ waiters' \in Seq(Task)
      /\ Len(waiters') = n - m
      /\ \A i \in 1 .. n - m : waiters'[i] = waiters[m + i]
  <2>1. m + 1 \in Int /\ n \in Int /\ \A i \in m + 1 .. n : waiters[i] \in Task
    BY <1>1
  <2>2. /\ SubSeq(waiters, m + 1, n) \in Seq(Task)
        /\ Len(SubSeq(waiters, m + 1, n)) = IF m + 1 <= n THEN n - (m + 1) + 1 ELSE 0
        /\ \A i \in 1 .. n - (m + 1) + 1 : SubSeq(waiters, m + 1, n)[i] = waiters[m + 1 + i - 1]
    BY <2>1, SubSeqProperties
  <2> QED
    BY <1>1, <2>2
<1>3. LineInv' /\ Len(waiters') = n - m
  <2>1. ASSUME NEW i \in 1 .. n - m
        PROVE  m + i \in 1 .. n /\ waiters'[i] = waiters[m + i]
    BY <1>1, <1>2
  <2>2. ASSUME NEW i \in 1 .. n - m, NEW j \in 1 .. n - m, waiters'[i] = waiters'[j]
        PROVE  i = j
    BY <1>1, <2>1, <2>2
  <2>3. ASSUME NEW t \in Task, pc'[t] = "wait"
        PROVE  \E i \in 1 .. n - m : waiters'[i] = t
    <3>1. PICK k \in 1 .. n : waiters[k] = t
      BY <1>1, <2>3
    <3>2. k > m
      BY <1>1, <2>3, <3>1
    <3>3. k - m \in 1 .. n - m /\ m + (k - m) = k
      BY <1>1, <3>2
    <3> QED
      BY <2>1, <3>1, <3>3
  <2>4. ASSUME NEW i \in 1 .. n - m
        PROVE  pc'[waiters'[i]] = "wait"
    <3>1. waiters'[i] \in Task /\ pc[waiters'[i]] = "wait"
      BY <1>1, <2>1
    <3>2. waiters'[i] \notin now
      BY <1>1, <2>1
    <3> QED
      BY <3>1, <3>2
  <2> QED
    BY <1>2, <2>2, <2>3, <2>4 DEF LineInv
<1>4. now \subseteq Queued
  BY <1>1 DEF Queued
<1>5. IsFiniteSet(now) /\ Cardinality(now) = m
  <2> DEFINE f == [i \in 1 .. m |-> waiters[i]]
  <2>1. f \in Bijection(1 .. m, now)
    <3>1. f \in [1 .. m -> now]
      OBVIOUS
    <3>2. \A i, j \in 1 .. m : f[i] = f[j] => i = j
      BY <1>1
    <3>3. \A t \in now : \E i \in 1 .. m : f[i] = t
      OBVIOUS
    <3> QED
      BY <3>1, <3>2, <3>3 DEF Bijection, Injection, Surjection, IsInjective
  <2>2. ExistsBijection(1 .. m, now)
    BY <2>1 DEF ExistsBijection
  <2>3. IsFiniteSet(1 .. m) /\ Cardinality(1 .. m) = m
    BY <1>1, FS_Interval
  <2> QED
    BY <2>2, <2>3, FS_Bijection
<1> QED
  BY <1>3, <1>4, <1>5

-----------------------------------------------------------------------------
(* The slots *)

(* What a step may do to the holders and the limit.                        *)
SlotsKept == SlotInv' /\ (Holders' \ Holders # {} => active' <= maxParallel')

LEMMA HoldersFacts ==
    ASSUME SlotInv
    PROVE  /\ IsFiniteSet(Holders) /\ Cardinality(Holders) = active /\ active \in Nat
           /\ Holders \cap Queued = {}
BY DEF SlotInv, SlotTypes, Holders, Queued

(* Steps that leave slots and queue alone.                                 *)
LEMMA SlotsUntouched ==
    ASSUME SlotInv, SlotTypes', UNCHANGED <<active, waiters, maxParallel>>,
           \A t \in Task : /\ pc'[t] = "wait" <=> pc[t] = "wait"
                           /\ pc'[t] \in {"fetch", "posting"} <=> pc[t] \in {"fetch", "posting"}
    PROVE  SlotsKept
<1>1. Holders' = Holders
  BY DEF Holders
<1>2. LineInv'
  BY DEF SlotInv, LineInv
<1> QED
  BY <1>1, <1>2 DEF SlotInv, SlotsKept

(* The loop of setMaxParallel ends: with everyone woken or no slot left.   *)
LEMMA LoopEnds ==
    ASSUME SlotInv, NEW n \in Nat,
           NEW more, more = CHOOSE m \in 0 .. Len(waiters) :
                               /\ m = Len(waiters) \/ active + m >= n
                               /\ \A k \in 0 .. m - 1 : active + k < n
    PROVE  /\ more \in 0 .. Len(waiters)
           /\ more = Len(waiters) \/ active + more >= n
           /\ more # 0 => active + more <= n
<1>1. Len(waiters) \in Nat /\ active \in Nat
  BY LineFacts, HoldersFacts
<1> DEFINE w == IF active >= n THEN 0
                ELSE IF n - active <= Len(waiters) THEN n - active ELSE Len(waiters)
<1>2. /\ w \in 0 .. Len(waiters)
      /\ w = Len(waiters) \/ active + w >= n
      /\ \A k \in 0 .. w - 1 : active + k < n
  BY <1>1
<1>3. \E m \in 0 .. Len(waiters) : /\ m = Len(waiters) \/ active + m >= n
                                   /\ \A k \in 0 .. m - 1 : active + k < n
  <2> HIDE DEF w
  <2> QED
    BY <1>2
<1>4. /\ more \in 0 .. Len(waiters)
      /\ more = Len(waiters) \/ active + more >= n
      /\ \A k \in 0 .. more - 1 : active + k < n
  BY <1>3
<1>5. more # 0 => active + (more - 1) < n
  BY <1>1, <1>4
<1> QED
  BY <1>1, <1>4, <1>5

LEMMA LimitStep ==
    ASSUME SlotInv, NEW n \in Nat, SetMaxParallel(n), server' \in Server, UNCHANGED target,
           refresh' = NoRefresh
    PROVE  SlotsKept
<1> DEFINE more == CHOOSE m \in 0 .. Len(waiters) :
                      /\ m = Len(waiters) \/ active + m >= n
                      /\ \A k \in 0 .. m - 1 : active + k < n
           now  == {waiters[i] : i \in 1 .. more}
<1>1. /\ maxParallel' = n
      /\ active' = active + more
      /\ waiters' = SubSeq(waiters, more + 1, Len(waiters))
      /\ pc' = [t \in Task |-> IF t \in now THEN "fetch"
                               ELSE IF pc[t] = "refresh" THEN "acquire" ELSE pc[t]]
  BY DEF SetMaxParallel
<1>2. /\ more \in 0 .. Len(waiters)
      /\ more = Len(waiters) \/ active + more >= n
      /\ more # 0 => active + more <= n
  BY LoopEnds
<1> HIDE DEF more
<1>3. Len(waiters) \in Nat /\ active \in Nat /\ more \in Nat
  BY <1>2, LineFacts, HoldersFacts
<1>4. pc \in [Task -> Steps]
  BY DEF SlotInv, SlotTypes
<1>5. \A t \in Task : pc'[t] = "wait" <=> pc[t] = "wait" /\ t \notin now
  BY <1>1, <1>4
<1>6. /\ LineInv' /\ Len(waiters') = Len(waiters) - more
      /\ now \subseteq Queued
      /\ IsFiniteSet(now) /\ Cardinality(now) = more
  BY <1>1, <1>2, <1>5, LineAdvances
<1> HIDE DEF now
<1>7. Holders' = Holders \cup now /\ Holders \cap now = {}
  BY <1>1, <1>4, <1>6 DEF Holders, Queued
<1>8. IsFiniteSet(Holders') /\ Cardinality(Holders') = active + more
  <2>1. /\ IsFiniteSet(Holders \cup now)
        /\ Cardinality(Holders \cup now) = Cardinality(Holders) + Cardinality(now) - Cardinality(Holders \cap now)
    BY <1>6, HoldersFacts, FS_Union
  <2>2. Cardinality(Holders \cap now) = 0
    BY <1>7, FS_EmptySet
  <2> QED
    BY <1>3, <1>6, <1>7, <2>1, <2>2, HoldersFacts
<1>9. Holders' \ Holders # {} => more # 0
  BY <1>6, <1>7, FS_EmptySet
<1>10. SlotTypes'
  <2>1. pc' \in [Task -> Steps] /\ active' \in Nat
    BY <1>1, <1>3, <1>4 DEF Steps
  <2>2. \A t \in Task : pc'[t] = "jobs" => pc[t] = "jobs"
    BY <1>1, <1>4
  <2> QED
    BY <1>1, <2>1, <2>2 DEF SlotInv, SlotTypes
<1> QED
  BY <1>1, <1>2, <1>3, <1>6, <1>8, <1>9, <1>10 DEF SlotInv, SlotsKept

LEMMA AcquireStep ==
    ASSUME SlotInv, NEW t \in Task, Acquire(t)
    PROVE  SlotsKept
<1>1. pc \in [Task -> Steps] /\ maxParallel \in Nat /\ active \in Nat /\ pc[t] = "acquire"
  BY DEF SlotInv, SlotTypes, Acquire
<1>2. UNCHANGED <<server, refresh, maxParallel, target>>
  BY DEF Acquire
<1>3. t \notin Holders
  BY <1>1 DEF Holders
<1>4. CASE active < maxParallel
  <2>1. pc' = [pc EXCEPT ![t] = "fetch"] /\ active' = active + 1 /\ waiters' = waiters
    BY <1>4 DEF Acquire, Goto
  <2>2. Holders' = Holders \cup {t}
    BY <1>1, <2>1 DEF Holders
  <2>3. IsFiniteSet(Holders') /\ Cardinality(Holders') = active + 1
    BY <1>3, <2>2, HoldersFacts, FS_AddElement
  <2>4. LineInv'
    BY <1>1, <2>1 DEF SlotInv, LineInv
  <2>5. SlotTypes'
    <3>1. pc' \in [Task -> Steps] /\ active' \in Nat /\ \A u \in Task : pc'[u] = "jobs" => pc[u] = "jobs"
      BY <1>1, <2>1 DEF Steps
    <3> QED
      BY <1>2, <3>1 DEF SlotInv, SlotTypes
  <2>6. Len(waiters) = 0
    BY <1>1, <1>4 DEF SlotInv
  <2> QED
    BY <1>1, <1>2, <1>4, <2>1, <2>3, <2>4, <2>5, <2>6 DEF SlotInv, SlotsKept
<1>5. CASE ~(active < maxParallel)
  <2>1. pc' = [pc EXCEPT ![t] = "wait"] /\ active' = active /\ waiters' = Append(waiters, t)
    BY <1>5 DEF Acquire, Goto
  <2>2. Holders' = Holders
    BY <1>1, <2>1 DEF Holders
  <2>3. /\ waiters \in Seq(Task) /\ Len(waiters) \in Nat
        /\ \A i \in 1 .. Len(waiters) : waiters[i] \in Task /\ pc[waiters[i]] = "wait"
    BY LineFacts DEF SlotInv, LineInv
  <2>4. /\ waiters' \in Seq(Task) /\ Len(waiters') = Len(waiters) + 1
        /\ \A i \in 1 .. Len(waiters) : waiters'[i] = waiters[i]
        /\ waiters'[Len(waiters) + 1] = t
    BY <2>1, <2>3, AppendProperties
  <2>5. \A i \in 1 .. Len(waiters) : waiters[i] # t
    BY <1>1, <2>3
  <2>6. LineInv'
    <3>1. \A i, j \in 1 .. Len(waiters') : waiters'[i] = waiters'[j] => i = j
      <4>1. \A i, j \in 1 .. Len(waiters) : waiters[i] = waiters[j] => i = j
        BY DEF SlotInv, LineInv
      <4>2. \A i \in 1 .. Len(waiters') : i \in 1 .. Len(waiters) \/ i = Len(waiters) + 1
        BY <2>3, <2>4
      <4> QED
        BY <2>4, <2>5, <4>1, <4>2
    <3>2. \A u \in Task : pc'[u] = "wait" <=> pc[u] = "wait" \/ u = t
      BY <1>1, <2>1
    <3>3. \A u \in Task : pc'[u] = "wait" => \E i \in 1 .. Len(waiters') : waiters'[i] = u
      <4> SUFFICES ASSUME NEW u \in Task, pc'[u] = "wait"
                   PROVE  \E i \in 1 .. Len(waiters') : waiters'[i] = u
        OBVIOUS
      <4>1. CASE u = t
        BY <2>3, <2>4, <4>1
      <4>2. CASE u # t
        <5>1. PICK i \in 1 .. Len(waiters) : waiters[i] = u
          BY <3>2, <4>2 DEF SlotInv, LineInv
        <5> QED
          BY <2>3, <2>4, <5>1
      <4> QED
        BY <4>1, <4>2
    <3>4. \A i \in 1 .. Len(waiters') : pc'[waiters'[i]] = "wait"
      BY <2>3, <2>4, <3>2
    <3> QED
      BY <2>4, <3>1, <3>3, <3>4 DEF LineInv
  <2>7. SlotTypes'
    BY <1>1, <1>2, <2>1 DEF SlotInv, SlotTypes, Steps
  <2> QED
    BY <1>1, <1>2, <1>5, <2>1, <2>2, <2>6, <2>7 DEF SlotInv, SlotsKept
<1> QED
  BY <1>4, <1>5

LEMMA EndStep ==
    ASSUME SlotInv, NEW t \in Task, End(t)
    PROVE  SlotsKept
<1>1. pc \in [Task -> Steps] /\ maxParallel \in Nat /\ active \in Nat /\ t \in Holders
  BY DEF SlotInv, SlotTypes, End, Holders
<1>2. UNCHANGED <<server, refresh, maxParallel, target>> /\ Release(t)
  BY DEF End
<1>3. IsFiniteSet(Holders \ {t}) /\ Cardinality(Holders \ {t}) = active - 1
  BY <1>1, HoldersFacts, FS_RemoveElement
<1>4. Cardinality(Holders \ {t}) \in Nat
  BY <1>3, FS_CardinalityType
<1>5. CASE waiters # <<>> /\ active <= maxParallel
  <2> DEFINE u == Head(waiters)
  <2>1. pc' = [pc EXCEPT ![t] = "done", ![u] = "fetch"] /\ waiters' = Tail(waiters) /\ active' = active
    BY <1>2, <1>5 DEF Release
  <2>2. waiters \in Seq(Task) /\ Len(waiters) \in Nat /\ Len(waiters) # 0 /\ 1 \in 0 .. Len(waiters)
    BY <1>5, LineFacts DEF SlotInv, LineInv
  <2>3. waiters' = SubSeq(waiters, 1 + 1, Len(waiters))
    BY <1>5, <2>1, <2>2, TailIsSubSeq
  <2>4. u = waiters[1] /\ {u} = {waiters[i] : i \in 1 .. 1}
    BY <2>2
  <2>5. u \in Queued /\ u \in Task /\ u \notin Holders
    BY <2>2, <2>4, LineFacts, HoldersFacts DEF Queued
  <2> HIDE DEF u
  <2>6. \A x \in Task : pc'[x] = IF x = u THEN "fetch" ELSE IF x = t THEN "done" ELSE pc[x]
    BY <1>1, <2>1, <2>5 DEF Holders
  <2>7. \A x \in Task : pc'[x] = "wait" <=> pc[x] = "wait" /\ x \notin {u}
    BY <1>1, <2>6 DEF Holders
  <2>8. LineInv' /\ Len(waiters') = Len(waiters) - 1
    BY <2>2, <2>3, <2>4, <2>7, LineAdvances
  <2>9. Holders' = (Holders \ {t}) \cup {u} /\ u \notin Holders \ {t}
    BY <1>1, <2>5, <2>6 DEF Holders
  <2>10. IsFiniteSet(Holders') /\ Cardinality(Holders') = active
    <3> DEFINE rest == Holders \ {t}
    <3>1. IsFiniteSet(rest) /\ Cardinality(rest) = active - 1 /\ Holders' = rest \cup {u} /\ u \notin rest
      BY <1>3, <2>9
    <3> HIDE DEF rest
    <3>2. IsFiniteSet(rest \cup {u}) /\ Cardinality(rest \cup {u}) = Cardinality(rest) + 1
      BY <3>1, FS_AddElement
    <3> QED
      BY <1>1, <3>1, <3>2
  <2>11. SlotTypes'
    <3>1. pc' \in [Task -> Steps]
      BY <1>1, <2>1 DEF Steps
    <3> QED
      BY <1>2, <2>1, <2>6, <3>1 DEF SlotInv, SlotTypes
  <2>12. active >= maxParallel
    BY <2>2 DEF SlotInv
  <2> QED
    BY <1>2, <1>5, <2>1, <2>8, <2>10, <2>11, <2>12 DEF SlotInv, SlotsKept
<1>6. CASE ~(waiters # <<>> /\ active <= maxParallel)
  <2>1. pc' = [pc EXCEPT ![t] = "done"] /\ waiters' = waiters /\ active' = active - 1
    BY <1>2, <1>6 DEF Release, Goto
  <2>2. Holders' = Holders \ {t}
    BY <1>1, <2>1 DEF Holders
  <2>3. \A x \in Task : pc'[x] = "wait" <=> pc[x] = "wait"
    BY <1>1, <2>1 DEF Holders
  <2>4. LineInv'
    BY <2>1, <2>3 DEF SlotInv, LineInv
  <2>5. SlotTypes'
    BY <1>1, <1>2, <1>3, <1>4, <2>1 DEF SlotInv, SlotTypes, Steps
  <2>6. Len(waiters') # 0 => active' >= maxParallel'
    BY <1>1, <1>2, <1>6, <2>1, LineFacts DEF SlotInv
  <2> QED
    BY <1>3, <2>1, <2>2, <2>4, <2>5, <2>6 DEF SlotInv, SlotsKept
<1> QED
  BY <1>5, <1>6

LEMMA SlotStep ==
    ASSUME SlotInv, [Next]_vars
    PROVE  SlotsKept
<1>0. /\ pc \in [Task -> Steps] /\ SlotTypes /\ LineInv
      /\ \A t \in Task : pc[t] = "jobs" => target[t] \in Server
  BY DEF SlotInv, SlotTypes
<1>1. ASSUME NEW t \in Task, Message(t)
      PROVE  SlotsKept
  <2>1. /\ pc[t] = "page" /\ UNCHANGED <<server, limits, target>>
        /\ pc' = [pc EXCEPT ![t] = "load"] \/ pc' = [pc EXCEPT ![t] = "done"]
    BY <1>1 DEF Message, Goto
  <2>2. SlotTypes'
    BY <1>0, <2>1 DEF SlotTypes, Steps, limits
  <2> QED
    BY <1>0, <1>1, <2>1, <2>2, SlotsUntouched DEF limits, Message
<1>2. ASSUME NEW t \in Task, Load(t)
      PROVE  SlotsKept
  <2>1. /\ pc[t] = "load" /\ UNCHANGED <<server, limits>>
        /\ \/ pc' = [pc EXCEPT ![t] = "done"] /\ target' = target
           \/ pc' = [pc EXCEPT ![t] = "jobs"] /\ target' = [target EXCEPT ![t] = server]
    BY <1>2 DEF Load, Goto
  <2>2. SlotTypes'
    BY <1>0, <2>1 DEF SlotTypes, Steps, limits
  <2> QED
    BY <1>0, <2>1, <2>2, SlotsUntouched DEF limits
<1>3. ASSUME NEW t \in Task, EnsureJobs(t)
      PROVE  SlotsKept
  <2>1. /\ pc[t] = "jobs" /\ UNCHANGED <<server, maxParallel, active, waiters>>
        /\ target' = [target EXCEPT ![t] = ""]
        /\ pc' = [pc EXCEPT ![t] = "acquire"] \/ pc' = [pc EXCEPT ![t] = "refresh"]
    BY <1>3 DEF EnsureJobs, Goto
  <2>2. refresh' # NoRefresh => refresh'.asks \in Server
    <3>1. \/ refresh' = refresh
          \/ refresh' = [asks |-> target[t], generation |-> generation]
      BY <1>3 DEF EnsureJobs
    <3>2. [asks |-> target[t], generation |-> generation].asks = target[t]
      OBVIOUS
    <3>3. target[t] \in Server
      BY <1>0, <2>1
    <3>4. CASE refresh' = refresh
      BY <1>0, <3>4 DEF SlotTypes
    <3> QED
      BY <3>1, <3>2, <3>3, <3>4
  <2>3. SlotTypes'
    BY <1>0, <2>1, <2>2 DEF SlotTypes, Steps
  <2> QED
    BY <1>0, <2>1, <2>3, SlotsUntouched
<1>4. ASSUME NEW t \in Task, Post(t)
      PROVE  SlotsKept
  <2>1. pc[t] = "fetch" /\ pc' = [pc EXCEPT ![t] = "posting"] /\ UNCHANGED <<server, limits, target>>
    BY <1>4 DEF Post, Goto
  <2>2. SlotTypes'
    BY <1>0, <2>1 DEF SlotTypes, Steps, limits
  <2> QED
    BY <1>0, <2>1, <2>2, SlotsUntouched DEF limits
<1>5. CASE Answer
  <2>1. refresh # NoRefresh /\ refresh.asks \in Server /\ maxParallel \in Nat /\ server' \in Server
    BY <1>0, <1>5 DEF Answer, SlotTypes
  <2>2. JobsOf[refresh.asks] \in Nat
    BY <2>1, ExtensionBounds
  <2>3. PICK n \in Nat : SetMaxParallel(n)
    BY <1>5, <2>1, <2>2 DEF Answer
  <2> QED
    BY <1>5, <2>1, <2>3, LimitStep DEF Answer
<1>6. CASE ChangeSettings \/ OnChanged \/ UNCHANGED vars
  <2>1. UNCHANGED <<refresh, maxParallel, active, waiters, pc, target>> /\ server' \in Server
    BY <1>0, <1>6 DEF ChangeSettings, OnChanged, vars, limits, SlotTypes
  <2>2. SlotTypes'
    BY <1>0, <2>1 DEF SlotTypes
  <2> QED
    BY <2>1, <2>2, SlotsUntouched
<1>7. CASE WorkerEnds
  <2>1. /\ server' = server /\ refresh' = NoRefresh /\ maxParallel' = Fallback /\ active' = 0
        /\ waiters' = <<>> /\ Fallback \in Nat
        /\ pc' = [t \in Task |-> IF pc[t] = "page" THEN "page" ELSE "done"]
        /\ target' = [t \in Task |-> ""]
    BY <1>7, ExtensionBounds DEF WorkerEnds
  <2>2. Holders' = {}
    BY <2>1 DEF Holders
  <2>3. waiters' \in Seq(Task) /\ Len(waiters') = 0
    BY <2>1, EmptySeq
  <2>4. LineInv'
    <3>1. \A t \in Task : pc'[t] # "wait"
      BY <2>1
    <3> QED
      BY <2>3, <3>1 DEF LineInv
  <2>5. SlotTypes'
    BY <1>0, <2>1 DEF SlotTypes, Steps
  <2>6. IsFiniteSet(Holders') /\ Cardinality(Holders') = 0
    BY <2>2, FS_EmptySet
  <2> QED
    BY <2>1, <2>2, <2>3, <2>4, <2>5, <2>6 DEF SlotInv, SlotsKept
<1> QED
  BY <1>1, <1>2, <1>3, <1>4, <1>5, <1>6, <1>7, AcquireStep, EndStep DEF Next, Work

LEMMA SlotInvariant == Spec => []SlotInv
<1>1. Init => SlotInv
  <2> SUFFICES ASSUME Init PROVE SlotInv
    OBVIOUS
  <2>1. /\ active = 0 /\ waiters = <<>> /\ maxParallel \in Nat /\ refresh = NoRefresh
        /\ pc = [t \in Task |-> "page"] /\ target = [t \in Task |-> ""] /\ server \in Server
    BY ExtensionBounds DEF Init, Fresh
  <2>0. Holders = {}
    BY <2>1 DEF Holders
  <2>2. IsFiniteSet(Holders) /\ Cardinality(Holders) = 0
    BY <2>0, FS_EmptySet
  <2>3. waiters \in Seq(Task) /\ Len(waiters) = 0
    BY <2>1, EmptySeq
  <2>4. LineInv
    <3>1. \A t \in Task : pc[t] # "wait"
      BY <2>1
    <3> QED
      BY <2>3, <3>1 DEF LineInv
  <2>5. SlotTypes
    BY <2>1 DEF SlotTypes, Steps
  <2> QED
    BY <2>1, <2>2, <2>3, <2>4, <2>5 DEF SlotInv
<1>2. SlotInv /\ [Next]_vars => SlotInv'
  BY SlotStep DEF SlotsKept
<1> QED
  BY <1>1, <1>2, PTL DEF Spec

(* No task waits while a slot is free, however often the limit rose or     *)
(* fell, the worker died or tasks failed with their slot.                  *)
THEOREM NoSlotIdle == Spec => []NoIdleSlots
<1>1. SlotInv => NoIdleSlots
  BY LineFacts DEF SlotInv, LineInv, NoIdleSlots, Queued
<1> QED
  BY <1>1, SlotInvariant, PTL

(* Nobody gets a slot over the limit the server asked for last.            *)
THEOREM LimitRespected == Spec => SlotsFollowLimit
<1>1. SlotInv /\ [Next]_vars
        => [Holders' \ Holders # {} => Cardinality(Holders') <= maxParallel']_vars
  BY SlotStep DEF SlotsKept, SlotInv
<1> QED
  BY <1>1, SlotInvariant, PTL DEF Spec, SlotsFollowLimit

-----------------------------------------------------------------------------
(* The posts *)

(* Tasks past their claim: bytes from the message on, URLs once the        *)
(* settings are there.                                                     *)
Claimed == {t \in Task : \/ pc[t] \in {"jobs", "refresh", "acquire", "wait", "fetch", "posting"}
                         \/ pc[t] = "load" /\ t \notin ByUrl}

ClaimInv ==
    /\ posts \subseteq Task
    /\ \A t \in Claimed : UrlOf[t] \in inFlight
    /\ \A t, u \in Claimed : UrlOf[t] = UrlOf[u] => t = u
    /\ \A t \in posts : UrlOf[t] \in posted
    /\ \A t \in posts, u \in Claimed : UrlOf[t] = UrlOf[u] => t = u /\ pc[t] = "posting"
    /\ PostedOnce

(* Steps that neither claim nor post.                                      *)
LEMMA NothingClaimed ==
    ASSUME ClaimInv, UNCHANGED <<inFlight, posted, posts>>,
           \A t \in Task : t \in Claimed' => t \in Claimed,
           \A t \in Task : pc[t] = "posting" => pc'[t] = "posting"
    PROVE  ClaimInv'
<1>1. Claimed' \subseteq Claimed
  BY DEF Claimed
<1>2. \A t \in posts, u \in Claimed' : UrlOf[t] = UrlOf[u] => t = u /\ pc'[t] = "posting"
  BY <1>1 DEF ClaimInv
<1> QED
  BY <1>1, <1>2 DEF ClaimInv, PostedOnce

(* A claim: the URL was neither in flight nor posted.                      *)
LEMMA ClaimStep ==
    ASSUME ClaimInv, NEW t \in Task, Wanted(t) \/ t \in Claimed,
           UNCHANGED <<posted, posts>>, inFlight' = inFlight \cup {UrlOf[t]},
           Claimed' = Claimed \cup {t},
           \A u \in Task : pc[u] = "posting" => pc'[u] = "posting"
    PROVE  ClaimInv'
<1>1. CASE t \in Claimed
  BY <1>1 DEF ClaimInv, PostedOnce
<1>2. CASE Wanted(t)
  <2>1. UrlOf[t] \notin inFlight /\ UrlOf[t] \notin posted
    BY <1>2 DEF Wanted
  <2>2. \A u \in Claimed : UrlOf[u] # UrlOf[t]
    BY <2>1 DEF ClaimInv
  <2>3. \A u \in posts : UrlOf[u] # UrlOf[t]
    BY <2>1 DEF ClaimInv
  <2> QED
    BY <2>2, <2>3 DEF ClaimInv, PostedOnce
<1> QED
  BY <1>1, <1>2

LEMMA PostsStep ==
    ASSUME SlotInv, ClaimInv, [Next]_vars
    PROVE  ClaimInv'
<1>0. pc \in [Task -> Steps]
  BY DEF SlotInv, SlotTypes
<1>1. ASSUME NEW t \in Task, Message(t)
      PROVE  ClaimInv'
  <2>1. /\ pc[t] = "page" /\ UNCHANGED <<posted, posts>>
        /\ pc' = [pc EXCEPT ![t] = "load"] \/ pc' = [pc EXCEPT ![t] = "done"]
    BY <1>1 DEF Message, Goto
  <2>2. \A u \in Task : pc[u] = "posting" => pc'[u] = "posting"
    BY <1>0, <2>1
  <2>3. CASE t \notin ByUrl /\ Wanted(t)
    <3>1. pc' = [pc EXCEPT ![t] = "load"] /\ inFlight' = inFlight \cup {UrlOf[t]}
      BY <1>1, <2>3 DEF Message, Goto
    <3>2. Claimed' = Claimed \cup {t}
      BY <1>0, <2>1, <2>3, <3>1 DEF Claimed
    <3> QED
      BY <2>1, <2>2, <2>3, <3>1, <3>2, ClaimStep
  <2>4. CASE ~(t \notin ByUrl /\ Wanted(t))
    <3>1. UNCHANGED inFlight /\ (t \in ByUrl \/ pc' = [pc EXCEPT ![t] = "done"])
      BY <1>1, <2>4 DEF Message, Goto
    <3>2. \A u \in Task : u \in Claimed' => u \in Claimed
      BY <1>0, <2>1, <3>1 DEF Claimed
    <3> QED
      BY <2>1, <2>2, <3>1, <3>2, NothingClaimed
  <2> QED
    BY <2>3, <2>4
<1>2. ASSUME NEW t \in Task, Load(t)
      PROVE  ClaimInv'
  <2>1. pc[t] = "load" /\ UNCHANGED <<posted, posts>>
    BY <1>2 DEF Load
  <2>2. CASE pc' = [pc EXCEPT ![t] = "done"] /\ UNCHANGED inFlight
    BY <1>0, <2>1, <2>2, NothingClaimed DEF Claimed
  <2>3. CASE /\ pc' = [pc EXCEPT ![t] = "jobs"] /\ inFlight' = inFlight \cup {UrlOf[t]}
             /\ t \in ByUrl => Wanted(t)
    <3>1. Claimed' = Claimed \cup {t}
      BY <1>0, <2>1, <2>3 DEF Claimed
    <3>2. Wanted(t) \/ t \in Claimed
      BY <2>1, <2>3 DEF Claimed
    <3>3. \A u \in Task : pc[u] = "posting" => pc'[u] = "posting"
      BY <1>0, <2>1, <2>3
    <3> QED
      BY <2>1, <2>3, <3>1, <3>2, <3>3, ClaimStep
  <2> QED
    BY <1>2, <2>2, <2>3 DEF Load, Goto
<1>3. ASSUME NEW t \in Task, EnsureJobs(t) \/ Acquire(t)
      PROVE  ClaimInv'
  <2>1. /\ pc[t] \in {"jobs", "acquire"} /\ UNCHANGED <<inFlight, posted, posts>>
        /\ \E step \in {"acquire", "refresh", "fetch", "wait"} : pc' = [pc EXCEPT ![t] = step]
    BY <1>3 DEF EnsureJobs, Acquire, Goto, sets
  <2> QED
    BY <1>0, <2>1, NothingClaimed DEF Claimed
<1>4. ASSUME NEW t \in Task, Post(t)
      PROVE  ClaimInv'
  <2>1. /\ pc[t] = "fetch" /\ pc' = [pc EXCEPT ![t] = "posting"] /\ inFlight' = inFlight
        /\ posted' = posted \cup {UrlOf[t]} /\ posts' = posts \cup {t}
    BY <1>4 DEF Post, Goto
  <2>2. Claimed' = Claimed /\ t \in Claimed /\ pc'[t] = "posting"
    BY <1>0, <2>1 DEF Claimed
  <2>3. \A u \in posts : UrlOf[u] = UrlOf[t] => FALSE
    BY <2>1, <2>2 DEF ClaimInv
  <2>4. \A u \in Task : pc[u] = "posting" => pc'[u] = "posting"
    BY <1>0, <2>1
  <2>5. \A u \in posts', v \in Claimed' : UrlOf[u] = UrlOf[v] => u = v /\ pc'[u] = "posting"
    BY <2>1, <2>2, <2>4 DEF ClaimInv
  <2>6. PostedOnce'
    BY <2>1, <2>3 DEF ClaimInv, PostedOnce
  <2> QED
    BY <2>1, <2>2, <2>5, <2>6 DEF ClaimInv
<1>5. ASSUME NEW t \in Task, End(t)
      PROVE  ClaimInv'
  <2>1. /\ pc[t] \in {"fetch", "posting"} /\ posts' = posts
        /\ inFlight' = inFlight \ {UrlOf[t]}
        /\ posted \subseteq posted'
    BY <1>5 DEF End
  <2>2. waiters # <<>> => Head(waiters) \in Queued
    BY LineFacts DEF SlotInv, LineInv, Queued
  <2>3. /\ Claimed' = Claimed \ {t} /\ t \in Claimed
        /\ \A u \in Task : u # t /\ pc[u] = "posting" => pc'[u] = "posting"
    BY <1>0, <1>5, <2>1, <2>2 DEF End, Release, Goto, Claimed, Queued
  <2>4. \A u \in Claimed' : UrlOf[u] # UrlOf[t]
    BY <2>3 DEF ClaimInv
  <2> QED
    BY <2>1, <2>3, <2>4 DEF ClaimInv, PostedOnce
<1>6. CASE Answer
  <2>1. UNCHANGED <<inFlight, posted, posts>>
    BY <1>6 DEF Answer, sets
  <2>2. PICK n \in Nat : SetMaxParallel(n)
    <3>1. refresh.asks \in Server /\ maxParallel \in Nat
      BY <1>6 DEF Answer, SlotInv, SlotTypes
    <3>2. JobsOf[refresh.asks] \in Nat
      BY <3>1, ExtensionBounds
    <3> QED
      BY <1>6, <3>1, <3>2 DEF Answer
  <2>3. PICK now \in SUBSET Queued :
          pc' = [t \in Task |-> IF t \in now THEN "fetch"
                                ELSE IF pc[t] = "refresh" THEN "acquire" ELSE pc[t]]
    <3> DEFINE more == CHOOSE m \in 0 .. Len(waiters) :
                          /\ m = Len(waiters) \/ active + m >= n
                          /\ \A k \in 0 .. m - 1 : active + k < n
               now  == {waiters[i] : i \in 1 .. more}
    <3>1. now \in SUBSET Queued
      <4>1. Len(waiters) \in Nat /\ more \in 0 .. Len(waiters)
        BY <2>2, LineFacts, LoopEnds
      <4> HIDE DEF more
      <4> QED
        BY <4>1, LineFacts DEF Queued
    <3>2. pc' = [t \in Task |-> IF t \in now THEN "fetch"
                                ELSE IF pc[t] = "refresh" THEN "acquire" ELSE pc[t]]
      BY <2>2 DEF SetMaxParallel
    <3> HIDE DEF now
    <3> QED
      BY <3>1, <3>2
  <2> QED
    BY <1>0, <2>1, <2>3, NothingClaimed DEF Claimed, Queued
<1>7. CASE ChangeSettings \/ OnChanged \/ UNCHANGED vars
  <2>1. UNCHANGED <<inFlight, posted, posts, pc>>
    BY <1>7 DEF ChangeSettings, OnChanged, vars, sets
  <2> QED
    BY <2>1, NothingClaimed DEF Claimed
<1>8. CASE WorkerEnds
  <2>1. posts' = {} /\ Claimed' = {}
    BY <1>8 DEF WorkerEnds, Claimed
  <2> QED
    BY <2>1 DEF ClaimInv, PostedOnce
<1> QED
  BY <1>1, <1>2, <1>3, <1>4, <1>5, <1>6, <1>7, <1>8 DEF Next, Work

(* A URL several frames show is posted once while the worker lives,        *)
(* however many tasks carry it, as a URL or as bytes, and in whatever      *)
(* order they overlap.                                                     *)
THEOREM NeverPostedTwice == Spec => []PostedOnce
<1>1. Init => ClaimInv
  BY DEF Init, Fresh, ClaimInv, Claimed, PostedOnce
<1>2. SlotInv /\ ClaimInv /\ [Next]_vars => ClaimInv'
  BY PostsStep
<1>3. ClaimInv => PostedOnce
  BY DEF ClaimInv
<1> QED
  BY <1>1, <1>2, <1>3, SlotInvariant, PTL DEF Spec
=============================================================================
