-------------------------- MODULE HttpClientProofs --------------------------
(* What concurrent callers of HttpClient.send may count on, for every      *)
(* number of callers, capacity, rate, budget and scope.                    *)
EXTENDS WireRate, TokenBucketProofs, FiniteSetTheorems, SequenceTheorems

-----------------------------------------------------------------------------
(* The inductive invariant.                                                *)

\* The queue lists the queued tasks, each once.
QueueOK ==
    /\ \A i \in DOMAIN queue : pc[queue[i]] = "queued"
    /\ \A i, j \in DOMAIN queue : queue[i] = queue[j] => i = j
    /\ \A s \in Senders : pc[s] = "queued" => \E i \in DOMAIN queue : queue[i] = s

\* What a call carries was checked by send(), or by the redirect it followed.
CarriedInScope ==
    \A s \in Senders :
        /\ pc[s] \in {"asleep", "queued", "granted"} =>
              /\ request[s] \in Requests
              /\ chain[s] = <<>>
              /\ Check(request[s].url, request[s].method)
        /\ pc[s] = "wire" =>
              /\ request[s] \in Requests
              /\ Len(chain[s]) <= MaxRedirects
              /\ Check(request[s].url, "GET")
              /\ chain[s] = <<>> => Check(request[s].url, request[s].method)
        /\ pc[s] \in {"idle", "dead"} => chain[s] = <<>>

\* Every permit is free or held.
PermitSum == permits + Cardinality(Holders) = Capacity

NoIdlePermit == permits > 0 => queue = <<>>

Inv == TypeOK /\ QueueOK /\ CarriedInScope /\ PermitSum /\ NoIdlePermit

-----------------------------------------------------------------------------
(* Lemmas about the operators of the model.                                *)

\* Removing one element of a sequence closes the gap.
LEMMA RemoveAtFact ==
    ASSUME NEW S, NEW q \in Seq(S), NEW i \in 1..Len(q)
    PROVE  /\ RemoveAt(q, i) \in Seq(S)
           /\ Len(RemoveAt(q, i)) = Len(q) - 1
           /\ \A j \in 1..(Len(q) - 1) :
                 RemoveAt(q, i)[j] = IF j < i THEN q[j] ELSE q[j + 1]
<1> DEFINE front == SubSeq(q, 1, i - 1)
           back  == SubSeq(q, i + 1, Len(q))
<1>1. Len(q) \in Nat /\ i \in Nat /\ 1 <= i /\ i <= Len(q)
  BY LenProperties
<1>2. /\ front \in Seq(S) /\ Len(front) = i - 1
      /\ \A j \in 1..(i - 1) : front[j] = q[j]
  BY <1>1
<1>3. /\ back \in Seq(S) /\ Len(back) = Len(q) - i
      /\ \A j \in 1..(Len(q) - i) : back[j] = q[i + j]
  BY <1>1
<1>4. /\ front \o back \in Seq(S)
      /\ Len(front \o back) = Len(front) + Len(back)
      /\ \A j \in 1..(Len(front) + Len(back)) :
            (front \o back)[j] = IF j <= Len(front) THEN front[j] ELSE back[j - Len(front)]
  <2> HIDE DEF front, back
  <2> QED
    BY <1>2, <1>3, ConcatProperties
<1>5. RemoveAt(q, i) = front \o back
  BY DEF RemoveAt
<1> HIDE DEF front, back
<1>6. ASSUME NEW j \in 1..(Len(q) - 1)
      PROVE  RemoveAt(q, i)[j] = IF j < i THEN q[j] ELSE q[j + 1]
  <2>1. CASE j < i
    BY <1>1, <1>2, <1>3, <1>4, <1>5, <2>1
  <2>2. CASE i <= j
    <3>1. j - (i - 1) \in 1..(Len(q) - i) /\ ~ (j <= i - 1)
      BY <1>1, <2>2
    <3>2. back[j - (i - 1)] = q[i + (j - (i - 1))]
      BY <1>3, <3>1
    <3>3. i + (j - (i - 1)) = j + 1
      BY <1>1
    <3> QED
      BY <1>1, <1>2, <1>3, <1>4, <1>5, <2>2, <3>1, <3>2, <3>3
  <2> QED
    BY <1>1, <2>1, <2>2
<1>7. RemoveAt(q, i) \in Seq(S)
  BY <1>4, <1>5
<1>8. Len(RemoveAt(q, i)) = Len(q) - 1
  BY <1>1, <1>2, <1>3, <1>4, <1>5
<1> QED
  BY <1>6, <1>7, <1>8

\* A request in scope with any method is in scope as a GET.
LEMMA CheckAsGet ==
    ASSUME NEW url, NEW method, Check(url, method)
    PROVE  Check(url, "GET")
BY DEF Check, MethodPermitted, MutatingMethods

\* The redirect check covers the hop that was appended last.
LEMMA ChainCheckCoversLast ==
    ASSUME NEW original, NEW hops \in Seq(Urls), NEW url \in Urls,
           CheckRedirectChain(original, Append(hops, url))
    PROVE  Check(url, "GET")
BY DEF CheckRedirectChain

\* Only s changes the request it carries.
Touched(s) == \A t \in Senders \ {s} : request'[t] = request[t] /\ chain'[t] = chain[t]

-----------------------------------------------------------------------------
(* What a release, a meeting with the semaphore and a cancellation do.     *)

LEMMA ReleaseEffect ==
    ASSUME TypeOK, QueueOK, permits < Capacity,
           NEW s \in Senders, pc[s] \in {"granted", "wire"},
           NEW place \in {"idle", "dead"}, Release(s, place)
    PROVE  /\ pc' \in [Senders -> Places]
           /\ request' \in [Senders -> Requests \cup {NoRequest}]
           /\ chain' \in [Senders -> Seq(Urls)]
           /\ rest' = rest
           /\ permits' \in 0..Capacity
           /\ queue' \in Seq(Senders)
           /\ pc'[s] = place /\ chain'[s] = <<>> /\ Touched(s)
           /\ \/ /\ queue = <<>> /\ queue' = <<>> /\ permits' = permits + 1
                 /\ \A t \in Senders \ {s} : pc'[t] = pc[t]
              \/ /\ queue # <<>> /\ permits' = permits
                 /\ pc[Head(queue)] = "queued" /\ Head(queue) \in Senders \ {s}
                 /\ queue' = Tail(queue)
                 /\ pc'[Head(queue)] = "granted"
                 /\ \A t \in Senders \ {s, Head(queue)} : pc'[t] = pc[t]
<1>1. CASE queue = <<>>
  <2>1. permits' = permits + 1 /\ queue' = <<>> /\ pc' = [pc EXCEPT ![s] = place]
    BY <1>1 DEF Release
  <2> QED
    BY <1>1, <2>1, BucketAssumption DEF Release, TypeOK, Places, Touched
<1>2. CASE queue # <<>>
  <2>1. /\ permits' = permits /\ queue' = Tail(queue)
        /\ pc' = [pc EXCEPT ![s] = place, ![Head(queue)] = "granted"]
    BY <1>2 DEF Release
  <2>2. /\ Head(queue) \in Senders /\ Tail(queue) \in Seq(Senders)
        /\ Head(queue) = queue[1] /\ 1 \in DOMAIN queue
    BY <1>2 DEF TypeOK
  <2>3. pc[Head(queue)] = "queued"
    BY <2>2 DEF QueueOK
  <2>4. Head(queue) # s
    BY <2>3
  <2>5. /\ pc' \in [Senders -> Places] /\ pc'[s] = place
        /\ pc'[Head(queue)] = "granted"
        /\ \A t \in Senders \ {s, Head(queue)} : pc'[t] = pc[t]
    BY <2>1, <2>2, <2>4 DEF TypeOK, Places
  <2>6. /\ request' \in [Senders -> Requests \cup {NoRequest}]
        /\ chain' \in [Senders -> Seq(Urls)] /\ chain'[s] = <<>>
        /\ rest' = rest /\ Touched(s)
    BY DEF Release, TypeOK, Touched
  <2>7. permits' \in 0..Capacity /\ queue' \in Seq(Senders)
    BY <2>1, <2>2 DEF TypeOK
  <2> QED
    BY <1>2, <2>1, <2>2, <2>3, <2>4, <2>5, <2>6, <2>7
<1> QED
  BY <1>1, <1>2

LEMMA ReleaseQueue ==
    ASSUME TypeOK, QueueOK, permits < Capacity,
           NEW s \in Senders, pc[s] \in {"granted", "wire"},
           NEW place \in {"idle", "dead"}, Release(s, place)
    PROVE  QueueOK'
<1>1. CASE queue = <<>>
  <2>1. queue' = <<>> /\ pc'[s] = place /\ \A t \in Senders \ {s} : pc'[t] = pc[t]
    BY <1>1, ReleaseEffect
  <2> QED
    BY <1>1, <2>1 DEF QueueOK
<1>2. CASE queue # <<>>
  <2>1. /\ queue' = Tail(queue) /\ pc'[s] = place
        /\ Head(queue) \in Senders \ {s} /\ pc'[Head(queue)] = "granted"
        /\ \A t \in Senders \ {s, Head(queue)} : pc'[t] = pc[t]
    BY <1>2, ReleaseEffect
  <2>2. /\ queue \in Seq(Senders) /\ Len(queue) \in Nat /\ Len(queue) >= 1
        /\ DOMAIN queue = 1..Len(queue) /\ Head(queue) = queue[1]
        /\ DOMAIN Tail(queue) = 1..(Len(queue) - 1)
        /\ \A i \in 1..(Len(queue) - 1) : Tail(queue)[i] = queue[i + 1]
    BY <1>2 DEF TypeOK
  <2>3. ASSUME NEW i \in DOMAIN queue'
        PROVE  /\ i + 1 \in DOMAIN queue /\ queue'[i] = queue[i + 1]
               /\ queue'[i] \in Senders \ {s, Head(queue)}
    <3>1. i \in 1..(Len(queue) - 1) /\ i + 1 \in 1..Len(queue) /\ i + 1 # 1
      BY <2>1, <2>2
    <3>2. queue'[i] = queue[i + 1] /\ queue[i + 1] \in Senders
      BY <2>1, <2>2, <3>1
    <3>3. queue[i + 1] # queue[1]
      BY <2>2, <3>1 DEF QueueOK
    <3>4. pc[queue[i + 1]] = "queued"
      BY <2>2, <3>1 DEF QueueOK
    <3> QED
      BY <2>2, <3>1, <3>2, <3>3, <3>4
  <2>4. \A i \in DOMAIN queue' : pc'[queue'[i]] = "queued"
    BY <2>1, <2>3 DEF QueueOK
  <2>5. ASSUME NEW i \in DOMAIN queue', NEW j \in DOMAIN queue', queue'[i] = queue'[j]
        PROVE  i = j
    <3>1. i + 1 = j + 1
      BY <2>3, <2>5 DEF QueueOK
    <3>2. i \in Int /\ j \in Int
      BY <2>1, <2>2
    <3> QED
      BY <3>1, <3>2
  <2>6. ASSUME NEW t \in Senders, pc'[t] = "queued"
        PROVE  \E i \in DOMAIN queue' : queue'[i] = t
    <3>1. t # s /\ t # Head(queue) /\ pc[t] = "queued"
      BY <2>1, <2>6
    <3>2. PICK k \in DOMAIN queue : queue[k] = t
      BY <3>1 DEF QueueOK
    <3>3. k # 1 /\ k - 1 \in 1..(Len(queue) - 1) /\ (k - 1) + 1 = k
      BY <2>2, <3>1, <3>2
    <3>4. queue'[k - 1] = t /\ k - 1 \in DOMAIN queue'
      BY <2>1, <2>2, <3>2, <3>3
    <3> QED
      BY <3>4
  <2> QED
    BY <2>4, <2>5, <2>6 DEF QueueOK
<1> QED
  BY <1>1, <1>2

\* Where a call may be after it met the bucket, and what it took.
OnWire(s, r) ==
    /\ pc'[s] = "wire" /\ request'[s] = r /\ chain'[s] = chain[s]
    /\ permits > 0 /\ permits' = permits - 1 /\ count' = count + 1 /\ queue' = queue

ClientGone(s) ==
    /\ pc'[s] = "idle" /\ chain'[s] = <<>>
    /\ permits' = permits /\ count' = count + 1 /\ queue' = queue

Queued(s, r) ==
    /\ pc'[s] = "queued" /\ request'[s] = r /\ chain'[s] = chain[s]
    /\ permits = 0 /\ permits' = permits /\ count' = count /\ queue' = Append(queue, s)

Slept(s, r) ==
    /\ pc'[s] = "asleep" /\ request'[s] = r /\ chain'[s] = chain[s]
    /\ permits' = permits /\ count' = count /\ queue' = queue

LEMMA MeetEffect ==
    ASSUME TypeOK, NEW s \in Senders, NEW r \in Requests, MeetBucket(s, r)
    PROVE  /\ pc' \in [Senders -> Places]
           /\ request' \in [Senders -> Requests \cup {NoRequest}]
           /\ chain' \in [Senders -> Seq(Urls)]
           /\ rest' \in [Senders -> 0..Unit]
           /\ count' \in Nat /\ permits' \in 0..Capacity
           /\ queue' \in Seq(Senders)
           /\ BucketTypeOK'
           /\ Touched(s) /\ \A t \in Senders \ {s} : pc'[t] = pc[t]
           /\ OnWire(s, r) \/ ClientGone(s) \/ Queued(s, r) \/ Slept(s, r)
<1>0. Unit \in Nat \ {0} /\ Capacity \in Nat \ {0} /\ Refilled \in 0..Full /\ Full \in Nat
  BY FullFact, BucketAssumption, RefilledRange DEF TypeOK
<1>1. BucketTypeOK'
  <2>1. TakeToken \/ MissToken
    BY DEF MeetBucket
  <2> QED
    BY <2>1, BucketStepType DEF BucketNext, TypeOK
<1>2. CASE MissToken /\ Carry(s, r, "asleep", WaitAfterMiss)
            /\ UNCHANGED <<count, permits, queue>>
  <2>1. WaitAfterMiss \in 0..Unit
    BY <1>0, <1>2 DEF MissToken, WaitAfterMiss
  <2>2. Slept(s, r)
    BY <1>2 DEF Carry, Slept, TypeOK
  <2> QED
    BY <1>1, <1>2, <2>1, <2>2 DEF Carry, TypeOK, Touched, Places
<1>3. CASE MeetSemaphore(s, r)
  <2>1. CASE /\ permits > 0 /\ permits' = permits - 1 /\ count' = count + 1
             /\ Carry(s, r, "wire", 0) /\ UNCHANGED queue
    <3>1. OnWire(s, r)
      BY <2>1 DEF Carry, OnWire, TypeOK
    <3> QED
      BY <1>0, <1>1, <2>1, <3>1 DEF Carry, TypeOK, Touched, Places
  <2>2. CASE count' = count + 1 /\ Forget(s, "idle") /\ UNCHANGED <<permits, queue>>
    <3>1. ClientGone(s)
      BY <2>2 DEF Forget, ClientGone, TypeOK
    <3> QED
      BY <1>0, <1>1, <2>2, <3>1 DEF Forget, TypeOK, Touched, Places
  <2>3. CASE /\ permits = 0 /\ queue' = Append(queue, s)
             /\ Carry(s, r, "queued", 0) /\ UNCHANGED <<count, permits>>
    <3>1. Queued(s, r)
      BY <2>3 DEF Carry, Queued, TypeOK
    <3> QED
      BY <1>0, <1>1, <2>3, <3>1 DEF Carry, TypeOK, Touched, Places
  <2> QED
    BY <1>3, <2>1, <2>2, <2>3 DEF MeetSemaphore
<1> QED
  BY <1>2, <1>3 DEF MeetBucket

\* Joining the end of the queue keeps it in order.
LEMMA MeetQueue ==
    ASSUME TypeOK, QueueOK, NEW s \in Senders, pc[s] \in {"idle", "asleep"},
           NEW r \in Requests, MeetBucket(s, r)
    PROVE  QueueOK'
<1>1. /\ queue \in Seq(Senders) /\ Len(queue) \in Nat /\ DOMAIN queue = 1..Len(queue)
      /\ \A i \in DOMAIN queue : queue[i] \in Senders /\ queue[i] # s
  BY DEF TypeOK, QueueOK
<1>2. \A t \in Senders \ {s} : pc'[t] = pc[t]
  BY MeetEffect
<1>3. CASE Queued(s, r)
  <2>1. /\ queue' = Append(queue, s) /\ pc'[s] = "queued"
        /\ DOMAIN queue' = 1..(Len(queue) + 1)
        /\ \A i \in DOMAIN queue : i \in DOMAIN queue' /\ queue'[i] = queue[i]
        /\ queue'[Len(queue) + 1] = s /\ Len(queue) + 1 \in DOMAIN queue'
        /\ \A i \in DOMAIN queue' : i = Len(queue) + 1 \/ i \in DOMAIN queue
    BY <1>1, <1>3 DEF Queued
  <2> QED
    BY <1>1, <1>2, <2>1 DEF QueueOK
<1>4. CASE ~ Queued(s, r)
  <2>1. queue' = queue /\ pc'[s] # "queued"
    BY <1>4, MeetEffect DEF OnWire, ClientGone, Slept
  <2> QED
    BY <1>1, <1>2, <2>1 DEF QueueOK
<1> QED
  BY <1>3, <1>4

\* A task cancelled in the queue leaves it.
LeaveQueue(s) ==
    /\ pc[s] = "queued" /\ UNCHANGED permits /\ Forget(s, "dead")
    /\ \E i \in DOMAIN queue : queue[i] = s /\ queue' = RemoveAt(queue, i)

LEMMA LeaveQueueEffect ==
    ASSUME TypeOK, QueueOK, NEW s \in Senders, LeaveQueue(s)
    PROVE  queue' \in Seq(Senders) /\ QueueOK' /\ queue # <<>>
<1>1. PICK k \in DOMAIN queue : queue[k] = s /\ queue' = RemoveAt(queue, k)
  BY DEF LeaveQueue
<1>2. /\ queue \in Seq(Senders) /\ Len(queue) \in Nat /\ DOMAIN queue = 1..Len(queue)
      /\ k \in 1..Len(queue)
  BY <1>1 DEF TypeOK
<1>3. /\ queue' \in Seq(Senders) /\ Len(queue') = Len(queue) - 1
      /\ \A j \in 1..(Len(queue) - 1) : queue'[j] = IF j < k THEN queue[j] ELSE queue[j + 1]
  BY <1>1, <1>2, RemoveAtFact
<1>4. DOMAIN queue' = 1..(Len(queue) - 1)
  BY <1>3
<1> DEFINE old(j) == IF j < k THEN j ELSE j + 1
<1>5. ASSUME NEW j \in DOMAIN queue'
      PROVE  j \in Int /\ old(j) \in DOMAIN queue /\ old(j) # k /\ queue'[j] = queue[old(j)]
  BY <1>2, <1>3, <1>4
<1>6. pc'[s] = "dead" /\ \A t \in Senders \ {s} : pc'[t] = pc[t]
  BY DEF LeaveQueue, Forget, TypeOK
<1>7. ASSUME NEW j \in DOMAIN queue' PROVE pc'[queue'[j]] = "queued"
  <2>1. queue[old(j)] # s /\ queue[old(j)] \in Senders /\ pc[queue[old(j)]] = "queued"
    BY <1>1, <1>2, <1>5 DEF QueueOK
  <2> QED
    BY <1>5, <1>6, <2>1
<1>8. ASSUME NEW i \in DOMAIN queue', NEW j \in DOMAIN queue', queue'[i] = queue'[j]
      PROVE  i = j
  <2>1. old(i) = old(j)
    BY <1>5, <1>8 DEF QueueOK
  <2> QED
    BY <1>2, <1>5, <2>1
<1>9. ASSUME NEW t \in Senders, pc'[t] = "queued"
      PROVE  \E j \in DOMAIN queue' : queue'[j] = t
  <2>1. t # s /\ pc[t] = "queued"
    BY <1>6, <1>9
  <2>2. PICK m \in DOMAIN queue : queue[m] = t
    BY <2>1 DEF QueueOK
  <2>3. m # k /\ m \in 1..Len(queue)
    BY <1>1, <1>2, <2>1, <2>2
  <2>4. CASE m < k
    BY <1>2, <1>3, <1>4, <2>2, <2>3, <2>4
  <2>5. CASE m > k
    <3>1. m - 1 \in 1..(Len(queue) - 1) /\ ~ (m - 1 < k) /\ (m - 1) + 1 = m
      BY <1>2, <2>3, <2>5
    <3> QED
      BY <1>3, <1>4, <2>2, <3>1
  <2> QED
    BY <1>2, <2>3, <2>4, <2>5
<1> HIDE DEF old
<1>10. queue # <<>>
  BY <1>2
<1> QED
  BY <1>3, <1>7, <1>8, <1>9, <1>10 DEF QueueOK

\* Whoever holds a permit leaves at most Capacity - 1 of them free.
LEMMA HolderTakesPermit ==
    ASSUME TypeOK, PermitSum, NEW s \in Senders, pc[s] \in {"granted", "wire"}
    PROVE  permits < Capacity
<1>1. IsFiniteSet(Holders) /\ s \in Holders
  BY SendersAssumption, FS_Subset DEF Holders, At
<1>2. Cardinality(Holders) \in Nat /\ Cardinality(Holders) # 0
  BY <1>1, FS_CardinalityType, FS_EmptySet
<1> QED
  BY <1>2, BucketAssumption DEF PermitSum, TypeOK

-----------------------------------------------------------------------------
(* Types.                                                                  *)

LEMMA TypeStep == Inv /\ [Next]_vars => TypeOK'
<1> SUFFICES ASSUME Inv, [Next]_vars PROVE TypeOK'
  OBVIOUS
<1> USE DEF Inv
<1>0. Unit \in Nat \ {0} /\ Capacity \in Nat \ {0}
  BY BucketAssumption
<1>1. ASSUME Open \/ Close \/ Interrupt PROVE TypeOK'
  BY <1>1 DEF Open, Close, Interrupt, taskVars, bucketVars, TypeOK, BucketTypeOK, Full
<1>2. ASSUME Tick PROVE TypeOK'
  <2>1. BucketTypeOK'
    BY <1>2, BucketStepType DEF Tick, BucketNext, TypeOK
  <2>2. rest' \in [Senders -> 0..Unit]
    BY <1>0, <1>2 DEF Tick, TypeOK
  <2> QED
    BY <1>2, <2>1, <2>2 DEF Tick, TypeOK
<1>3. ASSUME NEW s \in Senders, NEW r \in Requests, Send(s, r) PROVE TypeOK'
  BY <1>3, MeetEffect DEF Send, TypeOK
<1>4. ASSUME NEW s \in Senders, Wake(s) PROVE TypeOK'
  <2>1. request[s] \in Requests /\ MeetBucket(s, request[s])
    BY <1>4 DEF Wake, CarriedInScope
  <2> QED
    BY <1>4, <2>1, MeetEffect DEF Wake, TypeOK
<1>5. ASSUME NEW s \in Senders, pc[s] \in {"granted", "wire"}, NEW place \in {"idle", "dead"},
             Release(s, place), UNCHANGED <<client, interrupted, bucketVars>>,
             count' \in Nat
      PROVE  TypeOK'
  <2>1. permits < Capacity
    BY <1>5, HolderTakesPermit
  <2>2. BucketTypeOK'
    BY <1>5 DEF bucketVars, TypeOK, BucketTypeOK, Full
  <2> QED
    BY <1>5, <2>1, <2>2, ReleaseEffect DEF TypeOK
<1>6. ASSUME NEW s \in Senders, Enter(s) PROVE TypeOK'
  <2>0. /\ pc[s] \in {"granted", "wire"} /\ count' \in Nat
        /\ UNCHANGED <<client, interrupted, bucketVars>>
    BY <1>6 DEF Enter, TypeOK
  <2>1. CASE Release(s, "idle")
    BY <1>5, <2>0, <2>1
  <2>2. CASE pc' = [pc EXCEPT ![s] = "wire"] /\ UNCHANGED <<request, chain, rest, permits, queue>>
    BY <1>6, <2>2 DEF Enter, TypeOK, Places, bucketVars, BucketTypeOK, Full
  <2> QED
    BY <1>6, <2>1, <2>2 DEF Enter
<1>7. ASSUME NEW s \in Senders, Answer(s) PROVE TypeOK'
  BY <1>5, <1>7 DEF Answer, TypeOK
<1>8. ASSUME NEW s \in Senders, NEW url \in Urls, RedirectRefused(s, url) PROVE TypeOK'
  BY <1>5, <1>8 DEF RedirectRefused, TypeOK
<1>9. ASSUME NEW s \in Senders, NEW url \in Urls, NEW rewrite \in BOOLEAN,
             Redirect(s, url, rewrite)
      PROVE  TypeOK'
  <2>1. request[s] \in Requests
    BY <1>9 DEF Redirect, CarriedInScope
  <2>2. NextMethod(request[s].method, rewrite) \in Methods
    BY <2>1, MethodsAssumption DEF NextMethod, Requests
  <2>3. request' \in [Senders -> Requests \cup {NoRequest}]
    <3>1. [url |-> url, method |-> NextMethod(request[s].method, rewrite)] \in Requests
      BY <2>2 DEF Requests
    <3> QED
      BY <1>9, <3>1 DEF Redirect, TypeOK
  <2>4. chain' \in [Senders -> Seq(Urls)]
    BY <1>9 DEF Redirect, TypeOK
  <2>5. /\ client' \in {"unopened", "open", "closed"} /\ interrupted' \in BOOLEAN
        /\ pc' \in [Senders -> Places] /\ rest' \in [Senders -> 0..Unit]
        /\ count' \in Nat /\ permits' \in 0..Capacity /\ queue' \in Seq(Senders)
    BY <1>9 DEF Redirect, TypeOK
  <2>6. BucketTypeOK'
    BY <1>9 DEF Redirect, TypeOK, bucketVars, BucketTypeOK, Full
  <2> QED
    BY <2>3, <2>4, <2>5, <2>6 DEF TypeOK
<1>10. ASSUME NEW s \in Senders, Cancel(s) PROVE TypeOK'
  <2>1. CASE pc[s] \in {"idle", "asleep"} /\ Forget(s, "dead") /\ UNCHANGED <<permits, queue>>
    BY <1>0, <1>10, <2>1 DEF Cancel, Forget, TypeOK, Places, bucketVars, BucketTypeOK, Full
  <2>2. CASE LeaveQueue(s)
    <3>1. queue' \in Seq(Senders)
      BY <2>2, LeaveQueueEffect
    <3>2. /\ pc' \in [Senders -> Places] /\ rest' \in [Senders -> 0..Unit]
          /\ request' \in [Senders -> Requests \cup {NoRequest}]
          /\ chain' \in [Senders -> Seq(Urls)]
      BY <1>0, <2>2 DEF LeaveQueue, Forget, TypeOK, Places
    <3>3. /\ client' \in {"unopened", "open", "closed"} /\ interrupted' \in BOOLEAN
          /\ count' \in Nat /\ permits' \in 0..Capacity
      BY <1>10, <2>2 DEF LeaveQueue, Cancel, TypeOK
    <3>4. BucketTypeOK'
      BY <1>10 DEF Cancel, TypeOK, bucketVars, BucketTypeOK, Full
    <3> QED
      BY <3>1, <3>2, <3>3, <3>4 DEF TypeOK
  <2>3. CASE pc[s] \in {"granted", "wire"} /\ Release(s, "dead")
    BY <1>5, <1>10, <2>3 DEF Cancel, TypeOK
  <2> QED
    BY <1>10, <2>1, <2>2, <2>3 DEF Cancel, LeaveQueue
<1>11. CASE UNCHANGED vars
  BY <1>11 DEF vars, taskVars, bucketVars, TypeOK, BucketTypeOK, Full
<1> QED
  BY <1>1, <1>2, <1>3, <1>4, <1>6, <1>7, <1>8, <1>9, <1>10, <1>11 DEF Next, Step, Respond

-----------------------------------------------------------------------------
(* The queue.                                                              *)

LEMMA QueueStep == Inv /\ [Next]_vars => QueueOK'
<1> SUFFICES ASSUME Inv, [Next]_vars PROVE QueueOK'
  OBVIOUS
<1> USE DEF Inv
<1>1. ASSUME UNCHANGED <<pc, queue>> PROVE QueueOK'
  BY <1>1 DEF QueueOK
<1>2. ASSUME NEW s \in Senders, NEW r \in Requests, Send(s, r) PROVE QueueOK'
  BY <1>2, MeetQueue DEF Send
<1>3. ASSUME NEW s \in Senders, Wake(s) PROVE QueueOK'
  <2>1. request[s] \in Requests
    BY <1>3 DEF Wake, CarriedInScope
  <2> QED
    BY <1>3, <2>1, MeetQueue DEF Wake
<1>4. ASSUME NEW s \in Senders, pc[s] \in {"granted", "wire"},
             NEW place \in {"idle", "dead"}, Release(s, place)
      PROVE  QueueOK'
  <2>1. permits < Capacity
    BY <1>4, HolderTakesPermit
  <2> QED
    BY <1>4, <2>1, ReleaseQueue
\* A task that moves between two places outside the queue.
<1>5. ASSUME NEW s \in Senders, NEW place, pc[s] # "queued", place # "queued",
             pc' = [pc EXCEPT ![s] = place], UNCHANGED queue
      PROVE  QueueOK'
  <2>1. /\ pc'[s] = place /\ \A t \in Senders \ {s} : pc'[t] = pc[t]
        /\ \A i \in DOMAIN queue : queue[i] \in Senders \ {s}
    BY <1>5 DEF TypeOK, QueueOK
  <2> QED
    BY <1>5, <2>1 DEF QueueOK
<1>6. ASSUME NEW s \in Senders, Enter(s) PROVE QueueOK'
  <2>1. pc[s] = "granted"
    BY <1>6 DEF Enter
  <2>2. CASE Release(s, "idle")
    BY <1>4, <2>1, <2>2
  <2>3. CASE pc' = [pc EXCEPT ![s] = "wire"] /\ UNCHANGED <<request, chain, rest, permits, queue>>
    BY <1>5, <2>1, <2>3
  <2> QED
    BY <1>6, <2>2, <2>3 DEF Enter
<1>7. ASSUME NEW s \in Senders, Cancel(s) PROVE QueueOK'
  <2>1. CASE pc[s] \in {"idle", "asleep"} /\ Forget(s, "dead") /\ UNCHANGED <<permits, queue>>
    BY <1>5, <2>1 DEF Forget
  <2>2. CASE LeaveQueue(s)
    BY <2>2, LeaveQueueEffect
  <2>3. CASE pc[s] \in {"granted", "wire"} /\ Release(s, "dead")
    BY <1>4, <2>3
  <2> QED
    BY <1>7, <2>1, <2>2, <2>3 DEF Cancel, LeaveQueue
<1>8. ASSUME NEW s \in Senders, Respond(s) PROVE QueueOK'
  <2>1. ASSUME Answer(s) PROVE QueueOK'
    BY <1>4, <2>1 DEF Answer
  <2>2. ASSUME NEW url \in Urls, RedirectRefused(s, url) PROVE QueueOK'
    BY <1>4, <2>2 DEF RedirectRefused
  <2>3. ASSUME NEW url \in Urls, NEW rewrite \in BOOLEAN, Redirect(s, url, rewrite)
        PROVE  QueueOK'
    BY <1>1, <2>3 DEF Redirect
  <2> QED
    BY <1>8, <2>1, <2>2, <2>3 DEF Respond
<1>9. ASSUME Open \/ Close \/ Interrupt \/ Tick \/ UNCHANGED vars PROVE QueueOK'
  BY <1>1, <1>9 DEF Open, Close, Interrupt, Tick, vars, taskVars
<1> QED
  BY <1>2, <1>3, <1>6, <1>7, <1>8, <1>9 DEF Next, Step

-----------------------------------------------------------------------------
(* The scope of what is carried.                                           *)

\* A task that a step does not touch, or only resumes, carries what it did.
LEMMA UntouchedScope ==
    ASSUME CarriedInScope, NEW t \in Senders,
           request'[t] = request[t], chain'[t] = chain[t],
           pc'[t] = pc[t] \/ (pc[t] = "queued" /\ pc'[t] = "granted")
                          \/ (pc[t] = "granted" /\ pc'[t] = "wire")
    PROVE  /\ pc'[t] \in {"asleep", "queued", "granted"} =>
                 /\ request'[t] \in Requests
                 /\ chain'[t] = <<>>
                 /\ Check(request'[t].url, request'[t].method)
           /\ pc'[t] = "wire" =>
                 /\ request'[t] \in Requests
                 /\ Len(chain'[t]) <= MaxRedirects
                 /\ Check(request'[t].url, "GET")
                 /\ chain'[t] = <<>> => Check(request'[t].url, request'[t].method)
           /\ pc'[t] \in {"idle", "dead"} => chain'[t] = <<>>
<1>1. CASE pc[t] = "granted" /\ pc'[t] = "wire"
  <2>1. request[t] \in Requests /\ chain[t] = <<>> /\ Check(request[t].url, request[t].method)
    BY <1>1 DEF CarriedInScope
  <2>2. Check(request[t].url, "GET")
    BY <2>1, CheckAsGet
  <2>3. Len(chain'[t]) <= MaxRedirects
    BY <2>1, LimitsAssumption
  <2> QED
    BY <1>1, <2>1, <2>2, <2>3
<1>2. CASE pc[t] = "queued" /\ pc'[t] = "granted"
  BY <1>2 DEF CarriedInScope
<1>3. CASE pc'[t] = pc[t]
  BY <1>3 DEF CarriedInScope
<1> QED
  BY <1>1, <1>2, <1>3

LEMMA ScopeStep == Inv /\ [Next]_vars => CarriedInScope'
<1> SUFFICES ASSUME Inv, [Next]_vars PROVE CarriedInScope'
  OBVIOUS
<1> USE DEF Inv
<1>1. ASSUME UNCHANGED <<pc, request, chain>> PROVE CarriedInScope'
  BY <1>1 DEF CarriedInScope
<1>2. ASSUME NEW s \in Senders, NEW r \in Requests, pc[s] \in {"idle", "asleep"},
             chain[s] = <<>>, Check(r.url, r.method), MeetBucket(s, r)
      PROVE  CarriedInScope'
  <2>1. Touched(s) /\ \A t \in Senders \ {s} : pc'[t] = pc[t]
    BY <1>2, MeetEffect
  <2>2. /\ Check(r.url, "GET") /\ Len(chain[s]) <= MaxRedirects
    BY <1>2, CheckAsGet, LimitsAssumption
  <2>3. OnWire(s, r) \/ ClientGone(s) \/ Queued(s, r) \/ Slept(s, r)
    BY <1>2, MeetEffect
  <2>4. /\ pc'[s] \in {"wire", "idle", "queued", "asleep"}
        /\ chain'[s] = <<>>
        /\ pc'[s] # "idle" => request'[s] = r
    BY <1>2, <2>3 DEF OnWire, ClientGone, Queued, Slept
  <2> QED
    BY <1>2, <2>1, <2>2, <2>4, UntouchedScope DEF CarriedInScope, Touched
<1>3. ASSUME NEW s \in Senders, NEW r \in Requests, Send(s, r) PROVE CarriedInScope'
  BY <1>2, <1>3 DEF Send, CarriedInScope
<1>4. ASSUME NEW s \in Senders, Wake(s) PROVE CarriedInScope'
  <2>1. request[s] \in Requests /\ chain[s] = <<>> /\ Check(request[s].url, request[s].method)
    BY <1>4 DEF Wake, CarriedInScope
  <2> QED
    BY <1>2, <1>4, <2>1 DEF Wake
<1>5. ASSUME NEW s \in Senders, pc[s] \in {"granted", "wire"},
             NEW place \in {"idle", "dead"}, Release(s, place)
      PROVE  CarriedInScope'
  <2>1. permits < Capacity
    BY <1>5, HolderTakesPermit
  <2>2. /\ pc'[s] = place /\ chain'[s] = <<>> /\ Touched(s)
        /\ \A t \in Senders \ {s} :
              pc'[t] = pc[t] \/ (pc[t] = "queued" /\ pc'[t] = "granted")
    BY <1>5, <2>1, ReleaseEffect
  <2> QED
    BY <1>5, <2>2, UntouchedScope DEF CarriedInScope, Touched
<1>6. ASSUME NEW s \in Senders, Enter(s) PROVE CarriedInScope'
  <2>1. pc[s] = "granted"
    BY <1>6 DEF Enter
  <2>2. CASE Release(s, "idle")
    BY <1>5, <2>1, <2>2
  <2>3. CASE pc' = [pc EXCEPT ![s] = "wire"] /\ UNCHANGED <<request, chain, rest, permits, queue>>
    <3>1. \A t \in Senders : pc'[t] = IF t = s THEN "wire" ELSE pc[t]
      BY <2>3 DEF TypeOK
    <3> QED
      BY <2>1, <2>3, <3>1, UntouchedScope DEF CarriedInScope
  <2> QED
    BY <1>6, <2>2, <2>3 DEF Enter
<1>7. ASSUME NEW s \in Senders, Forget(s, "dead") PROVE CarriedInScope'
  <2>1. /\ pc'[s] = "dead" /\ chain'[s] = <<>> /\ Touched(s)
        /\ \A t \in Senders \ {s} : pc'[t] = pc[t]
    BY <1>7 DEF Forget, TypeOK, Touched
  <2> QED
    BY <2>1, UntouchedScope DEF CarriedInScope, Touched
<1>8. ASSUME NEW s \in Senders, Cancel(s) PROVE CarriedInScope'
  BY <1>5, <1>7, <1>8 DEF Cancel
<1>9. ASSUME NEW s \in Senders, NEW url \in Urls, NEW rewrite \in BOOLEAN,
             Redirect(s, url, rewrite)
      PROVE  CarriedInScope'
  <2>1. /\ pc[s] = "wire" /\ request[s] \in Requests /\ chain[s] \in Seq(Urls)
        /\ Len(chain[s]) < MaxRedirects /\ UNCHANGED pc
        /\ CheckRedirectChain(request[s].url, Append(chain[s], url))
    BY <1>9 DEF Redirect, RedirectAllowed, CarriedInScope, TypeOK
  <2>2. Check(url, "GET")
    BY <2>1, ChainCheckCoversLast
  <2>3. NextMethod(request[s].method, rewrite) \in Methods
    BY <2>1, MethodsAssumption DEF NextMethod, Requests
  <2>4. /\ request'[s] = [url |-> url, method |-> NextMethod(request[s].method, rewrite)]
        /\ chain'[s] = Append(chain[s], url)
        /\ Touched(s)
    BY <1>9 DEF Redirect, TypeOK, Touched
  <2>5. request'[s] \in Requests /\ request'[s].url = url
    BY <2>3, <2>4 DEF Requests
  <2>6. chain'[s] # <<>> /\ Len(chain'[s]) <= MaxRedirects
    BY <2>1, <2>4, LimitsAssumption
  <2> QED
    BY <2>1, <2>2, <2>4, <2>5, <2>6, UntouchedScope DEF CarriedInScope, Touched
<1>10. ASSUME NEW s \in Senders, Respond(s) PROVE CarriedInScope'
  <2>1. ASSUME Answer(s) PROVE CarriedInScope'
    BY <1>5, <2>1 DEF Answer
  <2>2. ASSUME NEW url \in Urls, RedirectRefused(s, url) PROVE CarriedInScope'
    BY <1>5, <2>2 DEF RedirectRefused
  <2> QED
    BY <1>9, <1>10, <2>1, <2>2 DEF Respond
<1>11. ASSUME Open \/ Close \/ Interrupt \/ Tick \/ UNCHANGED vars PROVE CarriedInScope'
  BY <1>1, <1>11 DEF Open, Close, Interrupt, Tick, vars, taskVars
<1> QED
  BY <1>3, <1>4, <1>6, <1>8, <1>10, <1>11 DEF Next, Step

-----------------------------------------------------------------------------
(* Permits and budget: how the two counts of tasks move.                   *)

LEMMA CountsAreFinite ==
    /\ IsFiniteSet(Holders) /\ Cardinality(Holders) \in Nat
    /\ IsFiniteSet(Admitted) /\ Cardinality(Admitted) \in Nat
    /\ Cardinality(Admitted) <= Cardinality(Senders)
    /\ Cardinality(Senders) \in Nat
<1>1. Holders \in SUBSET Senders /\ Admitted \in SUBSET Senders
  BY DEF Holders, Admitted, At
<1> QED
  BY <1>1, SendersAssumption, FS_Subset, FS_CardinalityType

\* A release moves the permit to a waiter or frees it, and admits nobody.
LEMMA ReleaseCounts ==
    ASSUME TypeOK, QueueOK, PermitSum, NEW s \in Senders, pc[s] \in {"granted", "wire"},
           NEW place \in {"idle", "dead"}, Release(s, place)
    PROVE  /\ PermitSum'
           /\ Cardinality(Admitted') = Cardinality(Admitted) - (IF pc[s] = "granted" THEN 1 ELSE 0)
<1>1. permits < Capacity
  BY HolderTakesPermit
<1>2. /\ s \in Holders /\ IsFiniteSet(Holders) /\ Cardinality(Holders) \in Nat
      /\ IsFiniteSet(Admitted) /\ Cardinality(Admitted) \in Nat
      /\ permits \in Nat /\ Capacity \in Nat
  BY CountsAreFinite, BucketAssumption DEF Holders, At, TypeOK
<1>3. Admitted' = Admitted \ {s}
  <2>1. CASE queue = <<>>
    <3>1. pc'[s] = place /\ \A t \in Senders \ {s} : pc'[t] = pc[t]
      BY <1>1, <2>1, ReleaseEffect
    <3> QED
      BY <3>1 DEF Admitted, At
  <2>2. CASE queue # <<>>
    <3>1. /\ pc'[s] = place /\ Head(queue) \in Senders \ {s} /\ pc[Head(queue)] = "queued"
          /\ pc'[Head(queue)] = "granted"
          /\ \A t \in Senders \ {s, Head(queue)} : pc'[t] = pc[t]
      BY <1>1, <2>2, ReleaseEffect
    <3> QED
      BY <3>1 DEF Admitted, At
  <2> QED
    BY <2>1, <2>2
<1>4. Cardinality(Admitted') = Cardinality(Admitted) - (IF pc[s] = "granted" THEN 1 ELSE 0)
  <2>1. s \in Admitted <=> pc[s] = "granted"
    BY DEF Admitted, At
  <2>2. Cardinality(Admitted \ {s})
          = IF s \in Admitted THEN Cardinality(Admitted) - 1 ELSE Cardinality(Admitted)
    BY <1>2, FS_RemoveElement
  <2> QED
    BY <1>2, <1>3, <2>1, <2>2
<1>5. CASE queue = <<>>
  <2>1. /\ pc'[s] = place /\ permits' = permits + 1
        /\ \A t \in Senders \ {s} : pc'[t] = pc[t]
    BY <1>1, <1>5, ReleaseEffect
  <2>2. Holders' = Holders \ {s}
    BY <2>1 DEF Holders, At
  <2>3. Cardinality(Holders') = Cardinality(Holders) - 1
    BY <1>2, <2>2, FS_RemoveElement
  <2> QED
    BY <1>2, <1>4, <2>1, <2>3 DEF PermitSum
<1>6. CASE queue # <<>>
  <2>1. /\ pc'[s] = place /\ Head(queue) \in Senders \ {s} /\ pc[Head(queue)] = "queued"
        /\ pc'[Head(queue)] = "granted" /\ permits' = permits
        /\ \A t \in Senders \ {s, Head(queue)} : pc'[t] = pc[t]
    BY <1>1, <1>6, ReleaseEffect
  <2>2. /\ Holders' = (Holders \ {s}) \cup {Head(queue)}
        /\ Head(queue) \notin Holders \ {s}
    BY <2>1 DEF Holders, At
  <2>3. Cardinality(Holders \ {s}) = Cardinality(Holders) - 1 /\ IsFiniteSet(Holders \ {s})
    BY <1>2, FS_RemoveElement
  <2>4. Cardinality((Holders \ {s}) \cup {Head(queue)}) = Cardinality(Holders \ {s}) + 1
    BY <2>2, <2>3, FS_AddElement
  <2>5. Cardinality(Holders') = Cardinality(Holders)
    BY <1>2, <2>2, <2>3, <2>4
  <2> QED
    BY <1>2, <1>4, <2>1, <2>5 DEF PermitSum
<1> QED
  BY <1>5, <1>6

\* A call that meets the bucket and the semaphore takes at most one permit,
\* and is either admitted or counted.
LEMMA MeetCounts ==
    ASSUME TypeOK, PermitSum, NEW s \in Senders, pc[s] \in {"idle", "asleep"},
           NEW r \in Requests, MeetBucket(s, r)
    PROVE  /\ PermitSum'
           /\ \/ Cardinality(Admitted') + count' = Cardinality(Admitted \cup {s}) + count
              \/ Cardinality(Admitted') + count' = Cardinality(Admitted \ {s}) + count + 1
<1>1. /\ IsFiniteSet(Holders) /\ Cardinality(Holders) \in Nat
      /\ IsFiniteSet(Admitted) /\ Cardinality(Admitted) \in Nat
      /\ permits \in Nat /\ Capacity \in Nat /\ count \in Nat
  BY CountsAreFinite, BucketAssumption DEF TypeOK
<1>2. \A t \in Senders \ {s} : pc'[t] = pc[t]
  BY MeetEffect
<1>3. s \notin Holders
  BY DEF Holders, At
<1>4. IsFiniteSet(Admitted \ {s}) /\ Cardinality(Admitted \ {s}) \in Nat
  BY <1>1, FS_RemoveElement, FS_CardinalityType
<1>5. CASE OnWire(s, r)
  <2>1. Holders' = Holders \cup {s} /\ Admitted' = Admitted \ {s}
    BY <1>2, <1>5 DEF OnWire, Holders, Admitted, At
  <2>2. Cardinality(Holders') = Cardinality(Holders) + 1
    BY <1>1, <1>3, <2>1, FS_AddElement
  <2> QED
    BY <1>1, <1>4, <1>5, <2>1, <2>2 DEF OnWire, PermitSum
<1>6. CASE ClientGone(s)
  <2>1. Holders' = Holders /\ Admitted' = Admitted \ {s}
    BY <1>2, <1>3, <1>6 DEF ClientGone, Holders, Admitted, At
  <2> QED
    BY <1>1, <1>4, <1>6, <2>1 DEF ClientGone, PermitSum
<1>7. CASE Queued(s, r) \/ Slept(s, r)
  <2>1. Holders' = Holders /\ Admitted' = Admitted \cup {s}
    BY <1>2, <1>3, <1>7 DEF Queued, Slept, Holders, Admitted, At
  <2>2. permits' = permits /\ count' = count
    BY <1>7 DEF Queued, Slept
  <2> QED
    BY <1>1, <2>1, <2>2 DEF PermitSum
<1> QED
  BY <1>5, <1>6, <1>7, MeetEffect

-----------------------------------------------------------------------------
(* Permits.                                                                *)

LEMMA PermitStep == Inv /\ [Next]_vars => PermitSum' /\ NoIdlePermit'
<1> SUFFICES ASSUME Inv, [Next]_vars PROVE PermitSum' /\ NoIdlePermit'
  OBVIOUS
<1> USE DEF Inv
<1>0. permits \in Nat /\ Capacity \in Nat /\ Capacity' = Capacity
  BY BucketAssumption DEF TypeOK
<1>1. ASSUME UNCHANGED <<pc, permits, queue>> PROVE PermitSum' /\ NoIdlePermit'
  BY <1>1 DEF PermitSum, NoIdlePermit, Holders, At
<1>2. ASSUME NEW s \in Senders, NEW r \in Requests, pc[s] \in {"idle", "asleep"},
             MeetBucket(s, r)
      PROVE  PermitSum' /\ NoIdlePermit'
  <2>1. PermitSum'
    BY <1>2, MeetCounts
  <2>2. OnWire(s, r) \/ ClientGone(s) \/ Queued(s, r) \/ Slept(s, r)
    BY <1>2, MeetEffect
  <2>3. NoIdlePermit'
    BY <1>0, <2>2 DEF OnWire, ClientGone, Queued, Slept, NoIdlePermit
  <2> QED
    BY <2>1, <2>3
<1>3. ASSUME NEW s \in Senders, pc[s] \in {"granted", "wire"},
             NEW place \in {"idle", "dead"}, Release(s, place)
      PROVE  PermitSum' /\ NoIdlePermit'
  <2>1. PermitSum'
    BY <1>3, ReleaseCounts
  <2>2. permits < Capacity
    BY <1>3, HolderTakesPermit
  <2>3. queue' = <<>> \/ (queue # <<>> /\ permits' = permits)
    BY <1>3, <2>2, ReleaseEffect
  <2>4. NoIdlePermit'
    BY <2>3 DEF NoIdlePermit
  <2> QED
    BY <2>1, <2>4
<1>4. ASSUME NEW s \in Senders, NEW r \in Requests, Send(s, r)
      PROVE  PermitSum' /\ NoIdlePermit'
  BY <1>2, <1>4 DEF Send
<1>5. ASSUME NEW s \in Senders, Wake(s) PROVE PermitSum' /\ NoIdlePermit'
  <2>1. request[s] \in Requests
    BY <1>5 DEF Wake, CarriedInScope
  <2> QED
    BY <1>2, <1>5, <2>1 DEF Wake
\* A task that moves between two places without touching the permits.
<1>6. ASSUME NEW s \in Senders, NEW place, pc' = [pc EXCEPT ![s] = place],
             pc[s] \in {"granted", "wire"} <=> place \in {"granted", "wire"},
             permits' = permits
      PROVE  PermitSum'
  <2>1. \A t \in Senders : pc'[t] = IF t = s THEN place ELSE pc[t]
    BY <1>6 DEF TypeOK
  <2>2. Holders' = Holders
    BY <1>6, <2>1 DEF Holders, At
  <2> QED
    BY <1>0, <1>6, <2>2 DEF PermitSum
<1>7. ASSUME NEW s \in Senders, Enter(s) PROVE PermitSum' /\ NoIdlePermit'
  <2>1. pc[s] = "granted"
    BY <1>7 DEF Enter
  <2>2. CASE Release(s, "idle")
    BY <1>3, <2>1, <2>2
  <2>3. CASE pc' = [pc EXCEPT ![s] = "wire"] /\ UNCHANGED <<request, chain, rest, permits, queue>>
    BY <1>6, <2>1, <2>3 DEF NoIdlePermit
  <2> QED
    BY <1>7, <2>2, <2>3 DEF Enter
<1>8. ASSUME NEW s \in Senders, Cancel(s) PROVE PermitSum' /\ NoIdlePermit'
  <2>1. CASE pc[s] \in {"idle", "asleep"} /\ Forget(s, "dead") /\ UNCHANGED <<permits, queue>>
    BY <1>6, <2>1 DEF Forget, NoIdlePermit
  <2>2. CASE LeaveQueue(s)
    <3>1. PermitSum'
      BY <1>6, <2>2 DEF LeaveQueue, Forget
    <3>2. queue # <<>>
      BY <2>2, LeaveQueueEffect
    <3> QED
      BY <1>0, <2>2, <3>1, <3>2 DEF LeaveQueue, NoIdlePermit
  <2>3. CASE pc[s] \in {"granted", "wire"} /\ Release(s, "dead")
    BY <1>3, <2>3
  <2> QED
    BY <1>8, <2>1, <2>2, <2>3 DEF Cancel, LeaveQueue
<1>9. ASSUME NEW s \in Senders, Respond(s) PROVE PermitSum' /\ NoIdlePermit'
  <2>1. ASSUME Answer(s) PROVE PermitSum' /\ NoIdlePermit'
    BY <1>3, <2>1 DEF Answer
  <2>2. ASSUME NEW url \in Urls, RedirectRefused(s, url) PROVE PermitSum' /\ NoIdlePermit'
    BY <1>3, <2>2 DEF RedirectRefused
  <2>3. ASSUME NEW url \in Urls, NEW rewrite \in BOOLEAN, Redirect(s, url, rewrite)
        PROVE  PermitSum' /\ NoIdlePermit'
    BY <1>1, <2>3 DEF Redirect
  <2> QED
    BY <1>9, <2>1, <2>2, <2>3 DEF Respond
<1>10. ASSUME Open \/ Close \/ Interrupt \/ Tick \/ UNCHANGED vars
       PROVE  PermitSum' /\ NoIdlePermit'
  BY <1>1, <1>10 DEF Open, Close, Interrupt, Tick, vars, taskVars
<1> QED
  BY <1>4, <1>5, <1>7, <1>8, <1>9, <1>10 DEF Next, Step

-----------------------------------------------------------------------------
(* The budget.                                                             *)

LEMMA BudgetStep ==
    Inv /\ BoundedOvershoot /\ [Next]_vars => BoundedOvershoot'
<1> SUFFICES ASSUME Inv, BoundedOvershoot, [Next]_vars PROVE BoundedOvershoot'
  OBVIOUS
<1> USE DEF Inv
<1>0. /\ IsFiniteSet(Admitted) /\ Cardinality(Admitted) \in Nat
      /\ Cardinality(Senders) \in Nat /\ count \in Nat
      /\ MaxRequests \in Nat
  BY CountsAreFinite, LimitsAssumption DEF TypeOK
<1>1. ASSUME UNCHANGED <<pc, count>> PROVE BoundedOvershoot'
  BY <1>1 DEF BoundedOvershoot, Admitted, At
\* Entering: the budget was not exhausted, and every sender is admitted once.
<1>2. ASSUME NEW s \in Senders, NEW r \in Requests, Send(s, r) PROVE BoundedOvershoot'
  <2>1. count < MaxRequests /\ pc[s] = "idle" /\ MeetBucket(s, r)
    BY <1>2 DEF Send, BudgetLeft
  <2>2. s \notin Admitted /\ Admitted \cup {s} \in SUBSET Senders
    BY <2>1 DEF Admitted, At
  <2>3. Cardinality(Admitted \cup {s}) = Cardinality(Admitted) + 1
    BY <1>0, <2>2, FS_AddElement
  <2>4. Cardinality(Admitted \cup {s}) <= Cardinality(Senders)
    BY <2>2, SendersAssumption, FS_Subset
  <2>5. Admitted \ {s} = Admitted
    BY <2>2
  <2>6. Cardinality(Admitted') + count' = Cardinality(Admitted) + count + 1
    BY <1>0, <2>1, <2>3, <2>5, MeetCounts
  <2>7. Cardinality(Admitted') \in Nat /\ count' \in Nat
    <3>1. TypeOK'
      BY TypeStep
    <3>2. Admitted' \in SUBSET Senders
      BY DEF Admitted, At
    <3> QED
      BY <3>1, <3>2, SendersAssumption, FS_Subset, FS_CardinalityType DEF TypeOK
  <2> QED
    BY <1>0, <2>1, <2>3, <2>4, <2>6, <2>7 DEF BoundedOvershoot
\* Waking: an admitted call stays admitted, or is counted.
<1>3. ASSUME NEW s \in Senders, Wake(s) PROVE BoundedOvershoot'
  <2>1. pc[s] = "asleep" /\ request[s] \in Requests /\ MeetBucket(s, request[s])
    BY <1>3 DEF Wake, CarriedInScope
  <2>2. s \in Admitted
    BY <2>1 DEF Admitted, At
  <2>3. Admitted \cup {s} = Admitted
    BY <2>2
  <2>4. Cardinality(Admitted \ {s}) = Cardinality(Admitted) - 1
    BY <1>0, <2>2, FS_RemoveElement
  <2>5. \/ Cardinality(Admitted') + count' = Cardinality(Admitted \cup {s}) + count
        \/ Cardinality(Admitted') + count' = Cardinality(Admitted \ {s}) + count + 1
    BY <2>1, MeetCounts
  <2>6. Cardinality(Admitted') + count' = Cardinality(Admitted) + count
    <3>1. CASE Cardinality(Admitted') + count' = Cardinality(Admitted \cup {s}) + count
      BY ONLY <2>3, <3>1
    <3>2. CASE Cardinality(Admitted') + count' = Cardinality(Admitted \ {s}) + count + 1
      <4>1. (Cardinality(Admitted) - 1) + count + 1 = Cardinality(Admitted) + count
        BY <1>0
      <4> QED
        BY ONLY <2>4, <3>2, <4>1
    <3> QED
      BY ONLY <2>5, <3>1, <3>2
  <2>7. Cardinality(Admitted') \in Nat /\ count' \in Nat
    <3>1. TypeOK'
      BY TypeStep
    <3>2. Admitted' \in SUBSET Senders
      BY DEF Admitted, At
    <3> QED
      BY <3>1, <3>2, SendersAssumption, FS_Subset, FS_CardinalityType DEF TypeOK
  <2> QED
    BY <1>0, <2>6, <2>7 DEF BoundedOvershoot
<1>4. ASSUME NEW s \in Senders, Enter(s) PROVE BoundedOvershoot'
  <2>1. pc[s] = "granted" /\ count' = count + 1 /\ s \in Admitted
    BY <1>4 DEF Enter, Admitted, At
  <2>2. CASE Release(s, "idle")
    <3>1. Cardinality(Admitted') = Cardinality(Admitted) - 1
      BY <2>1, <2>2, ReleaseCounts
    <3> QED
      BY <1>0, <2>1, <3>1 DEF BoundedOvershoot
  <2>3. CASE pc' = [pc EXCEPT ![s] = "wire"]
    <3>1. \A t \in Senders : pc'[t] = IF t = s THEN "wire" ELSE pc[t]
      BY <2>3 DEF TypeOK
    <3>2. Admitted' = Admitted \ {s}
      BY <3>1 DEF Admitted, At
    <3>3. Cardinality(Admitted') = Cardinality(Admitted) - 1
      BY <1>0, <2>1, <3>2, FS_RemoveElement
    <3> QED
      BY <1>0, <2>1, <3>3 DEF BoundedOvershoot
  <2> QED
    BY <1>4, <2>2, <2>3 DEF Enter
<1>5. ASSUME NEW s \in Senders, pc[s] \in {"granted", "wire"},
             NEW place \in {"idle", "dead"}, Release(s, place), count' = count
      PROVE  BoundedOvershoot'
  <2>1. Cardinality(Admitted')
          = Cardinality(Admitted) - (IF pc[s] = "granted" THEN 1 ELSE 0)
    BY <1>5, ReleaseCounts
  <2> QED
    BY <1>0, <1>5, <2>1 DEF BoundedOvershoot
<1>6. ASSUME NEW s \in Senders, Forget(s, "dead"), count' = count PROVE BoundedOvershoot'
  <2>1. \A t \in Senders : pc'[t] = IF t = s THEN "dead" ELSE pc[t]
    BY <1>6 DEF Forget, TypeOK
  <2>2. Admitted' \in SUBSET Admitted
    BY <2>1 DEF Admitted, At
  <2>3. Cardinality(Admitted') <= Cardinality(Admitted) /\ Cardinality(Admitted') \in Nat
    BY <1>0, <2>2, FS_Subset, FS_CardinalityType
  <2> QED
    BY <1>0, <1>6, <2>3 DEF BoundedOvershoot
<1>7. ASSUME NEW s \in Senders, Cancel(s) PROVE BoundedOvershoot'
  BY <1>5, <1>6, <1>7 DEF Cancel
<1>8. ASSUME NEW s \in Senders, Respond(s) PROVE BoundedOvershoot'
  <2>1. ASSUME Answer(s) PROVE BoundedOvershoot'
    BY <1>5, <2>1 DEF Answer
  <2>2. ASSUME NEW url \in Urls, RedirectRefused(s, url) PROVE BoundedOvershoot'
    BY <1>5, <2>2 DEF RedirectRefused
  <2>3. ASSUME NEW url \in Urls, NEW rewrite \in BOOLEAN, Redirect(s, url, rewrite)
        PROVE  BoundedOvershoot'
    BY <1>1, <2>3 DEF Redirect
  <2> QED
    BY <1>8, <2>1, <2>2, <2>3 DEF Respond
<1>9. ASSUME Open \/ Close \/ Interrupt \/ Tick \/ UNCHANGED vars PROVE BoundedOvershoot'
  BY <1>1, <1>9 DEF Open, Close, Interrupt, Tick, vars, taskVars
<1> QED
  BY <1>2, <1>3, <1>4, <1>7, <1>8, <1>9 DEF Next, Step

-----------------------------------------------------------------------------
(* The theorems.                                                           *)

LEMMA InvInit == Init => Inv /\ BoundedOvershoot
<1> SUFFICES ASSUME Init PROVE Inv /\ BoundedOvershoot
  OBVIOUS
<1>1. \A s \in Senders : pc[s] = "idle" /\ chain[s] = <<>>
  BY DEF Init
<1>2. TypeOK
  <2>1. BucketTypeOK
    BY FullFact DEF Init, BucketInit, BucketTypeOK
  <2>2. /\ pc \in [Senders -> Places] /\ rest \in [Senders -> 0..Unit]
        /\ request \in [Senders -> Requests \cup {NoRequest}]
        /\ chain \in [Senders -> Seq(Urls)]
    BY BucketAssumption DEF Init, Places
  <2>3. permits \in 0..Capacity /\ queue \in Seq(Senders) /\ count \in Nat
    BY BucketAssumption DEF Init
  <2>4. client \in {"unopened", "open", "closed"} /\ interrupted \in BOOLEAN
    BY DEF Init
  <2> QED
    BY <2>1, <2>2, <2>3, <2>4 DEF TypeOK
<1>3. QueueOK /\ CarriedInScope /\ NoIdlePermit
  BY <1>1 DEF Init, QueueOK, CarriedInScope, NoIdlePermit
<1>4. Holders = {} /\ Admitted = {}
  BY <1>1 DEF Holders, Admitted, At
<1>5. PermitSum
  BY <1>4, FS_EmptySet, BucketAssumption DEF Init, PermitSum
<1>6. Cardinality(Senders) \in Nat /\ Cardinality(Senders) >= 1
  BY SendersAssumption, FS_CardinalityType, FS_EmptySet
<1>7. BoundedOvershoot
  BY <1>4, <1>6, FS_EmptySet, LimitsAssumption DEF Init, BoundedOvershoot
<1> QED
  BY <1>2, <1>3, <1>5, <1>7 DEF Inv

LEMMA InvStep == Inv /\ [Next]_vars => Inv'
BY TypeStep, QueueStep, ScopeStep, PermitStep DEF Inv

THEOREM InvCorrect == Spec => []Inv
BY InvInit, InvStep, PTL DEF Spec

\* The variables of the client keep their types, and the queue is a sequence
\* of tasks: HttpClient's state is well formed under any interleaving of
\* calls, answers, redirects, cancellations and closing.
THEOREM TypeCorrect == Spec => []TypeOK
<1>1. Inv => TypeOK
  BY DEF Inv
<1> QED
  BY <1>1, InvCorrect, PTL

\* However many tasks call send() at once, counted and admitted calls exceed
\* max_requests by less than the number of tasks.
THEOREM OvershootIsBounded == Spec => []BoundedOvershoot
<1>1. Inv /\ BoundedOvershoot /\ [Next]_vars => (Inv /\ BoundedOvershoot)'
  BY InvStep, BudgetStep
<1> QED
  BY <1>1, InvInit, PTL DEF Spec

\* A client used by a single task keeps max_requests as a hard cap.
THEOREM SequentialCap == Cardinality(Senders) = 1 => (Spec => []HardCap)
<1> SUFFICES ASSUME Cardinality(Senders) = 1 PROVE Spec => []HardCap
  OBVIOUS
<1>1. Inv /\ BoundedOvershoot => HardCap
  <2> SUFFICES ASSUME Inv, BoundedOvershoot PROVE HardCap
    OBVIOUS
  <2>1. Cardinality(Admitted) \in Nat /\ count \in Nat /\ MaxRequests \in Nat
    BY CountsAreFinite, LimitsAssumption DEF Inv, TypeOK
  <2> QED
    BY <2>1 DEF BoundedOvershoot, HardCap
<1> QED
  BY <1>1, InvCorrect, OvershootIsBounded, PTL

\* Every hop on the wire, redirects included, is a URL in scope, and the
\* first hop is in scope with its own method.
THEOREM WireStaysInScope == Spec => []WireInScope
<1>1. Inv => WireInScope
  BY DEF Inv, CarriedInScope, WireInScope, At
<1> QED
  BY <1>1, InvCorrect, PTL

\* Permits are neither lost nor duplicated; the queue holds exactly the
\* waiting tasks, and is empty while a permit is free.
THEOREM PermitsAreConserved == Spec => []PermitsConserved
<1>1. Inv => PermitsConserved
  <2> SUFFICES ASSUME Inv PROVE PermitsConserved
    OBVIOUS
  <2>1. /\ queue \in Seq(Senders) /\ Len(queue) \in Nat /\ DOMAIN queue = 1..Len(queue)
    BY DEF Inv, TypeOK
  <2>2. {queue[i] : i \in DOMAIN queue} = At("queued")
    BY <2>1 DEF Inv, QueueOK, At
  <2>3. queue \in [1..Len(queue) -> At("queued")]
    BY <2>1, <2>2
  <2>4. queue \in Bijection(1..Len(queue), At("queued"))
    BY <2>1, <2>2, <2>3 DEF Inv, QueueOK, Bijection, Injection, Surjection, IsInjective
  <2>5. Len(queue) = Cardinality(At("queued"))
    BY <2>1, <2>4, FS_CountingElements DEF ExistsBijection
  <2> QED
    BY <2>2, <2>5 DEF Inv, PermitSum, NoIdlePermit, PermitsConserved
<1> QED
  BY <1>1, InvCorrect, PTL

-----------------------------------------------------------------------------
(* The rate on the wire.                                                   *)

\* The hops the tokens in hand still pay for, each as its task and its place
\* in the chain: all of them while the call waits for its permit, those after
\* the last one sent while it is on the wire.
Pending ==
    {p \in Senders \X (0..MaxRedirects) :
        \/ pc[p[1]] \in {"queued", "granted"}
        \/ pc[p[1]] = "wire" /\ p[2] > Len(chain[p[1]])}

\* What was poured and what is still to be poured is paid for by the tokens
\* the bucket lacks, and by one token per task that the bucket has forgotten.
WireBound ==
    /\ level \in Nat
    /\ level + Unit * Cardinality(Pending)
         <= HopsPerToken * (Full - Refilled)
              + HopsPerToken * (Unit * Cardinality(Senders))

\* Products over the naturals are monotonic.
LEMMA Monotonic ==
    ASSUME NEW a \in Nat, NEW b \in Nat, NEW c \in Nat, a <= b
    PROVE  c * a <= c * b /\ c * a \in Nat /\ c * b \in Nat
<1>1. b - a \in Nat
  OBVIOUS
<1>2. c * (b - a) \in Nat /\ c * a \in Nat /\ c * b \in Nat
  BY <1>1
<1>3. c * b = c * a + c * (b - a)
  BY <1>1
<1> QED
  BY <1>2, <1>3

\* How one iteration of acquire() and a tick move the refilled token count.
LEMMA RefilledSteps ==
    ASSUME BucketTypeOK
    PROVE  /\ TakeToken => Refilled' = Refilled - Unit
           /\ MissToken => Refilled' = Refilled
           /\ Elapse => Refilled' = Least(Full, Refilled + 1)
           /\ UNCHANGED bucketVars => Refilled' = Refilled
<1>1. /\ tokens \in 0..Full /\ lag \in 0..Full
      /\ Full \in Nat /\ Full' = Full /\ Unit \in Nat \ {0} /\ Unit <= Full
  BY FullFact DEF BucketTypeOK, Full
<1>2. TakeToken => Refilled' = Refilled - Unit
  BY <1>1 DEF TakeToken, MarkRefill, Refilled, Least
<1>3. MissToken => Refilled' = Refilled
  BY <1>1 DEF MissToken, MarkRefill, Refilled, Least
<1>4. Elapse => Refilled' = Least(Full, Refilled + 1)
  BY <1>1 DEF Elapse, Refilled, Least
<1>5. UNCHANGED bucketVars => Refilled' = Refilled
  BY <1>1 DEF bucketVars, Refilled
<1> QED
  BY <1>2, <1>3, <1>4, <1>5

\* There are at most HopsPerToken hops to come per task.
LEMMA PendingIsFinite ==
    /\ IsFiniteSet(Pending) /\ Cardinality(Pending) \in Nat
    /\ Cardinality(Pending) <= HopsPerToken * Cardinality(Senders)
    /\ HopsPerToken \in Nat \ {0} /\ Cardinality(Senders) \in Nat
    /\ IsFiniteSet(0..MaxRedirects) /\ Cardinality(0..MaxRedirects) = HopsPerToken
<1>1. MaxRedirects \in Nat /\ HopsPerToken = 1 + MaxRedirects
  BY LimitsAssumption DEF HopsPerToken
<1>2. IsFiniteSet(0..MaxRedirects) /\ Cardinality(0..MaxRedirects) = HopsPerToken
  BY <1>1, FS_Interval
<1>3. /\ IsFiniteSet(Senders \X (0..MaxRedirects))
      /\ Cardinality(Senders \X (0..MaxRedirects)) = Cardinality(Senders) * HopsPerToken
  BY <1>2, SendersAssumption, FS_Product
<1>4. Pending \in SUBSET (Senders \X (0..MaxRedirects))
  BY DEF Pending
<1>5. /\ IsFiniteSet(Pending)
      /\ Cardinality(Pending) <= Cardinality(Senders \X (0..MaxRedirects))
  BY <1>3, <1>4, FS_Subset
<1>6. Cardinality(Pending) \in Nat /\ Cardinality(Senders) \in Nat
  BY <1>5, SendersAssumption, FS_CardinalityType
<1>7. Cardinality(Senders) * HopsPerToken = HopsPerToken * Cardinality(Senders)
  BY <1>1, <1>6
<1> QED
  BY <1>1, <1>2, <1>3, <1>5, <1>6, <1>7

\* The hops of one task.
HopsOf(s) == {s} \X (0..MaxRedirects)

\* A token adds at most the hops of one call to those to come, and one less
\* if the first of them is sent at once.
LEMMA TokenAdds ==
    ASSUME NEW s \in Senders
    PROVE  /\ Pending' \subseteq Pending \cup HopsOf(s) =>
                Cardinality(Pending') <= Cardinality(Pending) + HopsPerToken
           /\ Pending' \subseteq Pending \cup (HopsOf(s) \ {<<s, 0>>}) =>
                Cardinality(Pending') <= Cardinality(Pending) + MaxRedirects
<1>1. /\ IsFiniteSet(HopsOf(s)) /\ Cardinality(HopsOf(s)) = HopsPerToken
  <2>1. IsFiniteSet({s}) /\ Cardinality({s}) = 1
    BY FS_Singleton
  <2>2. /\ IsFiniteSet({s} \X (0..MaxRedirects))
        /\ Cardinality({s} \X (0..MaxRedirects)) = 1 * Cardinality(0..MaxRedirects)
    BY <2>1, PendingIsFinite, FS_Product
  <2> QED
    BY <2>2, PendingIsFinite DEF HopsOf
<1>2. <<s, 0>> \in HopsOf(s)
  BY LimitsAssumption DEF HopsOf
<1>3. /\ IsFiniteSet(HopsOf(s) \ {<<s, 0>>})
      /\ Cardinality(HopsOf(s) \ {<<s, 0>>}) = MaxRedirects
  BY <1>1, <1>2, FS_RemoveElement, LimitsAssumption DEF HopsPerToken
<1>4. ASSUME NEW T, IsFiniteSet(T), Pending' \subseteq Pending \cup T
      PROVE  Cardinality(Pending') <= Cardinality(Pending) + Cardinality(T)
  <2>1. /\ IsFiniteSet(Pending \cup T)
        /\ Cardinality(Pending \cup T)
             = Cardinality(Pending) + Cardinality(T) - Cardinality(Pending \cap T)
    BY <1>4, PendingIsFinite, FS_Union
  <2>2. IsFiniteSet(Pending \cap T)
    BY PendingIsFinite, FS_Intersection
  <2>3. /\ Cardinality(Pending \cap T) \in Nat /\ Cardinality(T) \in Nat
        /\ Cardinality(Pending) \in Nat
    BY <1>4, <2>2, PendingIsFinite, FS_CardinalityType
  <2>4. /\ IsFiniteSet(Pending')
        /\ Cardinality(Pending') <= Cardinality(Pending \cup T)
    BY <1>4, <2>1, FS_Subset
  <2>5. Cardinality(Pending') \in Nat
    BY <2>4, FS_CardinalityType
  <2> QED
    BY <2>1, <2>3, <2>4, <2>5
<1> QED
  BY <1>1, <1>3, <1>4

\* A step after which fewer hops are to come.
LEMMA PendingShrinks ==
    /\ Pending' \subseteq Pending => Cardinality(Pending') <= Cardinality(Pending)
    /\ \A p \in Pending : Pending' \subseteq Pending \ {p} =>
          Cardinality(Pending') <= Cardinality(Pending) - 1
    /\ Cardinality(Pending') \in Nat
<1>1. ASSUME Pending' \subseteq Pending
      PROVE  IsFiniteSet(Pending') /\ Cardinality(Pending') <= Cardinality(Pending)
  BY <1>1, PendingIsFinite, FS_Subset
<1>2. ASSUME NEW p \in Pending, Pending' \subseteq Pending \ {p}
      PROVE  Cardinality(Pending') <= Cardinality(Pending) - 1
  <2>1. /\ IsFiniteSet(Pending \ {p})
        /\ Cardinality(Pending \ {p}) = Cardinality(Pending) - 1
    BY PendingIsFinite, FS_RemoveElement
  <2> QED
    BY <1>2, <2>1, FS_Subset
<1>3. Cardinality(Pending') \in Nat
  <2>1. Pending' \in SUBSET (Senders \X (0..MaxRedirects))
    BY DEF Pending
  <2>2. IsFiniteSet(Senders \X (0..MaxRedirects))
    BY PendingIsFinite, SendersAssumption, FS_Product
  <2> QED
    BY <2>1, <2>2, FS_Subset, FS_CardinalityType
<1> QED
  BY <1>1, <1>2, <1>3

\* What a step other than a tick does to the hops to come.
Quiet == ~ HopSent /\ Pending' \subseteq Pending /\ Refilled' <= Refilled
Spent == \E p \in Pending : Pending' \subseteq Pending \ {p} /\ Refilled' = Refilled
TokenHeld ==
    /\ ~ HopSent /\ Refilled' = Refilled - Unit
    /\ \E s \in Senders : Pending' \subseteq Pending \cup HopsOf(s)
TokenUsed ==
    /\ Refilled' = Refilled - Unit
    /\ \E s \in Senders : Pending' \subseteq Pending \cup (HopsOf(s) \ {<<s, 0>>})

\* A call that returns sends nothing and has no more hops to come.
LEMMA ReleaseIsQuiet ==
    ASSUME Inv, NEW s \in Senders, pc[s] \in {"granted", "wire"},
           NEW place \in {"idle", "dead"}, Release(s, place), UNCHANGED bucketVars
    PROVE  Quiet
<1>1. permits < Capacity
  BY HolderTakesPermit DEF Inv
<1>2. Refilled' = Refilled /\ Refilled \in Int
  BY RefilledSteps, RefilledRange, FullFact DEF Inv, TypeOK
<1>3. CASE queue = <<>>
  <2>1. /\ pc'[s] = place /\ Touched(s) /\ \A t \in Senders \ {s} : pc'[t] = pc[t]
    BY <1>1, <1>3, ReleaseEffect DEF Inv
  <2>2. ~ HopSent
    BY <2>1 DEF HopSent, Touched
  <2>3. Pending' \subseteq Pending
    BY <2>1 DEF Pending, Touched
  <2> QED
    BY <1>2, <2>2, <2>3 DEF Quiet
<1>4. CASE queue # <<>>
  <2>1. /\ pc'[s] = place /\ Touched(s)
        /\ Head(queue) \in Senders \ {s} /\ pc[Head(queue)] = "queued"
        /\ pc'[Head(queue)] = "granted"
        /\ \A t \in Senders \ {s, Head(queue)} : pc'[t] = pc[t]
    BY <1>1, <1>4, ReleaseEffect DEF Inv
  <2>2. ~ HopSent
    BY <2>1 DEF HopSent, Touched
  <2>3. Pending' \subseteq Pending
    BY <2>1 DEF Pending, Touched
  <2> QED
    BY <1>2, <2>2, <2>3 DEF Quiet
<1> QED
  BY <1>3, <1>4

\* A call that meets the bucket sleeps, fails, or takes a token and holds it
\* or sends its first hop.
LEMMA MeetPours ==
    ASSUME Inv, NEW s \in Senders, pc[s] \in {"idle", "asleep"}, chain[s] = <<>>,
           NEW r \in Requests, MeetBucket(s, r)
    PROVE  Quiet \/ TokenHeld \/ TokenUsed
<1>1. Refilled \in Int /\ Unit \in Nat
  BY FullFact, RefilledRange DEF Inv, TypeOK
<1>2. Touched(s) /\ \A t \in Senders \ {s} : pc'[t] = pc[t]
  BY MeetEffect DEF Inv
<1>3. CASE MissToken /\ Carry(s, r, "asleep", WaitAfterMiss)
  <2>1. pc'[s] = "asleep"
    BY <1>3 DEF Carry, Inv, TypeOK
  <2>2. ~ HopSent /\ Pending' \subseteq Pending
    BY <1>2, <2>1 DEF HopSent, Pending, Touched
  <2> QED
    BY <1>1, <1>3, <2>2, RefilledSteps DEF Quiet, Inv, TypeOK
<1>4. CASE TakeToken /\ MeetSemaphore(s, r)
  <2>0. Refilled' = Refilled - Unit
    BY <1>4, RefilledSteps DEF Inv, TypeOK
  <2>1. CASE Carry(s, r, "wire", 0)
    <3>1. pc'[s] = "wire" /\ chain'[s] = <<>>
      BY <2>1 DEF Carry, Inv, TypeOK
    <3>2. Pending' \subseteq Pending \cup (HopsOf(s) \ {<<s, 0>>})
      BY <1>2, <3>1 DEF Pending, HopsOf, Touched
    <3> QED
      BY <2>0, <3>2 DEF TokenUsed
  <2>2. CASE Forget(s, "idle")
    <3>1. pc'[s] = "idle"
      BY <2>2 DEF Forget, Inv, TypeOK
    <3>2. ~ HopSent /\ Pending' \subseteq Pending
      BY <1>2, <3>1 DEF HopSent, Pending, Touched
    <3> QED
      BY <1>1, <2>0, <3>2 DEF Quiet
  <2>3. CASE Carry(s, r, "queued", 0)
    <3>1. pc'[s] = "queued"
      BY <2>3 DEF Carry, Inv, TypeOK
    <3>2. ~ HopSent
      BY <1>2, <3>1 DEF HopSent, Touched
    <3>3. Pending' \subseteq Pending \cup HopsOf(s)
      BY <1>2, <3>1 DEF Pending, HopsOf, Touched
    <3> QED
      BY <2>0, <3>2, <3>3 DEF TokenHeld
  <2> QED
    BY <1>4, <2>1, <2>2, <2>3 DEF MeetSemaphore
<1> QED
  BY <1>3, <1>4 DEF MeetBucket

LEMMA StepPours ==
    ASSUME Inv, Step
    PROVE  Quiet \/ Spent \/ TokenHeld \/ TokenUsed
<1> USE DEF Inv
<1>0. Refilled \in Int /\ (UNCHANGED bucketVars => Refilled' = Refilled)
  BY FullFact, RefilledRange, RefilledSteps DEF TypeOK
<1>1. ASSUME UNCHANGED <<pc, chain, bucketVars>> PROVE Quiet
  <2>1. ~ HopSent /\ Pending' = Pending
    BY <1>1 DEF HopSent, Pending
  <2> QED
    BY <1>0, <1>1, <2>1 DEF Quiet
<1>2. CASE Open \/ Close \/ Interrupt
  BY <1>1, <1>2 DEF Open, Close, Interrupt, taskVars
<1>3. ASSUME NEW s \in Senders, NEW r \in Requests, Send(s, r)
      PROVE  Quiet \/ TokenHeld \/ TokenUsed
  BY <1>3, MeetPours DEF Send, CarriedInScope
<1>4. ASSUME NEW s \in Senders, Wake(s) PROVE Quiet \/ TokenHeld \/ TokenUsed
  BY <1>4, MeetPours DEF Wake, CarriedInScope
<1>5. ASSUME NEW s \in Senders, Enter(s) PROVE Quiet \/ Spent
  <2>1. CASE Release(s, "idle")
    BY <1>5, <2>1, ReleaseIsQuiet DEF Enter
  <2>2. CASE pc' = [pc EXCEPT ![s] = "wire"] /\ UNCHANGED <<request, chain, rest, permits, queue>>
    <3>1. /\ pc'[s] = "wire" /\ chain' = chain /\ Len(chain[s]) = 0
          /\ \A t \in Senders \ {s} : pc'[t] = pc[t]
      BY <1>5, <2>2 DEF Enter, TypeOK, CarriedInScope
    <3>2. <<s, 0>> \in Pending
      BY <1>5, LimitsAssumption DEF Enter, Pending
    <3>3. Pending' \subseteq Pending \ {<<s, 0>>}
      BY <1>5, <3>1 DEF Enter, Pending
    <3> QED
      BY <1>0, <1>5, <3>2, <3>3 DEF Enter, Spent
  <2> QED
    BY <1>5, <2>1, <2>2 DEF Enter
<1>6. ASSUME NEW s \in Senders, Answer(s) PROVE Quiet
  BY <1>6, ReleaseIsQuiet DEF Answer
<1>7. ASSUME NEW s \in Senders, NEW url \in Urls, RedirectRefused(s, url) PROVE Quiet
  BY <1>7, ReleaseIsQuiet DEF RedirectRefused
<1>8. ASSUME NEW s \in Senders, NEW url \in Urls, NEW rewrite \in BOOLEAN,
             Redirect(s, url, rewrite)
      PROVE  Spent
  <2>1. /\ pc' = pc /\ pc[s] = "wire" /\ Len(chain[s]) < MaxRedirects
        /\ Len(chain[s]) \in Nat /\ Len(chain'[s]) = Len(chain[s]) + 1
        /\ \A t \in Senders \ {s} : chain'[t] = chain[t]
    BY <1>8 DEF Redirect, RedirectAllowed, TypeOK
  <2> DEFINE hop == <<s, Len(chain[s]) + 1>>
  <2>2. hop \in Pending
    BY <2>1, LimitsAssumption DEF Pending
  <2>3. Pending' \subseteq Pending \ {hop}
    BY <2>1 DEF Pending
  <2> QED
    BY <1>0, <1>8, <2>2, <2>3 DEF Redirect, Spent
<1>9. ASSUME NEW s \in Senders, Cancel(s) PROVE Quiet
  <2>1. CASE Forget(s, "dead")
    <3>1. pc'[s] = "dead" /\ \A t \in Senders \ {s} : pc'[t] = pc[t] /\ chain'[t] = chain[t]
      BY <2>1 DEF Forget, TypeOK
    <3>2. ~ HopSent /\ Pending' \subseteq Pending
      BY <3>1 DEF HopSent, Pending
    <3> QED
      BY <1>0, <1>9, <3>2 DEF Cancel, Quiet
  <2>2. CASE pc[s] \in {"granted", "wire"} /\ Release(s, "dead")
    BY <1>9, <2>2, ReleaseIsQuiet DEF Cancel
  <2> QED
    BY <1>9, <2>1, <2>2 DEF Cancel
<1> QED
  BY <1>2, <1>3, <1>4, <1>5, <1>6, <1>7, <1>8, <1>9 DEF Step, Respond

\* The four kinds of steps in numbers: f is a full bucket, r what is in it, p
\* the hops to come and c what the tasks may hoard.
LEMMA Pours ==
    ASSUME NEW u \in Nat, NEW m \in Nat, NEW f \in Nat, NEW c \in Nat,
           NEW r \in Nat, NEW r2 \in Int, r2 <= f,
           NEW l \in Nat, NEW l2 \in Nat, NEW p \in Nat, NEW p2 \in Nat, r <= f,
           l + u * p <= (1 + m) * (f - r) + c,
           \/ p2 <= p /\ r2 <= r /\ l2 = l
           \/ p2 <= p - 1 /\ r2 = r /\ l2 <= l + u
           \/ p2 <= p + (1 + m) /\ r2 = r - u /\ l2 = l
           \/ p2 <= p + m /\ r2 = r - u /\ l2 <= l + u
    PROVE  l2 + u * p2 <= (1 + m) * (f - r2) + c
<1>1. u * p \in Nat /\ u * p2 \in Nat /\ (1 + m) * (f - r) \in Nat /\ u * m \in Nat
  <2>1. f - r \in Nat /\ 1 + m \in Nat
    OBVIOUS
  <2> QED
    BY <2>1
<1>2. CASE p2 <= p /\ r2 <= r /\ l2 = l
  <2>1. u * p2 <= u * p
    BY <1>2, Monotonic
  <2>2. (1 + m) * (f - r) <= (1 + m) * (f - r2)
    BY <1>2, Monotonic, f - r \in Nat, f - r2 \in Nat, f - r <= f - r2, 1 + m \in Nat
  <2> QED
    BY <1>1, <1>2, <2>1, <2>2
<1>3. CASE p2 <= p - 1 /\ r2 = r /\ l2 <= l + u
  <2>1. u * p2 <= u * (p - 1)
    BY <1>3, Monotonic, p - 1 \in Nat
  <2>2. u * (p - 1) = u * p - u
    OBVIOUS
  <2> QED
    BY <1>1, <1>3, <2>1, <2>2
<1>4. CASE r2 = r - u
  <2>1. f - r2 = (f - r) + u
    BY <1>4
  <2>2. (1 + m) * ((f - r) + u) = (1 + m) * (f - r) + u + u * m
    OBVIOUS
  <2>3. (1 + m) * (f - r2) = (1 + m) * (f - r) + u + u * m
    BY <2>1, <2>2
  <2>4. CASE p2 <= p + (1 + m) /\ l2 = l
    <3>1. u * p2 <= u * (p + (1 + m))
      BY <2>4, Monotonic, p + (1 + m) \in Nat
    <3>2. u * (p + (1 + m)) = u * p + u + u * m
      OBVIOUS
    <3> QED
      BY <1>1, <2>3, <2>4, <3>1, <3>2
  <2>5. CASE p2 <= p + m /\ l2 <= l + u
    <3>1. u * p2 <= u * (p + m)
      BY <2>5, Monotonic, p + m \in Nat
    <3>2. u * (p + m) = u * p + u * m
      OBVIOUS
    <3> QED
      BY <1>1, <2>3, <2>5, <3>1, <3>2
  <2>6. \/ p2 <= p + (1 + m) /\ l2 = l
        \/ p2 <= p + m /\ l2 <= l + u
        \/ p2 <= p /\ r2 <= r /\ l2 = l
        \/ p2 <= p - 1 /\ r2 = r /\ l2 <= l + u
    OBVIOUS
  <2> QED
    BY <1>2, <1>3, <2>4, <2>5, <2>6
<1> QED
  BY <1>2, <1>3, <1>4

\* A tick drains at least as much as it earns.
LEMMA Drains ==
    ASSUME NEW u \in Nat, NEW h \in Nat, NEW f \in Nat, NEW c \in Nat,
           NEW r \in Nat, r <= f, NEW l \in Nat, NEW p \in Nat, NEW k \in Nat,
           h <= k, u * p <= c,
           l + u * p <= h * (f - r) + c
    PROVE  (IF l < k THEN 0 ELSE l - k) + u * p <= h * (f - Least(f, r + 1)) + c
<1>1. u * p \in Nat /\ h * (f - r) \in Nat
  <2>1. f - r \in Nat
    OBVIOUS
  <2> QED
    BY <2>1
<1>2. CASE r = f
  <2>1. f - Least(f, r + 1) = 0 /\ f - r = 0
    BY <1>2 DEF Least
  <2>2. h * (f - Least(f, r + 1)) = h * (f - r)
    BY <2>1
  <2> QED
    BY <1>1, <2>2
<1>3. CASE r < f
  <2>1. Least(f, r + 1) = r + 1
    BY <1>3 DEF Least
  <2>2. f - (r + 1) \in Nat
    BY <1>3
  <2>3. h * (f - (r + 1)) \in Nat
    BY <2>2
  <2>4. h * (f - r) = h * (f - (r + 1)) + h
    OBVIOUS
  <2> QED
    BY <1>1, <2>1, <2>3, <2>4
<1> QED
  BY <1>2, <1>3

\* At a target that drains HopsPerToken units per tick or more, every step
\* keeps the bound and is a step of the contract.
LEMMA WireStep ==
    ASSUME Leak >= HopsPerToken, Inv, WireBound, [WireNext]_wireVars
    PROVE  WireBound' /\ [Seen!Next]_level
<1> DEFINE c == HopsPerToken * (Unit * Cardinality(Senders))
<1>1. /\ Full \in Nat /\ Full' = Full /\ Unit \in Nat \ {0}
      /\ Refilled \in Nat /\ Refilled <= Full
  BY FullFact, RefilledRange DEF Inv, TypeOK, Full
<1>2. /\ Cardinality(Pending) \in Nat /\ Cardinality(Pending') \in Nat
      /\ Cardinality(Pending) <= HopsPerToken * Cardinality(Senders)
      /\ HopsPerToken \in Nat \ {0} /\ Cardinality(Senders) \in Nat
      /\ HopsPerToken = 1 + MaxRedirects /\ MaxRedirects \in Nat /\ Leak \in Nat
  BY PendingIsFinite, PendingShrinks, LimitsAssumption, LeakAssumption DEF HopsPerToken
<1>3. /\ c \in Nat /\ Unit * Cardinality(Pending) <= c
      /\ HopsPerToken * Full \in Nat /\ WireBurst = HopsPerToken * Full + c
  <2>1. HopsPerToken * Cardinality(Senders) \in Nat /\ Unit * Cardinality(Senders) \in Nat
    BY <1>1, <1>2
  <2>2. Unit * Cardinality(Pending) <= Unit * (HopsPerToken * Cardinality(Senders))
    BY <1>1, <1>2, <2>1, Monotonic
  <2>3. c = Unit * (HopsPerToken * Cardinality(Senders))
    BY <1>1, <1>2
  <2>4. HopsPerToken * Full \in Nat /\ c \in Nat
    BY <1>1, <1>2, <2>1
  <2>5. HopsPerToken * (Full + Unit * Cardinality(Senders)) = HopsPerToken * Full + c
    BY <1>1, <1>2, <2>1
  <2> QED
    BY <2>2, <2>3, <2>4, <2>5 DEF WireBurst
<1>4. BucketTypeOK' /\ Refilled' \in Nat /\ Refilled' <= Full
  <2>1. [Next]_vars
    BY DEF WireNext, Next, wireVars
  <2>2. TypeOK'
    BY <2>1, TypeStep
  <2>3. BucketTypeOK' /\ (BucketTypeOK => Refilled \in 0..Full)'
    BY <2>2, RefilledRange, PTL DEF TypeOK
  <2> QED
    BY <1>1, <2>3
<1>5. ASSUME WireBound', NEW r \in Nat, r <= Full, NEW p \in Nat,
             level' + Unit * p <= HopsPerToken * (Full - r) + c
      PROVE  level' <= WireBurst
  <2>1. Unit * p \in Nat /\ HopsPerToken * (Full - r) <= HopsPerToken * Full
    <3>1. Full - r \in Nat /\ Full - r <= Full
      BY <1>1, <1>5
    <3> QED
      BY <1>1, <1>2, <1>5, <3>1, Monotonic
  <2>2. HopsPerToken * (Full - r) \in Int /\ level' \in Nat
    BY <1>1, <1>2, <1>5 DEF WireBound
  <2> QED
    BY <1>3, <1>5, <2>1, <2>2
<1>6. CASE Tick /\ level' = IF level < Leak THEN 0 ELSE level - Leak
  <2>1. Seen!Drain
    BY <1>6 DEF Seen!Drain
  <2>2. Pending' = Pending
    BY <1>6 DEF Tick, Pending
  <2>3. Refilled' = Least(Full, Refilled + 1)
    BY <1>6, RefilledSteps DEF Tick, Inv, TypeOK
  <2>4. level' + Unit * Cardinality(Pending)
          <= HopsPerToken * (Full - Least(Full, Refilled + 1)) + c
    BY <1>1, <1>2, <1>3, <1>6, Drains DEF WireBound
  <2>5. level' \in Nat
    BY <1>2, <1>6 DEF WireBound
  <2>6. WireBound'
    BY <1>1, <2>2, <2>3, <2>4, <2>5 DEF WireBound
  <2> QED
    BY <2>1, <2>6 DEF Seen!Next
<1>7. CASE Step /\ level' = IF HopSent THEN level + Unit ELSE level
  <2>1. level' \in Nat /\ level' <= level + Unit /\ (~ HopSent => level' = level)
    BY <1>1, <1>7 DEF WireBound
  <2>2. \/ /\ Cardinality(Pending') <= Cardinality(Pending)
           /\ Refilled' <= Refilled /\ level' = level
        \/ /\ Cardinality(Pending') <= Cardinality(Pending) - 1
           /\ Refilled' = Refilled
        \/ /\ Cardinality(Pending') <= Cardinality(Pending) + HopsPerToken
           /\ Refilled' = Refilled - Unit /\ level' = level
        \/ /\ Cardinality(Pending') <= Cardinality(Pending) + MaxRedirects
           /\ Refilled' = Refilled - Unit
    <3>1. CASE Quiet
      BY <2>1, <3>1, PendingShrinks DEF Quiet
    <3>2. CASE Spent
      BY <2>1, <3>2, PendingShrinks DEF Spent
    <3>3. CASE TokenHeld
      BY <2>1, <3>3, TokenAdds DEF TokenHeld
    <3>4. CASE TokenUsed
      BY <2>1, <3>4, TokenAdds DEF TokenUsed
    <3> QED
      BY <1>7, <3>1, <3>2, <3>3, <3>4, StepPours
  <2>3. level' + Unit * Cardinality(Pending') <= HopsPerToken * (Full - Refilled') + c
    <3>1. level \in Nat /\ level + Unit * Cardinality(Pending) <= HopsPerToken * (Full - Refilled) + c
      BY DEF WireBound
    <3> HIDE DEF c
    <3> QED
      BY <1>1, <1>2, <1>3, <1>4, <2>1, <2>2, <3>1, Pours
  <2>4. WireBound'
    BY <1>1, <2>1, <2>3 DEF WireBound
  <2>5. level' <= WireBurst
    BY <1>2, <1>4, <1>5, <2>3, <2>4
  <2> QED
    BY <1>7, <2>4, <2>5 DEF Seen!Next, Seen!Grant
<1>8. CASE UNCHANGED wireVars
  <2>1. Pending' = Pending /\ level' = level
    BY <1>8 DEF wireVars, vars, taskVars, Pending
  <2>2. Refilled' = Refilled
    BY <1>8, RefilledSteps DEF wireVars, vars, Inv, TypeOK
  <2> QED
    BY <1>1, <2>1, <2>2 DEF WireBound
<1> QED
  BY <1>6, <1>7, <1>8 DEF WireNext

\* What the target can count on: at any moment no more hops have piled up at
\* it than a full bucket and one token per task pay for, if it drains
\* HopsPerToken times as fast as the bucket fills; with redirects and
\* hoarded tokens the configured rate itself is not kept (client.py 119-120,
\* 208-245).
THEOREM WireKeepsRate == Leak >= HopsPerToken => (WireSpec => WireRateKept)
<1> SUFFICES ASSUME Leak >= HopsPerToken PROVE WireSpec => WireRateKept
  OBVIOUS
<1>1. WireInit => Inv /\ WireBound /\ Seen!Init
  <2> SUFFICES ASSUME WireInit PROVE Inv /\ WireBound /\ Seen!Init
    OBVIOUS
  <2>1. Inv /\ level = 0
    BY InvInit DEF WireInit
  <2>2. Pending = {}
    BY DEF WireInit, Init, Pending
  <2>3. Cardinality(Pending) = 0
    BY <2>2, FS_EmptySet
  <2>4. Refilled \in 0..Full /\ Full \in Nat /\ Unit \in Nat
    BY <2>1, FullFact, RefilledRange DEF Inv, TypeOK
  <2>5. HopsPerToken \in Nat /\ Cardinality(Senders) \in Nat /\ Full - Refilled \in Nat
    BY <2>4, PendingIsFinite
  <2>6. /\ HopsPerToken * (Full - Refilled) \in Nat
        /\ HopsPerToken * (Unit * Cardinality(Senders)) \in Nat
    BY <2>4, <2>5
  <2> QED
    BY <2>1, <2>3, <2>4, <2>6 DEF WireBound, Seen!Init
<1>2. Inv /\ WireBound /\ [WireNext]_wireVars => (Inv /\ WireBound)' /\ [Seen!Next]_level
  <2>1. [WireNext]_wireVars => [Next]_vars
    BY DEF WireNext, Next, wireVars
  <2> QED
    BY <2>1, InvStep, WireStep
<1> QED
  BY <1>1, <1>2, PTL DEF WireSpec, WireRateKept, Seen!Spec
=============================================================================
