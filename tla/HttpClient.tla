----------------------------- MODULE HttpClient -----------------------------
(***************************************************************************)
(* http/client.py: concurrent calls of HttpClient.send, each one a task of *)
(* the event loop.  A call passes, in this order, the scope check, the     *)
(* budget check, the token bucket and the semaphore; it then puts one or   *)
(* more hops on the wire (the request and the redirects it follows).       *)
(*                                                                         *)
(* An action is a stretch of a task between two suspensions.  Acquiring an *)
(* uncontended lock or semaphore does not suspend, so a call that finds a  *)
(* token and a permit goes from the scope check to the wire in one step;   *)
(* a call that sleeps or queues is overtaken by others after its checks.   *)
(* A call refused by the scope or by the budget changes no state.          *)
(*                                                                         *)
(* asyncio.Semaphore is external: first come first served, a release hands *)
(* the permit to the first waiter, which runs later ("granted").           *)
(***************************************************************************)
EXTENDS Scope, TokenBucket, FiniteSets, SequencesExt

CONSTANTS
    Senders,           \* the tasks that call send()
    MaxRequests,       \* LimitsConfig.max_requests
    MaxRedirects,      \* ScopeConfig.max_redirects
    FollowRedirects    \* HttpClient.follow_redirects

ASSUME SendersAssumption == IsFiniteSet(Senders) /\ Senders # {}
ASSUME LimitsAssumption == MaxRequests \in Nat /\ MaxRedirects \in Nat
ASSUME FollowAssumption == FollowRedirects \in BOOLEAN

VARIABLES
    client,        \* the httpx client: "unopened", "open" or "closed"
    interrupted,   \* Ctrl-C was pressed: the loop cancels its tasks
    pc,            \* where each task is
    request,       \* the request a task is busy with
    chain,         \* follow_chain of a task: the redirects followed so far
    rest,          \* ticks a task still sleeps in the bucket
    count,         \* _request_count
    permits,       \* free permits of the semaphore
    queue          \* tasks waiting for a permit, first come first

taskVars == <<pc, request, chain, rest>>
vars == <<client, interrupted, taskVars, count, permits, queue, bucketVars>>

NoRequest == [url |-> [host |-> NoHost, path |-> "none"], method |-> "none"]

Requests == [url : Urls, method : Methods]

\* "idle": no call; "asleep": in the bucket; "queued": behind the semaphore;
\* "granted": handed a permit, not resumed yet; "wire": a hop is in flight;
\* "dead": the task was cancelled.
Places == {"idle", "asleep", "queued", "granted", "wire", "dead"}

At(place) == {s \in Senders : pc[s] = place}

\* Calls past both checks that are not counted yet.
Admitted == At("asleep") \cup At("queued") \cup At("granted")

Holders == At("granted") \cup At("wire")

Init ==
    /\ client = "unopened"
    /\ interrupted = FALSE
    /\ pc = [s \in Senders |-> "idle"]
    /\ request = [s \in Senders |-> NoRequest]
    /\ chain = [s \in Senders |-> <<>>]
    /\ rest = [s \in Senders |-> 0]
    /\ count = 0
    /\ permits = Capacity
    /\ queue = <<>>
    /\ BucketInit

-----------------------------------------------------------------------------
(* Opening and closing.  The scan leaves "async with" when the main task   *)
(* is done or cancelled; only then can calls of other tasks outlive the    *)
(* client.                                                                 *)

Open ==
    /\ client = "unopened"
    /\ client' = "open"
    /\ UNCHANGED <<interrupted, taskVars, count, permits, queue, bucketVars>>

Close ==
    /\ client = "open"
    /\ interrupted \/ \A s \in Senders : pc[s] = "idle"
    /\ client' = "closed"
    /\ UNCHANGED <<interrupted, taskVars, count, permits, queue, bucketVars>>

Interrupt ==
    /\ client = "open"
    /\ ~ interrupted
    /\ interrupted' = TRUE
    /\ UNCHANGED <<client, taskVars, count, permits, queue, bucketVars>>

-----------------------------------------------------------------------------
(* The four gates of send().                                               *)

\* Faulty variant: the budget is compared with the wrong operator.
BudgetLeftOffByOne == count <= MaxRequests

\* client.py 113: the count is compared before the waits, and incremented
\* after them.
BudgetLeft == count < MaxRequests

\* The call ends and s no longer holds a request.
Forget(s, place) ==
    /\ pc' = [pc EXCEPT ![s] = place]
    /\ request' = [request EXCEPT ![s] = NoRequest]
    /\ chain' = [chain EXCEPT ![s] = <<>>]
    /\ rest' = [rest EXCEPT ![s] = 0]

\* Faulty variant: the first waiter is woken and the permit returned as well.
ReleaseTwice(s, place) ==
    /\ \/ queue = <<>> /\ UNCHANGED queue /\ pc' = [pc EXCEPT ![s] = place]
       \/ /\ queue # <<>>
          /\ queue' = Tail(queue)
          /\ pc' = [pc EXCEPT ![s] = place, ![Head(queue)] = "granted"]
    /\ permits' = permits + 1
    /\ request' = [request EXCEPT ![s] = NoRequest]
    /\ chain' = [chain EXCEPT ![s] = <<>>]
    /\ UNCHANGED rest

\* Faulty variant: nobody is woken when the permit comes back.
ReleaseWithoutWakeup(s, place) ==
    /\ permits' = permits + 1
    /\ Forget(s, place)
    /\ UNCHANGED queue

\* The holder s leaves "async with self._semaphore", however the call ended;
\* the permit goes to the first in the queue or back to the semaphore.
Release(s, place) ==
    /\ \/ /\ queue = <<>>
          /\ permits' = permits + 1
          /\ pc' = [pc EXCEPT ![s] = place]
          /\ UNCHANGED queue
       \/ /\ queue # <<>>
          /\ pc' = [pc EXCEPT ![s] = place, ![Head(queue)] = "granted"]
          /\ queue' = Tail(queue)
          /\ UNCHANGED permits
    /\ request' = [request EXCEPT ![s] = NoRequest]
    /\ chain' = [chain EXCEPT ![s] = <<>>]
    /\ UNCHANGED rest

\* The assignments of a call that carries request r to a place.
Carry(s, r, place, wait) ==
    /\ pc' = [pc EXCEPT ![s] = place]
    /\ request' = [request EXCEPT ![s] = r]
    /\ rest' = [rest EXCEPT ![s] = wait]
    /\ UNCHANGED chain

\* A token in hand, s meets the semaphore: it goes on to the wire, fails the
\* assertion of _do_send if the client is gone, or queues.
MeetSemaphore(s, r) ==
    \/ /\ permits > 0
       /\ client = "open"
       /\ permits' = permits - 1
       /\ count' = count + 1
       /\ Carry(s, r, "wire", 0)
       /\ UNCHANGED queue
    \/ /\ permits > 0
       /\ client = "closed"
       /\ count' = count + 1
       /\ Forget(s, "idle")
       /\ UNCHANGED <<permits, queue>>
    \/ /\ permits = 0
       /\ queue' = Append(queue, s)
       /\ Carry(s, r, "queued", 0)
       /\ UNCHANGED <<count, permits>>

\* One iteration of acquire() and, with a token, the semaphore.
MeetBucket(s, r) ==
    \/ TakeToken /\ MeetSemaphore(s, r)
    \/ /\ MissToken
       /\ Carry(s, r, "asleep", WaitAfterMiss)
       /\ UNCHANGED <<count, permits, queue>>

\* send(): a call that passes both checks, up to its first suspension.
Send(s, r) ==
    /\ client = "open"
    /\ pc[s] = "idle"
    /\ Check(r.url, r.method)
    /\ BudgetLeft
    /\ MeetBucket(s, r)
    /\ UNCHANGED <<client, interrupted>>

\* asyncio.sleep returns in acquire(), which tries again.
Wake(s) ==
    /\ pc[s] = "asleep"
    /\ rest[s] = 0
    /\ MeetBucket(s, request[s])
    /\ UNCHANGED <<client, interrupted>>

\* A queued call resumes with its permit and enters _do_send.
Enter(s) ==
    /\ pc[s] = "granted"
    /\ count' = count + 1
    /\ \/ /\ client = "open"
          /\ pc' = [pc EXCEPT ![s] = "wire"]
          /\ UNCHANGED <<request, chain, rest, permits, queue>>
       \/ /\ client = "closed"
          /\ Release(s, "idle")
    /\ UNCHANGED <<client, interrupted, bucketVars>>

-----------------------------------------------------------------------------
(* _do_send: what comes back for the hop in flight.                        *)

\* A final response, or a transport error recorded in Response.error; an
\* exception that is no transport error leaves the same state behind.
Answer(s) ==
    /\ pc[s] = "wire"
    /\ Release(s, "idle")
    /\ UNCHANGED <<client, interrupted, count, bucketVars>>

\* 301, 302 and 303 turn the request into a GET; the others keep the method.
NextMethod(method, rewrite) == IF rewrite THEN "GET" ELSE method

\* client.py 216: the cap on the chain, and 225: the scope of all its hops.
RedirectAllowed(s, url) ==
    /\ Len(chain[s]) < MaxRedirects
    /\ CheckRedirectChain(request[s].url, Append(chain[s], url))

\* A redirect that is followed: the next hop goes out in the same call, with
\* the permit it holds, no token and no count.
Redirect(s, url, rewrite) ==
    /\ pc[s] = "wire"
    /\ FollowRedirects
    /\ client = "open"
    /\ RedirectAllowed(s, url)
    /\ chain' = [chain EXCEPT ![s] = Append(@, url)]
    /\ request' = [request EXCEPT ![s] =
                     [url |-> url, method |-> NextMethod(@.method, rewrite)]]
    /\ UNCHANGED <<client, interrupted, pc, rest, count, permits, queue, bucketVars>>

\* A redirect beyond the cap or out of scope raises ScopeViolation; one that
\* arrives after the client was closed fails the assertion.
RedirectRefused(s, url) ==
    /\ pc[s] = "wire"
    /\ FollowRedirects
    /\ ~ RedirectAllowed(s, url) \/ client = "closed"
    /\ Release(s, "idle")
    /\ UNCHANGED <<client, interrupted, count, bucketVars>>

-----------------------------------------------------------------------------
(* Time and cancellation.                                                  *)

Tick ==
    /\ Elapse
    /\ rest' = [s \in Senders |-> IF rest[s] = 0 THEN 0 ELSE rest[s] - 1]
    /\ UNCHANGED <<client, interrupted, pc, request, chain, count, permits, queue>>

\* CancelledError at the suspension where s is.  A queued task leaves the
\* queue; a holder passes its permit on.
Cancel(s) ==
    /\ interrupted
    /\ \/ /\ pc[s] \in {"idle", "asleep"}
          /\ Forget(s, "dead")
          /\ UNCHANGED <<permits, queue>>
       \/ /\ pc[s] = "queued"
          /\ \E i \in DOMAIN queue : queue[i] = s /\ queue' = RemoveAt(queue, i)
          /\ Forget(s, "dead")
          /\ UNCHANGED permits
       \/ /\ pc[s] \in {"granted", "wire"}
          /\ Release(s, "dead")
    /\ UNCHANGED <<client, interrupted, count, bucketVars>>

Respond(s) ==
    \/ Answer(s)
    \/ \E url \in Urls :
          \/ \E rewrite \in BOOLEAN : Redirect(s, url, rewrite)
          \/ RedirectRefused(s, url)

\* Everything but the passing of time.
Step ==
    \/ Open \/ Close \/ Interrupt
    \/ \E s \in Senders :
          \/ \E r \in Requests : Send(s, r)
          \/ Wake(s) \/ Enter(s) \/ Respond(s) \/ Cancel(s)

Next == Tick \/ Step

Spec == Init /\ [][Next]_vars

\* Time passes; the loop resumes every runnable task; httpx answers or times
\* out (client.py 168 always sets a timeout).
Fairness ==
    /\ WF_vars(Tick)
    /\ \A s \in Senders : WF_vars(Wake(s)) /\ WF_vars(Enter(s)) /\ WF_vars(Respond(s))

FairSpec == Spec /\ Fairness

-----------------------------------------------------------------------------
(* Properties.                                                             *)

\* Types; the queue holds each waiting task once.
TypeOK ==
    /\ client \in {"unopened", "open", "closed"}
    /\ interrupted \in BOOLEAN
    /\ pc \in [Senders -> Places]
    /\ request \in [Senders -> Requests \cup {NoRequest}]
    /\ chain \in [Senders -> Seq(Urls)]
    /\ rest \in [Senders -> 0..Unit]
    /\ count \in Nat
    /\ permits \in 0..Capacity
    /\ queue \in Seq(Senders)
    /\ BucketTypeOK

\* The budget as the code keeps it: counted calls and calls admitted but not
\* yet counted exceed max_requests by at most the number of concurrent
\* callers less one (the check at client.py 113 precedes the waits at 119 and
\* 120).  A single sequential caller never exceeds it.
BoundedOvershoot ==
    count + Cardinality(Admitted) <= MaxRequests + Cardinality(Senders) - 1

\* No permit is lost or duplicated, in any order of answers, refusals and
\* cancellations; waiting tasks are exactly those in the queue, and nobody
\* waits while a permit is free (client.py 120).
PermitsConserved ==
    /\ permits + Cardinality(Holders) = Capacity
    /\ permits > 0 => queue = <<>>
    /\ {queue[i] : i \in DOMAIN queue} = At("queued")
    /\ Len(queue) = Cardinality(At("queued"))

\* Whatever is on the wire, after any number of redirects, is a URL in scope;
\* a request no redirect has touched is in scope with its own method, also
\* when it waited for long between the check and the wire (client.py 107).
WireInScope ==
    \A s \in At("wire") :
        /\ Check(request[s].url, "GET")
        /\ chain[s] = <<>> => Check(request[s].url, request[s].method)
        /\ Len(chain[s]) <= MaxRedirects

\* Every call comes to an end or its task is cancelled, although acquire() is
\* not first come first served: latecomers may take the token a sleeper was
\* waiting for, but the budget stops them (client.py 113, rate_limit.py 48).
EveryCallEnds ==
    \A s \in Senders : (pc[s] \notin {"idle", "dead"}) ~> (pc[s] \in {"idle", "dead"})

\* The documented budget: max_requests is "a hard cap on total sends per
\* scan" (docs/architecture.md 159).
HardCap == count <= MaxRequests

\* The documented scope of a redirect: "each hop is validated against
\* ScopeController" (docs/architecture.md 157), so a hop on the wire passes
\* the check with the method it is sent with.
HopMethodInScope ==
    \A s \in At("wire") : Check(request[s].url, request[s].method)
=============================================================================
