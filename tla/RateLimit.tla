--------------------------------- MODULE RateLimit ---------------------------------
(***************************************************************************)
(* The sliding window that limits the questions of one client:             *)
(* app/services/rate_limit.py over a sorted set in Redis, and the          *)
(* dependency that asks it (app/api/v1/deps.py).                           *)
(*                                                                         *)
(* Several threads serve questions of one client at once. A check reads    *)
(* the clock, counts its attempt in a transaction and, if it is over the   *)
(* limit, asks for the oldest attempt: three steps, between which others   *)
(* may count, prune and reset. Time is counted in seconds.                 *)
(***************************************************************************)
EXTENDS Integers, Sequences, FiniteSets

CONSTANTS Callers,     \* the threads that ask the limiter about the client
          Limit,       \* questions that are let through in a window
          Window,      \* its length
          MaxClock,    \* bound on the time
          MaxTried     \* bound on the questions: none is asked once so many are counted

ASSUME LimitAssumption == Limit \in Nat \ {0} /\ Window \in Nat \ {0}

VARIABLES clock,     \* the time
          attempts,  \* the sorted set: the score and the member of each attempt
          expiry,    \* the time Redis drops the whole set
          calls,     \* what each thread is at, the time it has read and the wait it told
          tried      \* history: the attempts that were counted since the last reset,
                     \* the time each had read, the time of its count and what was found

limitVars == <<clock, attempts, expiry, calls, tried>>

Free == [pc |-> "free", at |-> 0, wait |-> 0]

LimitInit ==
  /\ clock = 1
  /\ attempts = {}
  /\ expiry = 1
  /\ calls = [c \in Callers |-> Free]
  /\ tried = <<>>

IsAt(c, pc) == calls[c].pc = pc
Moved(c, pc) == calls' = [calls EXCEPT ![c].pc = pc]
Done(c) == calls' = [calls EXCEPT ![c] = Free]

Expired(t, now) == t <= now - Window

\* Mutant: the oldest attempt of the window is forgotten a second early.
PrunedEarly(log, now) == {a \in log : ~ a.at <= now - Window + 1}

\* The attempts of the window that ends now.
Pruned(log, now) == {a \in log : ~Expired(a.at, now)}

Allows(count) == count <= Limit

\* Mutant: the wait is counted from the latest attempt.
Latest(log) == {a \in log : \A b \in log : b.at <= a.at}

\* The first of the set; of two attempts in one second either.
Oldest(log) == {a \in log : \A b \in log : a.at <= b.at}

\* The time until an attempt has left the window.
RetryAfter(a, now) == LET wait == Window - (now - a.at) + 1 IN IF wait > 1 THEN wait ELSE 1

\* A question comes: the check reads the clock ...
Ask(c) ==
  /\ calls[c].pc \in {"free", "told"}
  /\ Len(tried) < MaxTried
  /\ calls' = [calls EXCEPT ![c] = [pc |-> "count", at |-> clock, wait |-> 0]]
  /\ UNCHANGED <<clock, attempts, expiry, tried>>

\* ... and later prunes the set by that time, adds its attempt, whether it is let
\* through or not, and renews the life of the whole set, in one transaction.
Count(c) ==
  LET now == calls[c].at
      log == Pruned(attempts, now) \union {[at |-> now, id |-> Len(tried) + 1]}
      allowed == Allows(Cardinality(log))
  IN  /\ IsAt(c, "count")
      /\ attempts' = log
      /\ expiry' = clock + Window
      /\ tried' = Append(tried, [at |-> now, counted |-> clock, allowed |-> allowed])
      /\ IF allowed THEN Done(c) ELSE Moved(c, "refused")
      /\ UNCHANGED clock

\* A refused check asks for the oldest attempt of the set as it is by then.
Reject(c) ==
  /\ IsAt(c, "refused")
  /\ \/ /\ attempts = {}
        /\ calls' = [calls EXCEPT ![c].pc = "told", ![c].wait = 0]
     \/ \E oldest \in Oldest(attempts) :
          calls' = [calls EXCEPT ![c].pc = "told", ![c].wait = RetryAfter(oldest, calls[c].at)]
  /\ UNCHANGED <<clock, attempts, expiry, tried>>

\* Redis is unreachable or its answer is lost: the question is let through.
FailOpen(c) ==
  /\ calls[c].pc \notin {"free", "told"}
  /\ Done(c)
  /\ UNCHANGED <<clock, attempts, expiry, tried>>

\* Someone asks how many questions are left: the clock is read, the set is pruned
\* by that time, and its life is renewed though no attempt is added.
AskRemaining(c) ==
  /\ calls[c].pc \in {"free", "told"}
  /\ calls' = [calls EXCEPT ![c] = [pc |-> "prune", at |-> clock, wait |-> 0]]
  /\ UNCHANGED <<clock, attempts, expiry, tried>>

Prune(c) ==
  /\ IsAt(c, "prune")
  /\ attempts' = Pruned(attempts, calls[c].at)
  /\ Moved(c, "renew")
  /\ UNCHANGED <<clock, expiry, tried>>

Renew(c) ==
  /\ IsAt(c, "renew")
  /\ expiry' = clock + Window
  /\ Done(c)
  /\ UNCHANGED <<clock, attempts, tried>>

\* The client's window is forgotten.
Reset ==
  /\ attempts' = {}
  /\ tried' = <<>>
  /\ UNCHANGED <<clock, expiry, calls>>

\* A second passes.
Tick ==
  /\ clock < MaxClock
  /\ clock' = clock + 1
  /\ attempts' = IF expiry <= clock' THEN {} ELSE attempts
  /\ UNCHANGED <<expiry, calls, tried>>

LimitNext ==
  \/ Tick \/ Reset
  \/ \E c \in Callers : Ask(c) \/ Count(c) \/ Reject(c) \/ FailOpen(c)
                        \/ AskRemaining(c) \/ Prune(c) \/ Renew(c)

LimitSpec == LimitInit /\ [][LimitNext]_limitVars

-----------------------------------------------------------------------------

\* Of the questions that come and are counted within one window, wherever it
\* begins, at most the limit is let through, other than by a failing Redis
\* (check: "fail open"), whatever was pruned by clocks that are read early or late
\* and whatever expired. (A question that is counted a window or more after it
\* read the clock is let through beyond the limit.) And none is refused without
\* need: more than the limit has come since its window began.
WindowIsKept ==
  \A k \in DOMAIN tried :
    /\ Cardinality({i \in 1 .. k : tried[i].allowed /\ tried[i].at > tried[k].counted - Window}) <= Limit
    /\ ~tried[k].allowed =>
         Cardinality({i \in 1 .. k : tried[i].at > tried[k].at - Window}) > Limit

\* Whoever is told to wait is not told more than is needed for any attempt, and so
\* its own, that is still in the window when it is told; is told to wait at all
\* while there is one; and finds at the end an attempt gone that was not gone two
\* seconds before, unless it is told the least (_check).
WaitIsTrue ==
  [][\A c \in Callers : calls[c].pc = "refused" /\ calls'[c].pc = "told" =>
       LET recent == {j \in DOMAIN tried : ~Expired(tried[j].at, clock)}
           wait == calls'[c].wait
           end == calls'[c].at + wait
       IN  /\ \A i \in recent : wait > 0 /\ end <= tried[i].at + Window + 1
           /\ wait > 0 => \E i \in DOMAIN tried :
                /\ Expired(tried[i].at, end)
                /\ wait = 1 \/ ~Expired(tried[i].at, end - 2)]_limitVars

=============================================================================
