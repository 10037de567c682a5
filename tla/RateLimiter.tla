---------------------------- MODULE RateLimiter ----------------------------
(***************************************************************************)
(* The sliding-window limiter of api/app/core/ratelimit.py: the requests   *)
(* of one key (endpoint, address, and e-mail for the login), counted in    *)
(* Redis by a script that runs as one step.                                *)
(*                                                                         *)
(* The scores come from the clocks of the API processes, which differ; the *)
(* key expires by the clock of Redis.                                      *)
(***************************************************************************)
EXTENDS Integers, FiniteSets

CONSTANTS
  Servers,   \* API processes
  Skew,      \* function from Servers: how far its clock is ahead of Redis'
  Limit, Window,
  MaxNow, MaxCalls  \* bounds: the time that passes, the requests in it

ASSUME LimiterAssumption ==
  /\ Skew \in [Servers -> Nat] /\ Limit \in Nat /\ Window \in Nat \ {0}
  /\ MaxNow \in Nat /\ MaxCalls \in Nat
  /\ \E p \in Servers : \A q \in Servers : Skew[q] <= Skew[p]

VARIABLES
  now,      \* Redis' clock
  entries,  \* the sorted set: <<score, member>>
  expires,  \* when the key expires
  calls     \* history: what came when and how it was answered

rateVars == <<now, entries, expires, calls>>

MaxSkew == CHOOSE k \in {Skew[p] : p \in Servers} :
             \A p \in Servers : Skew[p] <= k

Calls == 1..MaxCalls

RateTypeOK ==
  /\ now \in 0..MaxNow /\ expires \in 0..(MaxNow + Window)
  /\ entries \in SUBSET (Nat \X Calls)
  /\ calls \in SUBSET [id : Calls, time : 0..MaxNow,
                       answer : {"counted", "limited", "uncounted"}]

RateInit == now = 0 /\ entries = {} /\ expires = 0 /\ calls = {}

-----------------------------------------------------------------------------

Answered(how) ==
  calls' = calls \cup
             {[id |-> Cardinality(calls) + 1, time |-> now, answer |-> how]}

\* Mutant: the member is the time alone, so requests of one millisecond
\* overwrite each other.
AddedByTime(score) ==
  {e \in entries : e[1] # score} \cup {<<score, Cardinality(calls) + 1>>}

\* ZADD with a member of its own.
Added(score) == entries \cup {<<score, Cardinality(calls) + 1>>}

\* ZREMRANGEBYSCORE removes the scores up to now - window.
InWindow(score) == {e \in Added(score) : e[1] > score - Window}

\* The script; EXPIRE counts anew from every call.
Counted(p) ==
  /\ Cardinality(calls) < MaxCalls
  /\ entries' = InWindow(now + Skew[p])
  /\ expires' = now + Window
  /\ UNCHANGED now

\* A limited request stays counted.
Request(p) ==
  /\ Counted(p)
  /\ Answered(IF Cardinality(entries') > Limit THEN "limited" ELSE "counted")

\* The answer of Redis is lost after the script ran: the request passes.
RequestUnanswered(p) == Counted(p) /\ Answered("uncounted")

\* Redis is not configured or not reached: the request passes.
RequestWithoutRedis ==
  /\ Cardinality(calls) < MaxCalls
  /\ Answered("uncounted")
  /\ UNCHANGED <<now, entries, expires>>

Tick ==
  /\ now < MaxNow
  /\ now' = now + 1
  /\ entries' = IF now' >= expires THEN {} ELSE entries
  /\ UNCHANGED <<expires, calls>>

RateNext ==
  \/ \E p \in Servers : Request(p) \/ RequestUnanswered(p)
  \/ RequestWithoutRedis
  \/ Tick

RateSpec == RateInit /\ [][RateNext]_rateVars

-----------------------------------------------------------------------------
(* Properties                                                              *)

CountedUpTo(c) ==
  {d \in calls : /\ d.answer = "counted" /\ d.id <= c.id
                 /\ c.time - d.time < Window - MaxSkew}
Reasons(c) ==
  {d \in calls : d.id < c.id /\ c.time - d.time < Window + MaxSkew}

\* Up to the difference between the clocks of the processes, the window
\* slides.  No shorter window passes more than limit requests, those that
\* failed open aside, whichever processes served them; and a request is
\* limited only if as many others as the limit came in one that is longer by
\* as much, so a caller that stops for so long is served again
\* (ratelimit.py:72-81, 186-189).
SlidingWindow ==
  \A c \in calls :
    /\ c.answer = "counted" => Cardinality(CountedUpTo(c)) <= Limit
    /\ c.answer = "limited" => Cardinality(Reasons(c)) >= Limit

=============================================================================
