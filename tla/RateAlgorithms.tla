----------------------------- MODULE RateAlgorithms -----------------------------
(***************************************************************************)
(* The four algorithms of the rate-limiter package, twice: as the classes  *)
(* that work on a state read from a store, and as the Lua script that      *)
(* works on a key of Redis.  An algorithm takes a state, a weight and a    *)
(* time to a verdict: allowed or not, the resetAt it answers, the next     *)
(* state.  Times are ticks.                                                *)
(***************************************************************************)
EXTENDS Filters

CONSTANTS Limit,         \* maxRequests, bucketSize
          Window,        \* windowMs
          TokenTicks,    \* the ticks it takes to earn one token
          InitialTokens

Algorithms == {"fixed-window", "sliding-window-log", "sliding-window-counter", "token-bucket"}

Verdict(allowed, resetAt, next) == [allowed |-> allowed, resetAt |-> resetAt, state |-> next]

WindowStart(t) == (t \div Window) * Window

Least(a, b) == IF a < b THEN a ELSE b

-----------------------------------------------------------------------------
(* The classes *)

InitialState(algorithm, now) ==
  CASE algorithm = "fixed-window" -> [start |-> 0, count |-> 0]
    [] algorithm = "sliding-window-log" -> <<>>
    [] algorithm = "sliding-window-counter" -> [start |-> WindowStart(now), count |-> 0, prev |-> 0]
    [] algorithm = "token-bucket" ->
         [parts |-> Least(InitialTokens, Limit) * TokenTicks, at |-> now]

\* A request that is refused is counted, too.
FixedWindow(s, w, now) ==
  LET start == WindowStart(now)
      count == IF start # s.start THEN w ELSE s.count + w
  IN  Verdict(count <= Limit, start + Window, [start |-> start, count |-> count])

Fresh(log, now) == Only(log, (now - Window + 1)..now)

\* Mistake: the last one to leave instead of the one that makes room.
MutSlidingLog(log, w, now) ==
  LET valid == Fresh(log, now)
      room  == Len(valid) + w <= Limit
      next  == IF room THEN valid \o [i \in 1..w |-> now] ELSE valid
  IN  Verdict(room, next[1] + Window, next)

\* Refused: resetAt is when enough of the oldest will have left.
SlidingLog(log, w, now) ==
  LET valid == Fresh(log, now)
      room  == Len(valid) + w <= Limit
      next  == IF room THEN valid \o [i \in 1..w |-> now] ELSE valid
      leaver == CASE ~room -> valid[Len(valid) - Limit + w]
                  [] room /\ next # <<>> -> next[1]
                  [] room /\ next = <<>> -> now
  IN  Verdict(room, leaver + Window, next)

\* The estimate, in units of one Window-th of a request.
Estimate(count, prev, now) == count * Window + prev * (Window - (now - WindowStart(now)))

SlidingCounter(s, w, now) ==
  LET start == WindowStart(now)
      moved == start > s.start
      prev  == IF moved THEN s.count ELSE s.prev   \* however old it is
      count == IF moved THEN 0 ELSE s.count
      room  == Estimate(count, prev, now) + w * Window <= Limit * Window
      resetAt == IF room \/ count > 0
                 THEN start + Window
                 ELSE start + Window - (Window * (Limit - w)) \div (IF prev = 0 THEN 1 ELSE prev)
  IN  Verdict(room, resetAt,
              [start |-> start, count |-> IF room THEN count + w ELSE count, prev |-> prev])

Refilled(s, now) == Least(s.parts + (now - s.at), Limit * TokenTicks)

\* Refused: resetAt is when the tokens suffice; else, when the bucket is full.
TokenBucket(s, w, now) ==
  LET parts == Refilled(s, now)
      cost  == w * TokenTicks
      room  == parts >= cost
      left  == IF room THEN parts - cost ELSE parts
      resetAt == now + (IF room THEN Limit * TokenTicks - left ELSE cost - parts)
  IN  Verdict(room, resetAt, [parts |-> left, at |-> now])

Consume(algorithm, s, w, now) ==
  CASE algorithm = "fixed-window" -> FixedWindow(s, w, now)
    [] algorithm = "sliding-window-log" -> SlidingLog(s, w, now)
    [] algorithm = "sliding-window-counter" -> SlidingCounter(s, w, now)
    [] algorithm = "token-bucket" -> TokenBucket(s, w, now)

-----------------------------------------------------------------------------
(* The script, which asks for room before it looks at the weight *)

LuaInitialState(algorithm, now) ==
  IF algorithm = "token-bucket"
  THEN [parts |-> Limit * TokenTicks, at |-> now]   \* whatever InitialTokens is
  ELSE InitialState(algorithm, now)

LuaFixedWindow(s, w, now) ==
  LET start == WindowStart(now)
      count == IF start # s.start THEN 0 ELSE s.count
      room  == count < Limit
  IN  Verdict(room, start + Window,
              [start |-> start, count |-> IF room THEN count + w ELSE count])

LuaSlidingLog(log, w, now) ==
  LET valid == Fresh(log, now)
      room  == Len(valid) < Limit
      next  == IF room THEN valid \o [i \in 1..w |-> now] ELSE valid
  IN  Verdict(room, (IF next = <<>> THEN now ELSE next[1]) + Window, next)

LuaSlidingCounter(s, w, now) ==
  LET start == WindowStart(now)
      moved == start # s.start
      prev  == CASE ~moved -> s.prev
                 [] moved /\ s.start = start - Window -> s.count
                 [] moved /\ s.start # start - Window -> 0
      count == IF moved THEN 0 ELSE s.count
      room  == Estimate(count, prev, now) < Limit * Window
  IN  Verdict(room, start + Window,
              [start |-> start, count |-> IF room THEN count + w ELSE count, prev |-> prev])

LuaTokenBucket(s, w, now) ==
  LET parts == Refilled(s, now)
      room  == parts >= w * TokenTicks
      left  == IF room THEN parts - w * TokenTicks ELSE parts
  IN  Verdict(room, now + (Limit * TokenTicks - left), [parts |-> left, at |-> now])

LuaConsume(algorithm, s, w, now) ==
  CASE algorithm = "fixed-window" -> LuaFixedWindow(s, w, now)
    [] algorithm = "sliding-window-log" -> LuaSlidingLog(s, w, now)
    [] algorithm = "sliding-window-counter" -> LuaSlidingCounter(s, w, now)
    [] algorithm = "token-bucket" -> LuaTokenBucket(s, w, now)
=============================================================================
