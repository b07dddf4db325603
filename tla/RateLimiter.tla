---------------------------- MODULE RateLimiter ----------------------------
(***************************************************************************)
(* The fixed-window limiter of pkg/middleware/ratelimit.go.  Allow and the *)
(* goroutine that removes old entries hold one lock, so each is one step.  *)
(* The clock of the process only rises.  When the ticker of the goroutine  *)
(* fires is left open: a busy process may be late for it.                  *)
(***************************************************************************)
EXTENDS Naturals, Sequences

CONSTANTS
  Keys,     \* the addresses of the clients
  MaxReqs,
  Window,
  MaxNow    \* bounds the clock

ASSUME LimitAssumption ==
  /\ MaxReqs \in Nat /\ MaxReqs > 0
  /\ Window \in Nat /\ Window > 0
  /\ MaxNow \in Nat

VARIABLES
  now,
  entries,   \* the keys of the map
  count,     \* of the entry of a key
  windowAt,
  allowed    \* history: when the requests of a key were let through

limiterVars == <<now, entries, count, windowAt, allowed>>

LimiterTypeOK ==
  /\ now \in Nat
  /\ entries \subseteq Keys
  /\ count \in [Keys -> Nat]
  /\ windowAt \in [Keys -> Nat]
  /\ allowed \in [Keys -> Seq(Nat)]

LimiterInit ==
  /\ now = 0
  /\ entries = {}
  /\ count = [k \in Keys |-> 0]
  /\ windowAt = [k \in Keys |-> 0]
  /\ allowed = [k \in Keys |-> <<>>]

\* now.Sub(entry.windowAt) >= span
IsPast(k, span) == now >= windowAt[k] + span

Elapse ==
  /\ now < MaxNow
  /\ now' = now + 1
  /\ UNCHANGED <<entries, count, windowAt, allowed>>

LetThrough(k) == allowed' = [allowed EXCEPT ![k] = Append(@, now)]

NewWindow(k) ==
  /\ k \in entries => IsPast(k, Window)
  /\ entries' = entries \cup {k}
  /\ count' = [count EXCEPT ![k] = 1]
  /\ windowAt' = [windowAt EXCEPT ![k] = now]
  /\ LetThrough(k)
  /\ UNCHANGED now

\* A refused request changes nothing.
SameWindow(k) ==
  /\ k \in entries
  /\ ~ IsPast(k, Window)
  /\ count[k] < MaxReqs
  /\ count' = [count EXCEPT ![k] = @ + 1]
  /\ LetThrough(k)
  /\ UNCHANGED <<now, entries, windowAt>>

\* The mutant of cleanup removes what is older than half a window.
KeptForHalf == {k \in entries : ~ IsPast(k, Window \div 2)}
Kept == {k \in entries : ~ IsPast(k, Window * 2)}

cleanup ==
  /\ Kept # entries
  /\ entries' = Kept
  /\ UNCHANGED <<now, count, windowAt, allowed>>

LimiterNext ==
  \/ Elapse
  \/ \E k \in Keys : NewWindow(k) \/ SameWindow(k)
  \/ cleanup

LimiterSpec == LimiterInit /\ [][LimiterNext]_limiterVars

-----------------------------------------------------------------------------
\* However windows end, are replaced and are cleaned up, a key gets no more than twice
\* the limit through in one span of a window: of 2 * MaxReqs + 1 requests in a row the
\* last comes at least a window after the first.
TwiceAtMost ==
  \A k \in Keys : \A i \in 1 .. Len(allowed[k]) :
    i + 2 * MaxReqs <= Len(allowed[k])
      => allowed[k][i + 2 * MaxReqs] >= allowed[k][i] + Window
=============================================================================
