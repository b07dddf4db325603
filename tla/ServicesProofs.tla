--------------------------- MODULE ServicesProofs ---------------------------
(***************************************************************************)
(* Proofs about the services around the engine: Users, RateLimiter, Orgs   *)
(* and Server.  No theorem about one of them speaks of another.            *)
(***************************************************************************)
EXTENDS Users, RateLimiter, Orgs, Server, DataLemmas, SequenceTheorems, TLAPS

-----------------------------------------------------------------------------
(* Users, for every set of requests and without a bound on the            *)
(* goroutines that delete a key.                                           *)

Moved == {"lookup", "query", "put", "check", "done", "nick", "info", "pass", "perms", "clear",
          "read", "upinfo", "upass", "active", "perm", "login", "stamp"}

Arrived == [at : Moved, kind : Kinds, own : BOOLEAN, got : UserRows, isup : BOOLEAN]
Coming == [at : {"new"}]

UsersTypeOK ==
  /\ user \in UserRows
  /\ entry \in SUBSET [value : UserRows, fresh : BOOLEAN]
  /\ behind \in BOOLEAN /\ stamped \in BOOLEAN /\ hasInfo \in BOOLEAN
  /\ calls \in [Calls -> Coming \cup Arrived]

\* A writer has changed the row and has still to clear the cache.
Clears == \E c \in Calls : At(c, "info") \/ At(c, "clear")

\* The inductive invariant: a copy that is no longer in time differs from the row
\* for the same reasons.
BehindForReason ==
  \A e \in entry : /\ Managed(e.value) # Managed(user) => behind \/ Clears
                   /\ e.value.login # user.login => stamped
UsersInv == UsersTypeOK /\ BehindForReason

\* Only the request c moves, to a place.
MovesTo(c, at) ==
  /\ calls' \in [Calls -> Coming \cup Arrived]
  /\ calls'[c].at = at
  /\ \A d \in Calls \ {c} : calls'[d] = calls[d]

\* A request that has come in moves to another place and takes nothing else along.
LEMMA GoMoves ==
  ASSUME UsersTypeOK, NEW c \in Calls, calls[c].at # "new", NEW at \in Moved, Go(c, at)
  PROVE  MovesTo(c, at)
<1>1. calls[c] \in Arrived
  BY DEF UsersTypeOK, Coming
<1> DEFINE r == [calls[c] EXCEPT !.at = at]
<1>2. r \in Arrived /\ r.at = at
  BY <1>1 DEF Arrived
<1>3. calls' = [calls EXCEPT ![c] = r]
  BY DEF Go
<1>4. QED
  BY <1>2, <1>3 DEF UsersTypeOK, MovesTo

\* The same when it takes a row along.
LEMMA GoReads ==
  ASSUME UsersTypeOK, NEW c \in Calls, calls[c].at # "new", NEW at \in Moved, NEW got \in UserRows,
         calls' = [calls EXCEPT ![c].at = at, ![c].got = got]
  PROVE  MovesTo(c, at)
<1>1. calls[c] \in Arrived
  BY DEF UsersTypeOK, Coming
<1> DEFINE r == [calls[c] EXCEPT !.at = at, !.got = got]
<1>2. r \in Arrived /\ r.at = at
  BY <1>1 DEF Arrived
<1>3. calls' = [calls EXCEPT ![c] = r]
  OBVIOUS
<1>4. QED
  BY <1>2, <1>3 DEF UsersTypeOK, MovesTo

\* The same when it takes along that there is a second row.
LEMMA GoAsks ==
  ASSUME UsersTypeOK, NEW c \in Calls, calls[c].at # "new", NEW at \in Moved, NEW up \in BOOLEAN,
         calls' = [calls EXCEPT ![c].at = at, ![c].isup = up]
  PROVE  MovesTo(c, at)
<1>1. calls[c] \in Arrived
  BY DEF UsersTypeOK, Coming
<1> DEFINE r == [calls[c] EXCEPT !.at = at, !.isup = up]
<1>2. r \in Arrived /\ r.at = at
  BY <1>1 DEF Arrived
<1>3. calls' = [calls EXCEPT ![c] = r]
  OBVIOUS
<1>4. QED
  BY <1>2, <1>3 DEF UsersTypeOK, MovesTo

\* What neither changes the row nor the cache, nor ends the way to the clearing.
LEMMA MoveStep ==
  ASSUME UsersInv, NEW c \in Calls, NEW at, MovesTo(c, at), UNCHANGED <<user, entry, behind, stamped>>, hasInfo' \in BOOLEAN,
         calls[c].at \in {"info", "clear"} => at = "clear"
  PROVE  UsersInv'
<1>1. Clears => Clears'
  BY DEF Clears, At, MovesTo
<1>2. BehindForReason'
  BY <1>1 DEF UsersInv, BehindForReason
<1>3. UsersTypeOK'
  BY DEF UsersInv, UsersTypeOK, MovesTo
<1>4. QED
  BY <1>2, <1>3 DEF UsersInv

\* What changes the row is on its way to the clearing.
LEMMA WriteStep ==
  ASSUME UsersInv, NEW c \in Calls, NEW at \in {"info", "clear"}, MovesTo(c, at),
         UNCHANGED <<entry, behind, stamped>>, user' \in UserRows, user'.login = user.login,
         hasInfo' \in BOOLEAN
  PROVE  UsersInv'
<1>1. Clears'
  BY DEF Clears, At, MovesTo
<1>2. BehindForReason'
  BY <1>1 DEF UsersInv, BehindForReason
<1>3. UsersTypeOK'
  BY DEF UsersInv, UsersTypeOK, MovesTo
<1>4. QED
  BY <1>2, <1>3 DEF UsersInv

\* What gives up the clearing, or does it.
LEMMA ClearStep ==
  ASSUME UsersInv, NEW c \in Calls, NEW at, MovesTo(c, at), UNCHANGED <<user, hasInfo>>,
         \/ entry' = {} /\ behind' = FALSE /\ stamped' = FALSE
         \/ entry' = entry /\ behind' = (entry # {}) /\ stamped' = stamped
  PROVE  UsersInv'
<1>1. BehindForReason'
  <2>1. CASE entry' = {}
    BY <2>1 DEF BehindForReason
  <2>2. CASE entry' = entry /\ behind' = (entry # {}) /\ stamped' = stamped
    <3> SUFFICES ASSUME NEW e \in entry
                 PROVE  behind' /\ (e.value.login # user.login => stamped)
      BY <2>2 DEF BehindForReason
    <3> QED BY <2>2 DEF UsersInv, BehindForReason
  <2> QED BY <2>1, <2>2
<1>2. UsersTypeOK'
  BY DEF UsersInv, UsersTypeOK, MovesTo
<1>3. QED
  BY <1>1, <1>2 DEF UsersInv

\* A row is read, into the request or from there into the cache.
LEMMA PutStep ==
  ASSUME UsersInv, NEW c \in Calls, PutEntry(c)
  PROVE  UsersInv'
<1>1. MovesTo(c, "check")
  BY GoMoves DEF UsersInv, PutEntry, At, Moved
<1>2. CASE UNCHANGED <<entry, behind, stamped>>
  BY <1>1, <1>2, MoveStep DEF UsersInv, UsersTypeOK, PutEntry, At
<1>3. CASE entry' = {[value |-> calls[c].got, fresh |-> TRUE]}
           /\ behind' = (Managed(calls[c].got) # Managed(user))
           /\ stamped' = (calls[c].got.login # user.login)
  <2>1. calls[c].got \in UserRows
    BY DEF UsersInv, UsersTypeOK, PutEntry, At, Coming, Arrived
  <2>2. [value |-> calls[c].got, fresh |-> TRUE] \in [value : UserRows, fresh : BOOLEAN]
    BY <2>1
  <2>3. UsersTypeOK'
    BY <1>1, <1>3, <2>2 DEF UsersInv, UsersTypeOK, PutEntry, MovesTo
  <2>4. BehindForReason'
    <3>1. UNCHANGED user
      BY DEF PutEntry
    <3>2. \A e \in entry' : e.value = calls[c].got
      BY <1>3
    <3> QED
      BY <1>3, <3>1, <3>2 DEF BehindForReason
  <2>5. QED
    BY <2>3, <2>4 DEF UsersInv
<1>4. QED
  BY <1>2, <1>3 DEF PutEntry

\* No step leaves the invariant.
LEMMA StepUsersInv == UsersInv /\ [UsersNext]_usersVars => UsersInv'
<1> SUFFICES ASSUME UsersInv, [UsersNext]_usersVars PROVE UsersInv'
  OBVIOUS
<1>0. UsersTypeOK /\ hasInfo \in BOOLEAN
  BY DEF UsersInv, UsersTypeOK
<1>1. ASSUME NEW c \in Calls, Arrive(c) PROVE UsersInv'
  <2>1. PICK kind \in Kinds, own \in BOOLEAN :
          /\ ~ own => kind # "read"
          /\ calls' = [calls EXCEPT ![c] = [at |-> IF own THEN "lookup" ELSE kind, kind |-> kind,
                                            own |-> own, got |-> user, isup |-> FALSE]]
    BY <1>1 DEF Arrive
  <2> DEFINE at == IF own THEN "lookup" ELSE kind
             r == [at |-> at, kind |-> kind, own |-> own, got |-> user, isup |-> FALSE]
  <2>2. at \in Moved
    BY DEF Moved, Kinds
  <2>3. r \in Arrived /\ r.at = at
    BY <1>0, <2>2 DEF Arrived, UsersTypeOK
  <2>4. MovesTo(c, at)
    BY <1>0, <2>1, <2>3 DEF UsersTypeOK, MovesTo
  <2>5. QED
    BY <1>0, <1>1, <2>4, MoveStep DEF Arrive, At
<1>2. ASSUME NEW c \in Calls, LookUp(c) PROVE UsersInv'
  <2>1. CASE \E e \in entry : calls' = [calls EXCEPT ![c].at = "check", ![c].got = e.value]
    <3>1. PICK e \in entry : calls' = [calls EXCEPT ![c].at = "check", ![c].got = e.value]
      BY <2>1
    <3>2. e.value \in UserRows
      BY <1>0 DEF UsersTypeOK
    <3>3. MovesTo(c, "check")
      BY <1>0, <1>2, <3>1, <3>2, GoReads DEF LookUp, At, Moved
    <3>4. QED
      BY <1>0, <1>2, <3>3, MoveStep DEF LookUp, At
  <2>2. CASE Go(c, "query")
    <3>1. MovesTo(c, "query")
      BY <1>0, <1>2, <2>2, GoMoves DEF LookUp, At, Moved
    <3>2. QED
      BY <1>0, <1>2, <3>1, MoveStep DEF LookUp, At
  <2>3. QED
    BY <1>2, <2>1, <2>2 DEF LookUp
<1>3. ASSUME NEW c \in Calls, Query(c) PROVE UsersInv'
  <2>1. user \in UserRows
    BY <1>0 DEF UsersTypeOK
  <2>2. MovesTo(c, "put")
    BY <1>0, <1>3, <2>1, GoReads DEF Query, At, Moved
  <2>3. QED
    BY <1>0, <1>3, <2>2, MoveStep DEF Query, At
<1>4. ASSUME NEW c \in Calls, MidUserCheck(c) PROVE UsersInv'
  <2>1. calls[c].kind \in Kinds
    BY <1>0, <1>4 DEF UsersTypeOK, MidUserCheck, At, Coming, Arrived
  <2> DEFINE at == IF calls[c].got.active THEN calls[c].kind ELSE "done"
  <2>2. at \in Moved
    BY <2>1 DEF Moved, Kinds
  <2>3. MovesTo(c, at)
    BY <1>0, <1>4, <2>2, GoMoves DEF MidUserCheck, At
  <2>4. QED
    BY <1>0, <1>4, <2>3, MoveStep DEF MidUserCheck, At
<1>5. ASSUME NEW c \in Calls, Read(c) PROVE UsersInv'
  BY <1>0, <1>5, GoMoves, MoveStep DEF Read, At, Moved
<1>6. ASSUME NEW c \in Calls, NEW at \in {"nick", "pass", "active", "perms", "stamp"}, Refused(c, at)
      PROVE  UsersInv'
  BY <1>0, <1>6, GoMoves, MoveStep DEF Refused, At, Moved
<1>7. ASSUME NEW c \in Calls, upinfo(c) \/ perm(c) PROVE UsersInv'
  <2>1. PICK at \in {"nick", "perms"} :
          calls' = [calls EXCEPT ![c].at = at, ![c].isup = hasInfo]
    BY <1>7 DEF upinfo, perm
  <2>2. MovesTo(c, at)
    BY <1>0, <1>7, <2>1, GoAsks DEF upinfo, perm, At, Moved, UsersTypeOK
  <2>3. QED
    BY <1>0, <1>7, <2>2, MoveStep DEF upinfo, perm, At, UsersTypeOK
<1>8. ASSUME NEW c \in Calls, WriteInfo(c) \/ WritePerm(c) PROVE UsersInv'
  BY <1>0, <1>8, GoMoves, MoveStep DEF WriteInfo, WritePerm, At, Moved
<1>9. ASSUME NEW c \in Calls, upass(c) PROVE UsersInv'
  <2>1. PICK at \in {"done", "pass"} : Go(c, at)
    BY <1>9 DEF upass
  <2>2. MovesTo(c, at)
    BY <1>0, <1>9, <2>1, GoMoves DEF upass, At, Moved
  <2>3. QED
    BY <1>0, <1>9, <2>2, MoveStep DEF upass, At, UsersTypeOK
<1>10. ASSUME NEW c \in Calls, UpdateNick(c) PROVE UsersInv'
  <2>1. user' \in UserRows /\ user'.login = user.login
    BY <1>0, <1>10 DEF UpdateNick, UsersTypeOK, UserRows
  <2>2. MovesTo(c, "info")
    BY <1>0, <1>10, GoMoves DEF UpdateNick, At, Moved
  <2>3. QED
    BY <1>0, <1>10, <2>1, <2>2, WriteStep DEF UpdateNick, UsersTypeOK
<1>11. ASSUME NEW c \in Calls, UpdatePass(c) \/ active(c) PROVE UsersInv'
  <2>1. user' \in UserRows /\ user'.login = user.login
    BY <1>0, <1>11 DEF UpdatePass, active, UsersTypeOK, UserRows
  <2>2. MovesTo(c, "clear")
    BY <1>0, <1>11, GoMoves DEF UpdatePass, active, At, Moved
  <2>3. QED
    BY <1>0, <1>11, <2>1, <2>2, WriteStep DEF UpdatePass, active, UsersTypeOK
<1>12. ASSUME NEW c \in Calls, InfoFails(c) \/ ClearUserCache(c) PROVE UsersInv'
  <2>1. MovesTo(c, "done")
    BY <1>0, <1>12, GoMoves DEF InfoFails, ClearUserCache, At, Moved
  <2>2. QED
    BY <1>12, <2>1, ClearStep DEF InfoFails, ClearUserCache
<1>13. CASE DeleteExpired \/ mainCacheClear
  <2>1. entry' = {} /\ behind' = FALSE /\ stamped' = FALSE /\ UNCHANGED <<user, hasInfo, calls>>
    BY <1>13 DEF DeleteExpired, mainCacheClear
  <2>2. QED
    BY <2>1 DEF UsersInv, UsersTypeOK, BehindForReason
<1>14. CASE Expire
  <2>1. entry' = {[e EXCEPT !.fresh = FALSE] : e \in entry} /\ UNCHANGED <<user, hasInfo, calls, behind, stamped>>
    BY <1>14 DEF Expire
  <2>2. ASSUME NEW d \in entry'
        PROVE  d \in [value : UserRows, fresh : BOOLEAN] /\ \E e \in entry : d.value = e.value
    <3>1. PICK e \in entry : d = [e EXCEPT !.fresh = FALSE]
      BY <2>1, <2>2
    <3>2. e \in [value : UserRows, fresh : BOOLEAN]
      BY <1>0 DEF UsersTypeOK
    <3>3. d \in [value : UserRows, fresh : BOOLEAN] /\ d.value = e.value
      BY <3>1, <3>2
    <3>4. QED
      BY <3>3
  <2>3. UsersTypeOK'
    BY <1>0, <2>1, <2>2 DEF UsersTypeOK
  <2>4. Clears' <=> Clears
    BY <2>1 DEF Clears, At
  <2>5. BehindForReason'
    <3> SUFFICES ASSUME NEW d \in entry'
                 PROVE  /\ Managed(d.value) # Managed(user) => behind \/ Clears
                        /\ d.value.login # user.login => stamped
      BY <2>1, <2>4 DEF BehindForReason, Managed
    <3>1. PICK e \in entry : d.value = e.value
      BY <2>2
    <3> QED
      BY <3>1 DEF UsersInv, BehindForReason
  <2>6. QED
    BY <2>3, <2>5 DEF UsersInv
<1>15. ASSUME NEW c \in Calls, login(c) PROVE UsersInv'
  <2>1. PICK at \in {"done", "stamp"} : Go(c, at)
    BY <1>15 DEF login
  <2>2. MovesTo(c, at)
    BY <1>0, <1>15, <2>1, GoMoves DEF login, At, Moved
  <2>3. QED
    BY <1>0, <1>15, <2>2, MoveStep DEF login, At, UsersTypeOK
<1>16. ASSUME NEW c \in Calls, StampLogin(c) PROVE UsersInv'
  <2>1. user' \in UserRows /\ Managed(user') = Managed(user)
    BY <1>0, <1>16 DEF StampLogin, UsersTypeOK, UserRows, Managed
  <2>2. MovesTo(c, "done") /\ UNCHANGED <<hasInfo, entry, behind>> /\ stamped' = (entry # {})
    BY <1>0, <1>16, GoMoves DEF StampLogin, At, Moved
  <2>3. Clears => Clears'
    BY <1>16, <2>2 DEF Clears, At, MovesTo, StampLogin
  <2>4. BehindForReason'
    <3> SUFFICES ASSUME NEW e \in entry
                 PROVE  /\ Managed(e.value) # Managed(user') => behind' \/ Clears'
                        /\ stamped'
      BY <2>2 DEF BehindForReason, Managed
    <3> QED
      BY <2>1, <2>2, <2>3 DEF UsersInv, BehindForReason
  <2>5. UsersTypeOK'
    BY <1>0, <2>1, <2>2 DEF UsersTypeOK, MovesTo
  <2>6. QED
    BY <2>4, <2>5 DEF UsersInv
<1>17. CASE UNCHANGED usersVars
  BY <1>17 DEF usersVars, UsersInv, UsersTypeOK, BehindForReason, Clears, At
<1>18. QED
  BY <1>1, <1>2, <1>3, <1>4, PutStep, <1>5, <1>6, <1>7, <1>8, <1>9, <1>10, <1>11, <1>12,
     <1>13, <1>14, <1>15, <1>16, <1>17 DEF UsersNext

\* An empty cache satisfies it.
LEMMA InitUsersInv == UsersInit => UsersInv
<1> SUFFICES ASSUME UsersInit PROVE UsersInv
  OBVIOUS
<1>1. user \in UserRows
  BY DEF UsersInit, UserRows
<1>2. calls \in [Calls -> Coming \cup Arrived]
  BY DEF UsersInit, Coming
<1>3. QED
  BY <1>1, <1>2 DEF UsersInit, UsersInv, UsersTypeOK, BehindForReason

\* A copy of a user in the cache that is in time differs from the row only for the
\* reasons StaleForReason names, and by a login in its time alone, whatever the order of
\* GetUserCacheCtx, ClearUserCache, the updates of route/user.go, the one of login and
\* the goroutines that delete keys.
THEOREM CopiesAreRightOrExcused == UsersSpec => []StaleForReason
<1>1. UsersInv => StaleForReason
  BY DEF UsersInv, BehindForReason, Clears, StaleForReason
<1>2. QED
  BY InitUsersInv, StepUsersInv, <1>1, PTL DEF UsersSpec

-----------------------------------------------------------------------------
(* RateLimiter, for every set of keys, every limit and every span of a     *)
(* window, and without a bound on what is let through.                     *)

\* What was let through for a key lies in the past.
PastOnly(k) == \A i \in 1 .. Len(allowed[k]) : allowed[k][i] <= now

\* While a key has an entry: the last count[k] requests came in its window, what came
\* before came no later than its start, and all but the limit of those came a whole
\* window before it.
InWindow(k) ==
  /\ 1 <= count[k] /\ count[k] <= MaxReqs /\ count[k] <= Len(allowed[k])
  /\ windowAt[k] <= now
  /\ \A i \in 1 .. Len(allowed[k]) :
       /\ allowed[k][i] < windowAt[k] + Window
       /\ i + count[k] <= Len(allowed[k]) => allowed[k][i] <= windowAt[k]
       /\ i + count[k] + MaxReqs <= Len(allowed[k]) => allowed[k][i] + Window <= windowAt[k]

\* While it has none, nothing counts any more.
OutOfWindow(k) == \A i \in 1 .. Len(allowed[k]) : allowed[k][i] + Window <= now

\* The property, of one key.
TwiceOf(k) ==
  \A i \in 1 .. Len(allowed[k]) :
    i + 2 * MaxReqs <= Len(allowed[k])
      => allowed[k][i + 2 * MaxReqs] >= allowed[k][i] + Window

KeyInv(k) ==
  /\ PastOnly(k)
  /\ k \in entries => InWindow(k)
  /\ k \notin entries => OutOfWindow(k)
  /\ TwiceOf(k)

\* The inductive invariant.
LimiterInv == LimiterTypeOK /\ \A k \in Keys : KeyInv(k)

\* A limiter that has let nothing through satisfies it.
LEMMA InitLimiterInv == LimiterInit => LimiterInv
<1> SUFFICES ASSUME LimiterInit PROVE LimiterInv
  OBVIOUS
<1>1. LimiterTypeOK
  BY DEF LimiterInit, LimiterTypeOK
<1>2. ASSUME NEW k \in Keys PROVE KeyInv(k)
  <2>1. allowed[k] = <<>> /\ Len(allowed[k]) = 0 /\ k \notin entries
    BY DEF LimiterInit
  <2>2. QED
    BY <2>1 DEF KeyInv, PastOnly, OutOfWindow, TwiceOf
<1>3. QED
  BY <1>1, <1>2 DEF LimiterInv

\* The types are preserved.
LEMMA LimiterTypeStep == LimiterTypeOK /\ [LimiterNext]_limiterVars => LimiterTypeOK'
<1> SUFFICES ASSUME LimiterTypeOK, [LimiterNext]_limiterVars PROVE LimiterTypeOK'
  OBVIOUS
<1>1. ASSUME NEW k \in Keys, LetThrough(k) PROVE allowed' \in [Keys -> Seq(Nat)]
  <2>1. Append(allowed[k], now) \in Seq(Nat)
    BY AppendProperties DEF LimiterTypeOK
  <2>2. QED
    BY <1>1, <2>1 DEF LimiterTypeOK, LetThrough
<1>2. CASE Elapse
  BY <1>2 DEF LimiterTypeOK, Elapse
<1>3. ASSUME NEW k \in Keys, NewWindow(k) PROVE LimiterTypeOK'
  BY <1>1, <1>3 DEF LimiterTypeOK, NewWindow
<1>4. ASSUME NEW k \in Keys, SameWindow(k) PROVE LimiterTypeOK'
  BY <1>1, <1>4 DEF LimiterTypeOK, SameWindow
<1>5. CASE cleanup
  BY <1>5 DEF LimiterTypeOK, cleanup, Kept
<1>6. CASE UNCHANGED limiterVars
  BY <1>6 DEF LimiterTypeOK, limiterVars
<1>7. QED
  BY <1>2, <1>3, <1>4, <1>5, <1>6 DEF LimiterNext

\* A key keeps its part when nothing of it changes and time passes.
LEMMA Undisturbed ==
  ASSUME LimiterTypeOK, LimiterTypeOK', NEW k \in Keys, KeyInv(k), now' >= now,
         allowed'[k] = allowed[k], count'[k] = count[k], windowAt'[k] = windowAt[k],
         k \in entries' <=> k \in entries
  PROVE  KeyInv(k)'
<1> USE LimitAssumption
<1>1. /\ now \in Nat /\ now' \in Nat /\ windowAt[k] \in Nat /\ allowed[k] \in Seq(Nat)
      /\ \A i \in 1 .. Len(allowed[k]) : allowed[k][i] \in Nat
  BY ElementOfSeq DEF LimiterTypeOK
<1>2. PastOnly(k)'
  BY <1>1 DEF KeyInv, PastOnly
<1>3. k \in entries' => InWindow(k)'
  BY <1>1 DEF KeyInv, InWindow
<1>4. k \notin entries' => OutOfWindow(k)'
  BY <1>1 DEF KeyInv, OutOfWindow
<1>5. TwiceOf(k)'
  BY DEF KeyInv, TwiceOf
<1>6. QED
  BY <1>2, <1>3, <1>4, <1>5 DEF KeyInv

\* What a request that is let through adds.
LEMMA Through ==
  ASSUME LimiterTypeOK, NEW k \in Keys, LetThrough(k), now' = now
  PROVE  /\ Len(allowed[k]) \in Nat
         /\ Len(allowed'[k]) = Len(allowed[k]) + 1
         /\ \A i \in 1 .. Len(allowed[k]) : allowed'[k][i] = allowed[k][i] /\ allowed[k][i] \in Nat
         /\ allowed'[k][Len(allowed[k]) + 1] = now
         /\ \A j \in Keys \ {k} : allowed'[j] = allowed[j]
<1>1. allowed[k] \in Seq(Nat) /\ now \in Nat
  BY DEF LimiterTypeOK
<1>2. allowed'[k] = Append(allowed[k], now) /\ \A j \in Keys \ {k} : allowed'[j] = allowed[j]
  BY DEF LimiterTypeOK, LetThrough
<1>3. QED
  BY <1>1, <1>2, AppendProperties, LenProperties, ElementOfSeq

\* The last of a run of requests comes a window after the first of it.
LEMMA TwiceAfter ==
  ASSUME LimiterTypeOK, NEW k \in Keys, KeyInv(k), LetThrough(k), now' = now,
         \A i \in 1 .. Len(allowed[k]) :
           i + 2 * MaxReqs = Len(allowed[k]) + 1 => allowed[k][i] + Window <= now
  PROVE  TwiceOf(k)'
<1> USE LimitAssumption
<1> DEFINE n == Len(allowed[k])
<1>1. /\ n \in Nat /\ Len(allowed'[k]) = n + 1 /\ allowed'[k][n + 1] = now
      /\ \A i \in 1 .. n : allowed'[k][i] = allowed[k][i] /\ allowed[k][i] \in Nat
  BY Through
<1>2. now \in Nat
  BY DEF LimiterTypeOK
<1>3. ASSUME NEW i \in 1 .. (n + 1), i + 2 * MaxReqs <= n + 1
      PROVE  allowed'[k][i + 2 * MaxReqs] >= allowed'[k][i] + Window
  <2>1. i \in 1 .. n /\ allowed'[k][i] = allowed[k][i] /\ i + 2 * MaxReqs \in 1 .. (n + 1)
    BY <1>1, <1>3
  <2>2. CASE i + 2 * MaxReqs = n + 1
    BY <1>1, <1>2, <2>1, <2>2
  <2>3. CASE i + 2 * MaxReqs # n + 1
    <3>1. i + 2 * MaxReqs \in 1 .. n
      <4>1. /\ n \in Nat /\ MaxReqs \in Nat /\ i \in 1 .. (n + 1)
            /\ i + 2 * MaxReqs <= n + 1 /\ i + 2 * MaxReqs # n + 1
        BY <1>1, <1>3, <2>3
      <4> HIDE DEF n
      <4>2. QED
        BY <4>1
    <3>2. allowed[k][i + 2 * MaxReqs] >= allowed[k][i] + Window
      BY <2>1, <3>1 DEF KeyInv, TwiceOf
    <3>3. QED
      BY <1>1, <2>1, <3>1, <3>2
  <2>4. QED
    BY <2>2, <2>3
<1>4. QED
  BY <1>1, <1>3 DEF TwiceOf

\* The first request of a window.
LEMMA NewWindowStep ==
  ASSUME LimiterTypeOK, NEW k \in Keys, KeyInv(k), NewWindow(k)
  PROVE  KeyInv(k)'
<1> USE LimitAssumption
<1> DEFINE n == Len(allowed[k])
<1>1. /\ k \in entries' /\ count'[k] = 1 /\ windowAt'[k] = now /\ now' = now /\ LetThrough(k)
      /\ now \in Nat /\ windowAt[k] \in Nat /\ count[k] \in Nat
  BY DEF NewWindow, LimiterTypeOK
<1>2. /\ n \in Nat /\ Len(allowed'[k]) = n + 1 /\ allowed'[k][n + 1] = now
      /\ \A i \in 1 .. n : allowed'[k][i] = allowed[k][i] /\ allowed[k][i] \in Nat
  BY <1>1, Through
<1>3. \A i \in 1 .. n : allowed[k][i] <= now
  BY DEF KeyInv, PastOnly
<1>4. \A i \in 1 .. n : i + MaxReqs <= n => allowed[k][i] + Window <= now
  <2>1. CASE k \in entries
    <3>1. InWindow(k) /\ now >= windowAt[k] + Window
      BY <2>1 DEF KeyInv, NewWindow, IsPast
    <3>2. ASSUME NEW i \in 1 .. n, i + MaxReqs <= n PROVE allowed[k][i] + Window <= now
      <4>1. i + count[k] <= n
        BY <1>1, <1>2, <3>1, <3>2 DEF InWindow
      <4>2. allowed[k][i] <= windowAt[k] /\ allowed[k][i] \in Nat
        BY <1>2, <3>1, <4>1 DEF InWindow
      <4>3. QED
        BY <1>1, <3>1, <4>2
    <3>3. QED
      BY <3>2
  <2>2. CASE k \notin entries
    BY <2>2 DEF KeyInv, OutOfWindow
  <2>3. QED
    BY <2>1, <2>2
<1>5. PastOnly(k)'
  BY <1>1, <1>2, <1>3 DEF PastOnly
<1>6. InWindow(k)'
  <2>1. ASSUME NEW i \in 1 .. (n + 1)
        PROVE  /\ allowed'[k][i] < now + Window
               /\ i + 1 <= n + 1 => allowed'[k][i] <= now
               /\ i + 1 + MaxReqs <= n + 1 => allowed'[k][i] + Window <= now
    <3>1. CASE i \in 1 .. n
      <4>1. allowed'[k][i] = allowed[k][i] /\ allowed[k][i] \in Nat /\ allowed[k][i] <= now
        BY <1>2, <1>3, <3>1
      <4>2. i + 1 + MaxReqs <= n + 1 => allowed[k][i] + Window <= now
        BY <1>2, <1>4, <3>1
      <4>3. QED
        BY <1>1, <4>1, <4>2
    <3>2. CASE i = n + 1
      BY <1>1, <1>2, <3>2
    <3>3. QED
      BY <1>2, <3>1, <3>2
  <2>2. QED
    BY <1>1, <1>2, <2>1 DEF InWindow
<1>7. TwiceOf(k)'
  BY <1>1, <1>2, <1>4, TwiceAfter
<1>8. QED
  BY <1>1, <1>5, <1>6, <1>7 DEF KeyInv

\* One more request of a window that counts.
LEMMA SameWindowStep ==
  ASSUME LimiterTypeOK, NEW k \in Keys, KeyInv(k), SameWindow(k)
  PROVE  KeyInv(k)'
<1> USE LimitAssumption
<1> DEFINE n == Len(allowed[k])
<1>1. /\ k \in entries /\ k \in entries' /\ count'[k] = count[k] + 1 /\ windowAt'[k] = windowAt[k]
      /\ now' = now /\ LetThrough(k) /\ count[k] < MaxReqs
      /\ now \in Nat /\ windowAt[k] \in Nat /\ count[k] \in Nat
      /\ now < windowAt[k] + Window
  BY DEF SameWindow, LimiterTypeOK, IsPast
<1>2. /\ n \in Nat /\ Len(allowed'[k]) = n + 1 /\ allowed'[k][n + 1] = now
      /\ \A i \in 1 .. n : allowed'[k][i] = allowed[k][i] /\ allowed[k][i] \in Nat
  BY <1>1, Through
<1>3. InWindow(k) /\ PastOnly(k)
  BY <1>1 DEF KeyInv
<1>4. PastOnly(k)'
  <2>1. ASSUME NEW i \in 1 .. (n + 1) PROVE allowed'[k][i] <= now
    <3>1. CASE i \in 1 .. n
      BY <1>2, <1>3, <3>1 DEF PastOnly
    <3>2. CASE i = n + 1
      BY <1>1, <1>2, <3>2
    <3>3. QED
      BY <1>2, <3>1, <3>2
  <2>2. QED
    BY <1>1, <1>2, <2>1 DEF PastOnly
<1>5. InWindow(k)'
  <2>1. ASSUME NEW i \in 1 .. (n + 1)
        PROVE  /\ allowed'[k][i] < windowAt[k] + Window
               /\ i + (count[k] + 1) <= n + 1 => allowed'[k][i] <= windowAt[k]
               /\ i + (count[k] + 1) + MaxReqs <= n + 1 => allowed'[k][i] + Window <= windowAt[k]
    <3>1. CASE i \in 1 .. n
      <4>1. /\ allowed[k][i] < windowAt[k] + Window
            /\ i + count[k] <= n => allowed[k][i] <= windowAt[k]
            /\ i + count[k] + MaxReqs <= n => allowed[k][i] + Window <= windowAt[k]
        BY <1>3, <3>1 DEF InWindow
      <4>2. i \in Nat /\ count[k] \in Nat /\ n \in Nat /\ allowed'[k][i] = allowed[k][i]
        BY <1>1, <1>2, <3>1
      <4>3. /\ i + (count[k] + 1) <= n + 1 => i + count[k] <= n
            /\ i + (count[k] + 1) + MaxReqs <= n + 1 => i + count[k] + MaxReqs <= n
        <5> HIDE DEF n
        <5>1. QED
          BY <4>2
      <4>4. allowed'[k][i] < windowAt[k] + Window
        BY <4>1, <4>2
      <4>5. i + (count[k] + 1) <= n + 1 => allowed'[k][i] <= windowAt[k]
        BY <4>1, <4>2, <4>3
      <4>6. i + (count[k] + 1) + MaxReqs <= n + 1 => allowed'[k][i] + Window <= windowAt[k]
        BY <4>1, <4>2, <4>3
      <4>7. QED
        BY <4>4, <4>5, <4>6
    <3>2. CASE i = n + 1
      <4>1. allowed'[k][i] < windowAt[k] + Window
        BY <1>1, <1>2, <3>2
      <4>2. ~ (i + (count[k] + 1) <= n + 1) /\ ~ (i + (count[k] + 1) + MaxReqs <= n + 1)
        <5>1. n \in Nat /\ count[k] \in Nat /\ MaxReqs \in Nat
          BY <1>1, <1>2
        <5> HIDE DEF n
        <5>2. QED
          BY <3>2, <5>1
      <4>3. QED
        BY <4>1, <4>2
    <3>3. QED
      BY <1>2, <3>1, <3>2
  <2>2. /\ 1 <= count[k] + 1 /\ count[k] + 1 <= MaxReqs /\ count[k] + 1 <= n + 1
        /\ windowAt[k] <= now
    BY <1>1, <1>2, <1>3 DEF InWindow
  <2>3. QED
    BY <1>1, <1>2, <2>1, <2>2 DEF InWindow
<1>6. \A i \in 1 .. n : i + 2 * MaxReqs = n + 1 => allowed[k][i] + Window <= now
  <2>1. ASSUME NEW i \in 1 .. n, i + 2 * MaxReqs = n + 1 PROVE allowed[k][i] + Window <= now
    <3>1. i + count[k] + MaxReqs <= n
      BY <1>1, <1>2, <2>1
    <3>2. allowed[k][i] + Window <= windowAt[k] /\ windowAt[k] <= now /\ allowed[k][i] \in Nat
      BY <1>2, <1>3, <3>1 DEF InWindow
    <3>3. QED
      BY <1>1, <3>2
  <2>2. QED
    BY <2>1
<1>7. TwiceOf(k)'
  BY <1>1, <1>6, TwiceAfter
<1>8. QED
  BY <1>1, <1>4, <1>5, <1>7 DEF KeyInv

\* An entry that is removed is so old that nothing of its key counts any more.
LEMMA CleanupStep ==
  ASSUME LimiterTypeOK, NEW k \in Keys, KeyInv(k), cleanup, k \in entries, k \notin entries'
  PROVE  KeyInv(k)'
<1> USE LimitAssumption
<1>1. /\ now' = now /\ allowed' = allowed /\ now \in Nat /\ windowAt[k] \in Nat
      /\ now >= windowAt[k] + Window * 2
  BY DEF cleanup, Kept, IsPast, LimiterTypeOK
<1>2. \A i \in 1 .. Len(allowed[k]) : allowed[k][i] \in Nat /\ allowed[k][i] < windowAt[k] + Window
  BY ElementOfSeq DEF KeyInv, InWindow, LimiterTypeOK
<1>3. OutOfWindow(k)'
  BY <1>1, <1>2 DEF OutOfWindow
<1>4. PastOnly(k)' /\ TwiceOf(k)'
  BY <1>1 DEF KeyInv, PastOnly, TwiceOf
<1>5. QED
  BY <1>3, <1>4 DEF KeyInv

\* No step leaves the invariant.
LEMMA StepLimiterInv == LimiterInv /\ [LimiterNext]_limiterVars => LimiterInv'
<1> SUFFICES ASSUME LimiterInv, [LimiterNext]_limiterVars PROVE LimiterInv'
  OBVIOUS
<1>1. LimiterTypeOK /\ LimiterTypeOK'
  BY LimiterTypeStep DEF LimiterInv
<1>2. ASSUME NEW k \in Keys PROVE KeyInv(k)'
  <2>0. KeyInv(k) /\ now \in Nat
    BY <1>1 DEF LimiterInv, LimiterTypeOK
  <2>1. CASE Elapse
    BY <1>1, <2>0, <2>1, Undisturbed DEF Elapse
  <2>2. ASSUME NEW j \in Keys, NewWindow(j) PROVE KeyInv(k)'
    <3>1. CASE j = k
      BY <1>1, <2>0, <2>2, <3>1, NewWindowStep
    <3>2. CASE j # k
      BY <1>1, <2>0, <2>2, <3>2, Undisturbed DEF NewWindow, LetThrough, LimiterTypeOK
    <3>3. QED
      BY <3>1, <3>2
  <2>3. ASSUME NEW j \in Keys, SameWindow(j) PROVE KeyInv(k)'
    <3>1. CASE j = k
      BY <1>1, <2>0, <2>3, <3>1, SameWindowStep
    <3>2. CASE j # k
      BY <1>1, <2>0, <2>3, <3>2, Undisturbed DEF SameWindow, LetThrough, LimiterTypeOK
    <3>3. QED
      BY <3>1, <3>2
  <2>4. CASE cleanup
    <3>1. CASE k \in entries /\ k \notin entries'
      BY <1>1, <2>0, <2>4, <3>1, CleanupStep
    <3>2. CASE k \in entries <=> k \in entries'
      BY <1>1, <2>0, <2>4, <3>2, Undisturbed DEF cleanup
    <3>3. QED
      BY <2>4, <3>1, <3>2 DEF cleanup, Kept
  <2>5. CASE UNCHANGED limiterVars
    BY <1>1, <2>0, <2>5, Undisturbed DEF limiterVars
  <2>6. QED
    BY <2>1, <2>2, <2>3, <2>4, <2>5 DEF LimiterNext
<1>3. QED
  BY <1>1, <1>2 DEF LimiterInv

\* The variables of the limiter keep their types (pkg/middleware/ratelimit.go).
THEOREM LimiterTypeCorrect == LimiterSpec => []LimiterTypeOK
<1>1. LimiterInit => LimiterTypeOK
  BY InitLimiterInv DEF LimiterInv
<1>2. LimiterTypeOK /\ [LimiterNext]_limiterVars => LimiterTypeOK'
  BY LimiterTypeStep
<1>3. QED
  BY <1>1, <1>2, PTL DEF LimiterSpec

\* RateLimiter.Allow never lets more than twice the limit through in one span of a
\* window, whenever its cleanup runs.
THEOREM NeverMoreThanTwice == LimiterSpec => []TwiceAtMost
<1>1. LimiterInv => TwiceAtMost
  BY DEF LimiterInv, KeyInv, TwiceOf, TwiceAtMost
<1>2. QED
  BY InitLimiterInv, StepLimiterInv, <1>1, PTL DEF LimiterSpec

-----------------------------------------------------------------------------
(* Server, for every set of databases and of requests to install, and any  *)
(* number of starts.                                                       *)

FromCache == {"cache", "api", "mark", "engine", "running", "stopping"}
FromOpen == FromCache \cup {"open"}
FromDb == FromOpen \cup {"db", "statements", "down"}

InstallPC == {"none", "check", "migrate", "statements", "configure", "marshal", "write", "mark",
              "down", "over"}

ServerTypeOK ==
  /\ file \in {NoFile, Truncated} \cup {Complete(s) : s \in Sources}
  /\ schema \in [Sources -> {"none", "dirty", "done"}]
  /\ installs \in [Installers -> [at : InstallPC, source : Sources \cup {NoSource}]]
  /\ \A i \in Installers : /\ Busy(i) => installs[i].source \in Sources
                           /\ installs[i].at = "marshal" => cfg \in Sources
  /\ overlapped \in BOOLEAN

\* An installation is alone, and Run waits for it.
OneInstall == \A i, j \in Installers : Busy(i) /\ Busy(j) => i = j
RunAwaits == \A i \in Installers : Busy(i) => run \in {"await", "ended"} /\ ~ installed

\* What an installation has behind it.
Prepared(i) ==
  /\ installs[i].at \in {"configure", "marshal", "write", "mark"}
       => schema[installs[i].source] = "done"
  /\ installs[i].at \in {"marshal", "write", "mark"} => cfg = installs[i].source
  /\ installs[i].at = "mark" => file = Complete(installs[i].source)

\* What Run goes by once the installation is over, and what it has behind it itself.
InstallKept ==
  installed => /\ run \notin {"webReady", "parse"}
               /\ cfg \in Sources /\ file = Complete(cfg) /\ schema[cfg] = "done"
RunKept ==
  /\ run \in FromDb => cfg \in Sources /\ file = Complete(cfg)
  /\ run \in {"statements", "down"} => ~ installed /\ ups = cfg
  /\ run \in FromOpen => schema[cfg] = "done"
  /\ run \in FromCache => inUse = cfg

Alone == OneInstall /\ RunAwaits /\ (\A i \in Installers : Prepared(i)) /\ InstallKept /\ RunKept

\* The inductive invariant.
ServerInv == ServerTypeOK /\ (overlapped \/ Alone)

\* Only the installation i moves, to a place, and keeps its source.
InstallMoves(i, at) ==
  /\ installs' \in [Installers -> [at : InstallPC, source : Sources \cup {NoSource}]]
  /\ installs'[i].at = at /\ installs'[i].source = installs[i].source
  /\ \A j \in Installers \ {i} : installs'[j] = installs[j]

LEMMA InstallGoesMoves ==
  ASSUME ServerTypeOK, NEW i \in Installers, NEW at \in InstallPC, InstallGoes(i, at)
  PROVE  InstallMoves(i, at)
<1> DEFINE r == [installs[i] EXCEPT !.at = at]
<1>1. r \in [at : InstallPC, source : Sources \cup {NoSource}] /\ r.at = at
      /\ r.source = installs[i].source
  BY DEF ServerTypeOK
<1>2. installs' = [installs EXCEPT ![i] = r]
  BY DEF InstallGoes
<1>3. QED
  BY <1>1, <1>2 DEF ServerTypeOK, InstallMoves

\* The program starts with nothing under way.
LEMMA InitServerInv == ServerInit => ServerInv
<1> SUFFICES ASSUME ServerInit PROVE ServerInv
  OBVIOUS
<1>1. \A i \in Installers : installs[i] = NoInstall /\ ~ Busy(i)
  BY DEF ServerInit, NoInstall, Busy
<1>2. ServerTypeOK
  BY <1>1 DEF ServerInit, ServerTypeOK, NoInstall, InstallPC
<1>3. OneInstall /\ RunAwaits
  BY <1>1 DEF OneInstall, RunAwaits
<1>4. \A i \in Installers : Prepared(i)
  BY <1>1 DEF Prepared, NoInstall
<1>5. InstallKept /\ RunKept
  BY DEF ServerInit, InstallKept, RunKept, FromCache, FromOpen, FromDb
<1>6. QED
  BY <1>2, <1>3, <1>4, <1>5 DEF ServerInv, Alone

\* A step of an installation before its last one.
LEMMA InstallStep ==
  ASSUME ServerInv, NEW i \in Installers, Busy(i), run # "ended",
         UNCHANGED <<run, installed, inUse, ups, overlapped>>, ServerTypeOK',
         \A j \in Installers \ {i} : installs'[j] = installs[j],
         ~ overlapped => Prepared(i)'
  PROVE  ServerInv'
<1>1. \A j \in Installers : Busy(j)' => Busy(j)
  BY DEF Busy
<1>2. ASSUME ~ overlapped PROVE Alone'
  <2>1. Alone /\ run = "await" /\ ~ installed
    BY <1>2 DEF ServerInv, Alone, RunAwaits
  <2>2. OneInstall' /\ RunAwaits'
    BY <1>1, <2>1 DEF Alone, OneInstall, RunAwaits
  <2>3. InstallKept' /\ RunKept'
    BY <2>1 DEF InstallKept, RunKept, FromDb, FromOpen, FromCache
  <2>4. ASSUME NEW j \in Installers PROVE Prepared(j)'
    <3>1. CASE j = i
      BY <1>2, <3>1
    <3>2. CASE j # i
      <4>1. ~ Busy(j) /\ installs'[j] = installs[j]
        BY <2>1, <3>2 DEF Alone, OneInstall
      <4>2. QED
        BY <4>1 DEF Busy, Prepared
    <3>3. QED
      BY <3>1, <3>2
  <2>5. QED
    BY <2>2, <2>3, <2>4 DEF Alone
<1>3. QED
  BY <1>2 DEF ServerInv

\* A step of Run, which the installations do not see.
LEMMA RunStep ==
  ASSUME ServerInv, run # "ended", UNCHANGED <<file, installs, overlapped>>,
         schema' \in [Sources -> {"none", "dirty", "done"}],
         ~ overlapped => RunAwaits' /\ InstallKept' /\ RunKept',
         UNCHANGED <<schema, cfg>> \/ run # "await", cfg' = cfg \/ cfg' \in Sources
  PROVE  ServerInv'
<1>1. ServerTypeOK'
  BY DEF ServerInv, ServerTypeOK, Busy
<1>2. ASSUME ~ overlapped PROVE Alone'
  <2>1. Alone
    BY <1>2 DEF ServerInv
  <2>2. OneInstall'
    BY <2>1 DEF Alone, OneInstall, Busy
  <2>3. ASSUME NEW i \in Installers PROVE Prepared(i)'
    <3>1. CASE UNCHANGED <<schema, cfg>>
      BY <2>1, <3>1 DEF Alone, Prepared
    <3>2. CASE run # "await"
      <4>1. ~ Busy(i)
        BY <2>1, <3>2 DEF Alone, RunAwaits
      <4>2. QED
        BY <4>1 DEF Busy, Prepared
    <3>3. QED
      BY <3>1, <3>2
  <2>4. QED
    BY <1>2, <2>2, <2>3 DEF Alone
<1>3. QED
  BY <1>1, <1>2 DEF ServerInv

\* A step of an installation.
LEMMA InstallSteps ==
  ASSUME ServerInv, run # "ended", NEW i \in Installers, Install(i)
  PROVE  ServerInv'
<1>0. ServerTypeOK
  BY DEF ServerInv
<1>1. CASE CheckUrl(i)
  <2>1. PICK at \in {"migrate", "over"} : InstallGoes(i, at)
    BY <1>1 DEF CheckUrl
  <2>2. InstallMoves(i, at) /\ Busy(i) /\ installs[i].source \in Sources
    BY <1>0, <1>1, <2>1, InstallGoesMoves DEF CheckUrl, InstallAt, InstallPC, Busy, ServerTypeOK
  <2>3. ServerTypeOK'
    BY <1>0, <1>1, <2>2 DEF CheckUrl, ServerTypeOK, InstallMoves, Busy
  <2>4. Prepared(i)'
    BY <2>2 DEF Prepared, InstallMoves
  <2>5. QED
    BY <1>1, <2>2, <2>3, <2>4, InstallStep DEF CheckUrl, InstallMoves
<1>2. CASE Migrate(i)
  <2> DEFINE s == installs[i].source
  <2>1. Busy(i) /\ s \in Sources
    BY <1>0, <1>2 DEF Migrate, InstallAt, Busy, ServerTypeOK
  <2>2. PICK at \in {"statements", "configure", "down", "over"} :
          InstallGoes(i, at) /\ (at = "configure" => UpEnds(s) \/ UpHasNothing(s))
    BY <1>2 DEF Migrate
  <2>3. UpBegins(s) \/ UpEnds(s) \/ UpHasNothing(s) \/ UNCHANGED schema \/ Down(s)
    BY <1>2 DEF Migrate
  <2>4. schema' \in [Sources -> {"none", "dirty", "done"}]
    BY <1>0, <2>1, <2>3 DEF ServerTypeOK, UpBegins, UpEnds, UpHasNothing, Down
  <2>5. at = "configure" => schema'[s] = "done"
    BY <1>0, <2>1, <2>2 DEF ServerTypeOK, UpEnds, UpHasNothing
  <2>6. InstallMoves(i, at)
    BY <1>0, <2>2, InstallGoesMoves DEF InstallPC
  <2>7. ServerTypeOK'
    BY <1>0, <1>2, <2>1, <2>4, <2>6 DEF Migrate, ServerTypeOK, InstallMoves, Busy
  <2>8. Prepared(i)'
    BY <2>5, <2>6 DEF Prepared, InstallMoves
  <2>9. QED
    BY <1>2, <2>1, <2>6, <2>7, <2>8, InstallStep DEF Migrate, InstallMoves
<1>3. CASE SetConfig(i)
  <2>1. Busy(i) /\ InstallMoves(i, "marshal") /\ installs[i].source \in Sources
    BY <1>0, <1>3, InstallGoesMoves DEF SetConfig, InstallAt, InstallPC, Busy, ServerTypeOK
  <2>2. ServerTypeOK'
    BY <1>0, <1>3, <2>1 DEF SetConfig, ServerTypeOK, InstallMoves, Busy
  <2>3. ~ overlapped => Prepared(i)'
    BY <1>3, <2>1 DEF SetConfig, InstallAt, Prepared, InstallMoves, ServerInv, Alone
  <2>4. QED
    BY <1>3, <2>1, <2>2, <2>3, InstallStep DEF SetConfig, InstallMoves
<1>4. CASE Marshal(i)
  <2> DEFINE r == [at |-> "write", source |-> cfg]
  <2>1. Busy(i) /\ cfg \in Sources
    BY <1>0, <1>4 DEF Marshal, InstallAt, Busy, ServerTypeOK
  <2>2. r \in [at : InstallPC, source : Sources \cup {NoSource}] /\ r.at = "write" /\ r.source = cfg
    BY <2>1 DEF InstallPC
  <2>3. /\ installs' \in [Installers -> [at : InstallPC, source : Sources \cup {NoSource}]]
        /\ installs'[i].at = "write" /\ installs'[i].source = cfg
        /\ \A j \in Installers \ {i} : installs'[j] = installs[j]
    BY <1>0, <1>4, <2>2 DEF Marshal, ServerTypeOK
  <2>4. ServerTypeOK'
    BY <1>0, <1>4, <2>1, <2>3 DEF Marshal, ServerTypeOK, Busy
  <2>5. ~ overlapped => Prepared(i)'
    BY <1>4, <2>3 DEF Marshal, InstallAt, Prepared, ServerInv, Alone
  <2>6. QED
    BY <1>4, <2>1, <2>3, <2>4, <2>5, InstallStep DEF Marshal
<1>5. CASE WriteFile(i)
  <2>1. Busy(i) /\ installs[i].source \in Sources
    BY <1>0, <1>5 DEF WriteFile, InstallAt, Busy, ServerTypeOK
  <2>2. CASE file' = Complete(installs[i].source) /\ InstallGoes(i, "mark")
    <3>1. InstallMoves(i, "mark")
      BY <1>0, <2>2, InstallGoesMoves DEF InstallPC
    <3>2. ServerTypeOK'
      BY <1>0, <1>5, <2>1, <2>2, <3>1 DEF WriteFile, ServerTypeOK, InstallMoves, Busy
    <3>3. ~ overlapped => Prepared(i)'
      BY <1>5, <2>2, <3>1 DEF WriteFile, InstallAt, Prepared, InstallMoves, ServerInv, Alone
    <3>4. QED
      BY <1>5, <2>1, <3>1, <3>2, <3>3, InstallStep DEF WriteFile, InstallMoves
  <2>3. CASE UNCHANGED file /\ InstallGoes(i, "over")
    <3>1. InstallMoves(i, "over")
      BY <1>0, <2>3, InstallGoesMoves DEF InstallPC
    <3>2. ServerTypeOK'
      BY <1>0, <1>5, <2>3, <3>1 DEF WriteFile, ServerTypeOK, InstallMoves, Busy
    <3>3. Prepared(i)'
      BY <3>1 DEF Prepared, InstallMoves
    <3>4. QED
      BY <1>5, <2>1, <3>1, <3>2, <3>3, InstallStep DEF WriteFile, InstallMoves
  <2>4. QED
    BY <1>5, <2>2, <2>3 DEF WriteFile
<1>6. CASE MarkInstalled(i)
  <2>1. Busy(i) /\ InstallMoves(i, "over") /\ installs[i].source \in Sources
    BY <1>0, <1>6, InstallGoesMoves DEF MarkInstalled, InstallAt, InstallPC, Busy, ServerTypeOK
  <2>2. ServerTypeOK'
    BY <1>0, <1>6, <2>1 DEF MarkInstalled, ServerTypeOK, InstallMoves, Busy
  <2>3. ASSUME ~ overlapped PROVE Alone'
    <3>1. Alone /\ Prepared(i) /\ run = "await"
      BY <1>6, <2>1, <2>3 DEF ServerInv, Alone, RunAwaits
    <3>2. \A j \in Installers : ~ Busy(j)'
      BY <2>1, <3>1 DEF Alone, OneInstall, InstallMoves, Busy
    <3>3. OneInstall' /\ RunAwaits' /\ \A j \in Installers : Prepared(j)'
      BY <3>2 DEF OneInstall, RunAwaits, Prepared, Busy
    <3>4. cfg = installs[i].source /\ file = Complete(cfg) /\ schema[cfg] = "done"
      BY <1>6, <3>1 DEF MarkInstalled, InstallAt, Prepared
    <3>5. InstallKept'
      BY <1>6, <2>1, <3>1, <3>4 DEF MarkInstalled, InstallKept, Complete
    <3>6. RunKept'
      BY <1>6, <3>1 DEF MarkInstalled, RunKept, FromDb, FromOpen, FromCache
    <3>7. QED
      BY <3>3, <3>5, <3>6 DEF Alone
  <2>4. QED
    BY <1>6, <2>2, <2>3 DEF ServerInv, MarkInstalled
<1>7. QED
  BY <1>1, <1>2, <1>3, <1>4, <1>5, <1>6 DEF Install

\* A request to install comes in.
LEMMA PostStep ==
  ASSUME ServerInv, NEW i \in Installers, Post(i)
  PROVE  ServerInv'
<1>1. PICK s \in Sources : installs' = [installs EXCEPT ![i] = [at |-> "check", source |-> s]]
  BY DEF Post
<1> DEFINE r == [at |-> "check", source |-> s]
<1>2. r \in [at : InstallPC, source : Sources \cup {NoSource}] /\ r.at = "check" /\ r.source = s
  BY DEF InstallPC
<1>3. /\ installs' \in [Installers -> [at : InstallPC, source : Sources \cup {NoSource}]]
      /\ installs'[i].at = "check" /\ installs'[i].source = s
      /\ \A j \in Installers \ {i} : installs'[j] = installs[j]
  BY <1>1, <1>2 DEF ServerInv, ServerTypeOK
<1>4. ServerTypeOK'
  BY <1>3 DEF ServerInv, ServerTypeOK, Post, Busy
<1>5. ASSUME ~ overlapped' PROVE Alone'
  <2>1. Alone /\ run = "await" /\ ~ installed /\ \A j \in Installers : ~ Busy(j)
    BY <1>5 DEF Post, ServerInv, ServerTypeOK
  <2>2. \A j \in Installers : j # i => ~ Busy(j)'
    BY <1>3, <2>1 DEF Busy
  <2>3. OneInstall' /\ RunAwaits'
    BY <2>1, <2>2 DEF Post, OneInstall, RunAwaits
  <2>4. \A j \in Installers : Prepared(j)'
    BY <1>3, <2>2 DEF Prepared, Busy
  <2>5. InstallKept' /\ RunKept'
    BY <2>1 DEF Post, InstallKept, RunKept, FromDb, FromOpen, FromCache
  <2>6. QED
    BY <2>3, <2>4, <2>5 DEF Alone
<1>6. QED
  BY <1>4, <1>5 DEF ServerInv

\* A step that touches nothing of the invariant.
LEMMA Untouched ==
  ASSUME ServerInv,
         UNCHANGED <<file, schema, run, installed, cfg, inUse, ups, installs, overlapped>>
  PROVE  ServerInv'
BY DEF ServerInv, ServerTypeOK, Busy, Alone, OneInstall, RunAwaits, Prepared, InstallKept, RunKept

\* The steps of Run that only move, or end.
LEMMA RunMoves ==
  ASSUME ServerInv, run # "ended",
         UNCHANGED <<file, schema, installed, cfg, inUse, ups, installs, overlapped>>,
         \/ run' = "ended"
         \/ run = "webReady" /\ run' = "parse"
         \/ run = "parse" /\ run' = "await"
         \/ run = "await" /\ run' = "db" /\ installed
         \/ run = "db" /\ run' = "open" /\ installed
         \/ run \in FromCache /\ run' \in FromCache
  PROVE  ServerInv'
<1>1. ASSUME ~ overlapped PROVE RunAwaits' /\ InstallKept' /\ RunKept'
  <2>1. Alone
    BY <1>1 DEF ServerInv
  <2>2. RunAwaits'
    BY <2>1 DEF Alone, RunAwaits, Busy, FromCache
  <2>3. InstallKept'
    BY <2>1 DEF Alone, InstallKept, FromCache
  <2>4. RunKept'
    BY <2>1 DEF Alone, InstallKept, RunKept, FromDb, FromOpen, FromCache
  <2>5. QED
    BY <2>2, <2>3, <2>4
<1>2. schema \in [Sources -> {"none", "dirty", "done"}]
  BY DEF ServerInv, ServerTypeOK
<1>3. QED
  BY <1>1, <1>2, RunStep

\* initDb, when it migrates.
LEMMA MigrateStep ==
  ASSUME ServerInv, run # "ended", InitDb, ~ (run = "db" /\ run' = "open" /\ ~ NeedsUp)
  PROVE  ServerInv'
<1>0. ServerTypeOK
  BY DEF ServerInv
<1>1. run \in {"db", "statements", "down"} /\ run' \in {"open", "statements", "down", "ended"}
      /\ UNCHANGED <<file, installs, overlapped, cfg, installed>>
  BY DEF InitDb, RunGoes
<1>2. schema' \in [Sources -> {"none", "dirty", "done"}]
  BY <1>0 DEF InitDb, ServerTypeOK, UpBegins, UpEnds, UpHasNothing, Down
<1>3. ASSUME ~ overlapped PROVE RunAwaits' /\ InstallKept' /\ RunKept'
  <2>1. Alone /\ cfg \in Sources /\ file = Complete(cfg)
    BY <1>1, <1>3 DEF ServerInv, Alone, RunKept, FromDb
  <2>2. ~ installed /\ (run' # "ended" => ups' = cfg)
    BY <2>1 DEF Alone, RunKept, InitDb, RunGoes, NeedsUp
  <2>3. run' = "open" => schema'[cfg] = "done"
    BY <1>0, <2>1, <2>2 DEF Alone, RunKept, InitDb, RunGoes, NeedsUp, ServerTypeOK, UpBegins, UpEnds, UpHasNothing
  <2>4. RunAwaits' /\ InstallKept'
    BY <1>1, <2>1, <2>2 DEF Alone, RunAwaits, Busy, InstallKept
  <2>5. RunKept'
    BY <1>1, <2>1, <2>2, <2>3 DEF RunKept, FromDb, FromOpen, FromCache
  <2>6. QED
    BY <2>4, <2>5
<1>4. QED
  BY <1>1, <1>2, <1>3, RunStep

\* A step of Run.
LEMMA RunSteps ==
  ASSUME ServerInv, run # "ended", RunNext
  PROVE  ServerInv'
<1>0. ServerTypeOK
  BY DEF ServerInv
<1>1. CASE WaitWeb
  BY <1>1, RunMoves DEF WaitWeb, RunGoes
<1>2. CASE parseConfig
  <2>1. CASE file.is = "complete" /\ Validate(file.source)
    <3>1. PICK s \in Sources : file = Complete(s)
      BY <1>0, <2>1 DEF ServerTypeOK, NoFile, Truncated
    <3>2. cfg' = s
      BY <1>2, <2>1, <3>1 DEF parseConfig, Complete
    <3>3. run = "parse" /\ run' = "db" /\ UNCHANGED <<file, schema, installed, installs, overlapped>>
      BY <1>2, <2>1 DEF parseConfig
    <3>4. ASSUME ~ overlapped PROVE RunAwaits' /\ InstallKept' /\ RunKept'
      <4>1. ~ installed /\ \A i \in Installers : ~ Busy(i)
        BY <3>3, <3>4 DEF ServerInv, Alone, InstallKept, RunAwaits
      <4>2. QED
        BY <3>1, <3>2, <3>3, <4>1 DEF RunAwaits, Busy, InstallKept, RunKept, FromDb, FromOpen, FromCache
    <3>5. QED
      BY <1>0, <3>2, <3>3, <3>4, RunStep DEF ServerTypeOK
  <2>2. CASE ~ (file.is = "complete" /\ Validate(file.source))
    BY <1>2, <2>2, RunMoves DEF parseConfig
  <2>3. QED
    BY <2>1, <2>2
<1>3. CASE AwaitInstall
  BY <1>3, RunMoves DEF AwaitInstall, RunGoes
<1>4. CASE InitDb
  <2>1. CASE run = "db" /\ run' = "open" /\ ~ NeedsUp
    <3>1. UNCHANGED <<file, schema, installed, cfg, inUse, ups, installs, overlapped>>
      BY <1>4, <2>1 DEF InitDb, RunGoes
    <3>2. QED
      BY <2>1, <3>1, RunMoves DEF NeedsUp
  <2>2. QED
    BY <1>4, <2>1, MigrateStep
<1>5. CASE OpenDb
  <2>1. CASE RunGoes("open", "ended") /\ UNCHANGED inUse
    BY <1>5, <2>1, RunMoves DEF OpenDb, RunGoes
  <2>2. CASE RunGoes("open", "cache") /\ inUse' = cfg
    <3>1. ASSUME ~ overlapped PROVE RunAwaits' /\ InstallKept' /\ RunKept'
      <4>1. Alone
        BY <3>1 DEF ServerInv
      <4>2. RunAwaits' /\ InstallKept'
        BY <1>5, <2>2, <4>1 DEF OpenDb, RunGoes, Alone, RunAwaits, Busy, InstallKept
      <4>3. RunKept'
        BY <1>5, <2>2, <4>1 DEF OpenDb, RunGoes, Alone, RunKept, FromDb, FromOpen, FromCache
      <4>4. QED
        BY <4>2, <4>3
    <3>2. QED
      BY <1>0, <1>5, <2>2, <3>1, RunStep DEF OpenDb, RunGoes, ServerTypeOK
  <2>3. QED
    BY <1>5, <2>1, <2>2 DEF OpenDb
<1>6. CASE initCache \/ regApi \/ StartEngine \/ EndRun
  BY <1>6, RunMoves DEF initCache, regApi, StartEngine, EndRun, RunGoes, FromCache
<1>7. CASE RunMarks
  <2>1. ASSUME ~ overlapped PROVE RunAwaits' /\ InstallKept' /\ RunKept'
    <3>1. Alone /\ run = "mark" /\ run' = "engine"
      BY <1>7, <2>1 DEF ServerInv, RunMarks, RunGoes
    <3>2. \A i \in Installers : ~ Busy(i)
      BY <3>1 DEF Alone, RunAwaits
    <3>3. RunKept'
      BY <1>7, <3>1 DEF RunMarks, Alone, RunKept, FromDb, FromOpen, FromCache
    <3>4. RunAwaits'
      BY <1>7, <3>2 DEF RunMarks, RunAwaits, Busy
    <3>5. InstallKept'
      BY <1>7, <3>1 DEF RunMarks, Alone, InstallKept, RunKept, FromDb, FromOpen, FromCache
    <3>6. QED
      BY <3>3, <3>4, <3>5
  <2>2. QED
    BY <1>0, <1>7, <2>1, RunStep DEF RunMarks, RunGoes, ServerTypeOK
<1>8. QED
  BY <1>1, <1>2, <1>3, <1>4, <1>5, <1>6, <1>7 DEF RunNext

\* No step leaves the invariant.
LEMMA StepServerInv == ServerInv /\ [ServerNext]_serverVars => ServerInv'
<1> SUFFICES ASSUME ServerInv, [ServerNext]_serverVars PROVE ServerInv'
  OBVIOUS
<1>1. CASE run # "ended" /\ (WebReady \/ WebDone \/ Signal \/ HbtpFails)
  BY <1>1, Untouched DEF WebReady, WebDone, Signal, HbtpFails
<1>2. CASE Restart
  <2>1. \A i \in Installers : installs'[i] = NoInstall
    BY <1>2 DEF Restart
  <2>2. \A i \in Installers : ~ Busy(i)'
    BY <2>1 DEF Busy, NoInstall
  <2>3. ServerTypeOK'
    BY <1>2, <2>1, <2>2 DEF Restart, ServerInv, ServerTypeOK, NoInstall, InstallPC
  <2>4. OneInstall' /\ RunAwaits' /\ \A i \in Installers : Prepared(i)'
    BY <2>2 DEF OneInstall, RunAwaits, Prepared, Busy
  <2>5. InstallKept' /\ RunKept'
    BY <1>2 DEF Restart, InstallKept, RunKept, FromDb, FromOpen, FromCache
  <2>6. QED
    BY <2>3, <2>4, <2>5 DEF ServerInv, Alone
<1>3. CASE UNCHANGED serverVars
  BY <1>3, Untouched DEF serverVars
<1>4. QED
  BY <1>1, <1>2, <1>3, RunSteps, PostStep, InstallSteps DEF ServerNext

\* Whatever fails, crashes or is started again, requests are served with a database
\* that has its tables (InitXxxMigrate, UpXxxMigrate, initDb), unless two
\* installations were under way at once.
THEOREM ServedIsMigrated == ServerSpec => []ServesMigrated
<1>1. ServerInv => ServesMigrated
  BY DEF ServerInv, Alone, RunKept, FromDb, FromOpen, FromCache, ServesMigrated, Serving
<1>2. QED
  BY InitServerInv, StepServerInv, <1>1, PTL DEF ServerSpec

\* The database requests are served with is the one app.yml names (initConfig,
\* parseConfig), with the same exception.
THEOREM ServedIsWritten == ServerSpec => []InUseIsWritten
<1>1. ServerInv => InUseIsWritten
  BY DEF ServerInv, Alone, RunKept, FromDb, FromOpen, FromCache, InUseIsWritten, Serving
<1>2. QED
  BY InitServerInv, StepServerInv, <1>1, PTL DEF ServerSpec

-----------------------------------------------------------------------------
(* Orgs: doubled rows have an excuse, for every set of handlers; what a    *)
(* listing shows can be opened.                                            *)

\* What the handlers of a table are.
KindsOf(t) == CASE t = "orgs" -> {"save", "rm"}
                [] t = "members" -> {"userEdit", "userRm"}
                [] t = "shared" -> {"pipeAdd", "pipeRm", "new"}
                [] OTHER -> {"varSave", "varDel"}
Looking == {"userEdit", "userRm", "pipeAdd", "varSave"}
HandlerOK(h) ==
  \/ h.at = "waiting"
  \/ h.at = "insert" /\ table = "pipe" /\ h.home \in pipes /\ h.names \in Seq(VarNames) \ {<<>>}
  \/ /\ h.at \in {"look", "write"} /\ h.kind \in KindsOf(table)
     /\ h.at = "look" => h.kind \in Looking
     /\ h.kind \in {"pipeAdd", "new"} => h.key \in pipes /\ (h.at = "write" => h.aid = 0)
     /\ h.kind = "varSave" => h.key \in [home : HomesOf(table), name : VarNames]

\* Who is about to give a key to a row finds no row but the one it changes under it, or
\* there is an excuse; an edit of a member leaves the key of the row.
Holds(h) ==
  /\ \A k \in Claims(h) :
       k \in excused \/ \A row \in Rows : row.key = k => h.at = "write" /\ row.aid = h.aid
  /\ h.at = "write" /\ h.kind = "userEdit" => \A row \in Rows : row.aid = h.aid => row.key = h.key

\* No two rows have the same key without an excuse; the numbers of the rows are different;
\* rows are about pipelines there are.
Once(rows) == \A m, n \in rows : m.key = n.key => m = n \/ m.key \in excused
Numbered(rows) == /\ \A m \in rows : m.aid \in Aids
                  /\ \A m, n \in rows : m.aid = n.aid => m = n
Homed(rows) == /\ table = "pipe" => \A m \in rows : m.key.home \in pipes
               /\ table = "shared" => \A m \in rows : m.key \in pipes

\* The tables nobody writes are empty, but where the organisation is what is written.
Empty(t, rows) == table \notin {t, "orgs"} => rows = {}

\* The inductive invariant.
OrgsInv ==
  /\ table \in {"orgs", "members", "shared"} \cup Scopes
  /\ handlers = [r \in Requests |-> handlers[r]]
  /\ variables = [s \in Scopes |-> variables[s]]
  /\ \A r \in Requests : HandlerOK(handlers[r])
  /\ Empty("members", members) /\ Empty("shared", shared) /\ \A s \in Scopes : Empty(s, variables[s])
  /\ Once(members) /\ Once(shared)
  /\ \A s \in Scopes : Once(variables[s])
  /\ table # "orgs" =>
       Numbered(Rows) /\ Homed(Rows) /\ \A r \in Requests : Holds(handlers[r])

\* The first rows: the members of an organisation may be there twice, by a race before.
LEMMA OrgsInitHolds == OrgsInit => OrgsInv
<1> SUFFICES ASSUME OrgsInit PROVE OrgsInv
  OBVIOUS
<1>1. /\ table \in {"orgs", "members", "shared"} \cup Scopes
      /\ handlers = [r \in Requests |-> Waiting] /\ variables = [s \in Scopes |-> {}]
  BY DEF OrgsInit
<1>2. Once(shared)
  BY DEF OrgsInit, Once
<1>3. Once(members)
  <2>1. CASE table = "orgs"
    <3> SUFFICES ASSUME NEW m \in members PROVE m.key \in excused
      BY DEF Once
    <3> QED BY <2>1 DEF OrgsInit
  <2>2. CASE table # "orgs"
    BY <2>2 DEF OrgsInit, Once
  <2> QED BY <2>1, <2>2
<1>4. table # "orgs" => Rows = {} /\ members = {} /\ shared = {}
  BY <1>1 DEF OrgsInit, Rows, Scopes
<1>5. \A r \in Requests : Holds(handlers[r])
  BY <1>1 DEF Holds, Claims, Waiting
<1> QED BY <1>1, <1>2, <1>3, <1>4, <1>5
        DEF OrgsInv, HandlerOK, Waiting, Once, Numbered, Homed, Empty

\* The rows the handlers are about are told once.
LEMMA RowsOnce ==
  ASSUME OrgsInv, table # "orgs"
  PROVE  Once(Rows)
BY DEF OrgsInv, Rows, Scopes

\* A step of a handler that leaves the tables alone; it may make a pipeline.
LEMMA HandlerStep ==
  ASSUME OrgsInv, NEW r \in Requests, NEW h, handlers' = [handlers EXCEPT ![r] = h],
         UNCHANGED <<members, shared, variables, table, excused>>, pipes \subseteq pipes',
         HandlerOK(h)', table # "orgs" => Holds(h)
  PROVE  OrgsInv'
<1>1. /\ handlers' = [q \in Requests |-> handlers'[q]] /\ handlers'[r] = h
      /\ \A q \in Requests : q # r => handlers'[q] = handlers[q]
  BY DEF OrgsInv
<1>2. Rows' = Rows
  BY DEF Rows
<1>3. \A q \in Requests : HandlerOK(handlers[q])'
  <2> SUFFICES ASSUME NEW q \in Requests, q # r PROVE HandlerOK(handlers[q])'
    BY <1>1
  <2>1. HandlerOK(handlers[q]) /\ handlers'[q] = handlers[q]
    BY <1>1 DEF OrgsInv
  <2>2. HomesOf(table) \subseteq HomesOf(table)'
    BY DEF HomesOf
  <2> QED BY <2>1, <2>2 DEF HandlerOK, KindsOf, Looking
<1>4. table # "orgs" => \A q \in Requests : Holds(handlers[q])'
  <2> SUFFICES ASSUME table # "orgs", NEW q \in Requests PROVE Holds(handlers[q])'
    OBVIOUS
  <2>1. Holds(handlers'[q])
    BY <1>1 DEF OrgsInv
  <2> QED BY <1>2, <2>1 DEF Holds, Claims, Gives
<1>5. table # "orgs" => Homed(Rows)'
  BY <1>2 DEF OrgsInv, Homed
<1> QED BY <1>1, <1>2, <1>3, <1>4, <1>5 DEF OrgsInv, Once, Numbered, Empty

\* A handler that goes away.
LEMMA FinishStep ==
  ASSUME OrgsInv, NEW r \in Requests, Finish(r),
         UNCHANGED <<members, pipes, shared, variables, table, excused>>
  PROVE  OrgsInv'
<1>1. HandlerOK(Waiting)' /\ Holds(Waiting)
  BY DEF HandlerOK, Waiting, Holds, Claims
<1> QED BY <1>1, HandlerStep DEF Finish

\* A handler that begins.
LEMMA BeginStep ==
  ASSUME OrgsInv, NEW r \in Requests,
         \/ userEdit(r) \/ userRm(r) \/ pipeAdd(r) \/ pipeRm(r) \/ varSave(r) \/ varDel(r)
         \/ save(r) \/ rm(r)
  PROVE  OrgsInv'
<1>1. ASSUME NEW h, Begin(r, h), h.at \in {"look", "write"}, h.kind \in KindsOf(table),
             h.at = "look" => h.kind \in Looking,
             h.kind = "pipeAdd" => h.key \in pipes,
             h.kind = "varSave" => h.key \in [home : HomesOf(table), name : VarNames],
             h.at = "write" => h.kind \in {"pipeRm", "varDel", "save", "rm"}
      PROVE  OrgsInv'
  <2>1. h.kind # "new" /\ (h.kind = "pipeAdd" => h.at = "look")
    BY <1>1 DEF Looking
  <2>2. HandlerOK(h)'
    BY <1>1, <2>1 DEF HandlerOK, Begin, HomesOf
  <2>3. Claims(h) = {}
    BY <1>1 DEF Claims, Gives
  <2>4. Holds(h)
    BY <1>1, <2>3 DEF Holds
  <2> QED BY <1>1, <2>2, <2>4, HandlerStep DEF Begin
<1>2. CASE userEdit(r)
  <2>0. table = "members"
    BY <1>2 DEF userEdit, Free
  <2>1. PICK by \in Users, u \in Others, perms \in SUBSET Granted, add \in BOOLEAN :
          Begin(r, [at |-> "look", kind |-> "userEdit", key |-> u, perms |-> perms, add |-> add])
    BY <1>2 DEF userEdit
  <2> QED BY <1>1, <2>0, <2>1 DEF KindsOf, Looking
<1>3. CASE userRm(r)
  <2>0. table = "members"
    BY <1>3 DEF userRm, Free
  <2>1. PICK by \in Users, u \in Others :
          Begin(r, [at |-> "look", kind |-> "userRm", key |-> u])
    BY <1>3 DEF userRm
  <2> QED BY <1>1, <2>0, <2>1 DEF KindsOf, Looking
<1>4. CASE pipeAdd(r)
  <2>0. table = "shared"
    BY <1>4 DEF pipeAdd, Free
  <2>1. PICK pipe \in pipes : Begin(r, [at |-> "look", kind |-> "pipeAdd", key |-> pipe])
    BY <1>4 DEF pipeAdd
  <2> QED BY <1>1, <2>0, <2>1 DEF KindsOf, Looking
<1>5. CASE pipeRm(r)
  <2>0. table = "shared"
    BY <1>5 DEF pipeRm, Free
  <2>1. PICK pipe \in pipes :
          Begin(r, [at |-> "write", kind |-> "pipeRm", key |-> pipe, aid |-> 0])
    BY <1>5 DEF pipeRm
  <2> QED BY <1>1, <2>0, <2>1 DEF KindsOf
<1>6. CASE varSave(r)
  <2>1. PICK scope \in Scopes :
          /\ Free(r, scope)
          /\ \E name \in VarNames, home \in HomesOf(scope) : \E edits :
               Begin(r, [at |-> "look", kind |-> "varSave",
                         key |-> [home |-> home, name |-> name], edits |-> edits])
    BY <1>6 DEF varSave
  <2>2. PICK name \in VarNames, home \in HomesOf(scope) : \E edits :
          Begin(r, [at |-> "look", kind |-> "varSave", key |-> [home |-> home, name |-> name],
                    edits |-> edits])
    BY <2>1
  <2>3. [home |-> home, name |-> name] \in [home : HomesOf(table), name : VarNames]
    BY <2>1 DEF Free
  <2>4. "varSave" \in KindsOf(table)
    BY <2>1 DEF Free, KindsOf, Scopes
  <2> QED BY <1>1, <2>2, <2>3, <2>4 DEF Looking
<1>7. CASE varDel(r)
  <2>1. PICK scope \in Scopes :
          Free(r, scope) /\ \E aid : Begin(r, [at |-> "write", kind |-> "varDel", aid |-> aid])
    BY <1>7 DEF varDel
  <2>2. "varDel" \in KindsOf(table)
    BY <2>1 DEF Free, KindsOf, Scopes
  <2> QED BY <1>1, <2>1, <2>2
<1>8. CASE save(r)
  <2>0. table = "orgs"
    BY <1>8 DEF save, Free
  <2>1. PICK public \in BOOLEAN :
          Begin(r, [at |-> "write", kind |-> "save", key |-> public, aid |-> 0])
    BY <1>8 DEF save
  <2> QED BY <1>1, <2>0, <2>1 DEF KindsOf
<1>9. CASE rm(r)
  <2>0. table = "orgs"
    BY <1>9 DEF rm, Free
  <2>1. Begin(r, [at |-> "write", kind |-> "rm", key |-> TRUE, aid |-> 0])
    BY <1>9 DEF rm
  <2> QED BY <1>1, <2>0, <2>1 DEF KindsOf
<1> QED BY <1>2, <1>3, <1>4, <1>5, <1>6, <1>7, <1>8, <1>9

\* The pipeline new makes is one that no row is about.
LEMMA NewStep ==
  ASSUME OrgsInv, NEW r \in Requests, new(r)
  PROVE  OrgsInv'
<1>1. PICK home \in Seconds \ pipes :
        /\ \/ /\ table = "shared"
              /\ handlers' = [handlers EXCEPT ![r] =
                                [at |-> "write", kind |-> "new", key |-> home, aid |-> 0]]
           \/ /\ table = "pipe"
              /\ \E given \in Given :
                   handlers' = [handlers EXCEPT ![r] =
                                 [at |-> "insert", kind |-> "new", home |-> home, names |-> given]]
        /\ pipes' = pipes \cup {home}
  BY DEF new, Free
<1>2. UNCHANGED <<members, shared, variables, table, excused>>
  BY DEF new
<1>3. CASE table = "shared"
  <2> DEFINE h == [at |-> "write", kind |-> "new", key |-> home, aid |-> 0]
  <2>1. HandlerOK(h)'
    BY <1>1, <1>2, <1>3 DEF HandlerOK, KindsOf
  <2>2. Claims(h) = {home}
    BY DEF Claims, Gives
  <2>3. \A row \in Rows : row.key # home
    BY <1>3 DEF OrgsInv, Homed
  <2>4. Holds(h)
    BY <2>2, <2>3 DEF Holds
  <2> QED BY <1>1, <1>2, <1>3, <2>1, <2>4, HandlerStep
<1>4. CASE table = "pipe"
  <2>1. PICK given \in Given :
          handlers' = [handlers EXCEPT ![r] =
                        [at |-> "insert", kind |-> "new", home |-> home, names |-> given]]
    BY <1>1, <1>4
  <2> DEFINE h == [at |-> "insert", kind |-> "new", home |-> home, names |-> given]
  <2>2. given \in Seq(VarNames) \ {<<>>}
    <3>1. PICK n \in 1 .. MaxGiven : given \in [1 .. n -> VarNames]
      BY DEF Given
    <3>2. n \in Nat \ {0}
      BY <3>1
    <3>3. given \in Seq(VarNames) /\ Len(given) = n
      BY <3>1, <3>2
    <3> QED BY <3>2, <3>3
  <2>3. HandlerOK(h)'
    BY <1>1, <1>2, <1>4, <2>2 DEF HandlerOK
  <2>4. \A k \in Claims(h) : k.home = home
    BY DEF Claims
  <2>5. \A row \in Rows : row.key.home # home
    BY <1>4 DEF OrgsInv, Homed
  <2>6. Holds(h)
    BY <2>4, <2>5 DEF Holds
  <2> QED BY <1>1, <1>2, <1>4, <2>1, <2>3, <2>6, HandlerStep
<1> QED BY <1>1, <1>3, <1>4

\* A handler that has looked.
LEMMA LookStep ==
  ASSUME OrgsInv, NEW r \in Requests, Look(r)
  PROVE  OrgsInv'
<1>0. PICK h : h = handlers[r]
  OBVIOUS
<1> DEFINE Is(aid) == \/ aid = 0 /\ Found(h) = {}
                      \/ \E row \in Found(h) : aid = row.aid
<1>1. /\ h.at = "look" /\ h.kind \in KindsOf(table) /\ h.kind \in Looking
      /\ h.kind = "pipeAdd" => h.key \in pipes
      /\ h.kind = "varSave" => h.key \in [home : HomesOf(table), name : VarNames]
      /\ UNCHANGED <<members, pipes, shared, variables, table, excused>>
  BY <1>0 DEF Look, OrgsInv, HandlerOK
<1>2. PICK aid : Is(aid) /\ GoOn(r, aid)
  BY <1>0 DEF Look
<1>3. CASE table = "orgs"
  BY <1>1, <1>3 DEF KindsOf, Looking
<1>4. CASE table # "orgs"
  <2>1. Once(Rows) /\ Numbered(Rows)
    BY <1>4, RowsOnce DEF OrgsInv
  <2>2. \A row \in Found(h) : row \in Rows /\ row.key = h.key
    BY DEF Found
  <2>3. \A row \in Rows : row.key = h.key => row \in Found(h)
    BY DEF Found
  <2>4. (aid = 0 /\ Found(h) = {}) \/ (aid \in Nat \ {0} /\ \E row \in Found(h) : aid = row.aid)
    BY <1>2, <2>1, <2>2, OrgsShape DEF Numbered, OrgsShape
  <2> HIDE DEF Is
  <2>5. CASE h.kind = "userEdit"
    <3>1. PICK perms : handlers' = [handlers EXCEPT ![r] =
                          [at |-> "write", kind |-> h.kind, key |-> h.key, aid |-> aid,
                           perms |-> perms]]
      BY <1>0, <1>2, <2>5 DEF GoOn, Writes
    <3>2. PICK g : g = [at |-> "write", kind |-> h.kind, key |-> h.key, aid |-> aid,
                        perms |-> perms]
      OBVIOUS
    <3>3. g.at = "write" /\ g.kind = "userEdit" /\ g.key = h.key /\ g.aid = aid
      BY <2>5, <3>2
    <3>4. HandlerOK(g)'
      BY <1>1, <2>5, <3>3 DEF HandlerOK
    <3>5. \A k \in Claims(g) : aid = 0 /\ k = h.key
      BY <3>3 DEF Claims, Gives
    <3>6. \A row \in Rows : row.aid = aid => row.key = h.key
      BY <2>1, <2>2, <2>4, OrgsShape DEF Numbered, OrgsShape
    <3>7. Holds(g)
      BY <2>3, <2>4, <3>3, <3>5, <3>6 DEF Holds
    <3> QED BY <1>1, <3>1, <3>2, <3>4, <3>7, HandlerStep
  <2>6. CASE h.kind # "userEdit"
    <3> DEFINE to == IF h.kind = "varSave" THEN h.edits ELSE aid
    <3>0. PICK g : g = [at |-> "write", kind |-> h.kind, key |-> h.key, aid |-> to]
      OBVIOUS
    <3>1. \/ Finish(r)
          \/ /\ handlers' = [handlers EXCEPT ![r] = g]
             /\ h.kind = "userRm" \/ (h.kind = "pipeAdd" /\ aid = 0)
                  \/ (h.kind = "varSave" /\ (aid # 0 => aid = h.edits))
      <4>1. CASE h.kind = "userRm"
        BY <1>0, <1>2, <3>0, <4>1 DEF GoOn, Writes
      <4>2. CASE h.kind = "pipeAdd"
        BY <1>0, <1>2, <3>0, <4>2 DEF GoOn, Writes
      <4>3. CASE h.kind = "varSave"
        BY <1>0, <1>2, <3>0, <4>3 DEF GoOn, Writes
      <4> QED BY <1>1, <2>6, <4>1, <4>2, <4>3 DEF Looking
    <3>2. g.at = "write" /\ g.kind = h.kind /\ g.key = h.key /\ g.aid = to
      BY <3>0
    <3>3. ~ Finish(r) => HandlerOK(g)'
      BY <1>1, <3>1, <3>2 DEF HandlerOK, KindsOf, Looking, HomesOf
    <3>4. \A k \in Claims(g) : k = g.key /\ h.kind # "userRm"
      BY <2>6, <3>2 DEF Claims, Gives
    <3>5. ASSUME ~ Finish(r), NEW k \in Claims(g), k \notin excused, NEW row \in Rows, row.key = k
          PROVE  row.aid = g.aid
      <4>1. row \in Found(h) /\ aid # 0
        BY <2>3, <2>4, <3>2, <3>4, <3>5
      <4>2. h.kind = "varSave" /\ aid = h.edits /\ to = aid
        BY <3>1, <3>4, <3>5, <4>1
      <4>3. PICK other \in Found(h) : aid = other.aid
        BY <2>4, <4>1
      <4>4. row = other
        BY <2>1, <2>2, <3>5, <4>1, <4>3 DEF Once
      <4> QED BY <3>2, <4>2, <4>3, <4>4
    <3>6. ~ Finish(r) => Holds(g)
      BY <2>6, <3>2, <3>5 DEF Holds
    <3> QED BY <1>1, <3>1, <3>3, <3>6, HandlerStep, FinishStep
  <2> QED BY <2>5, <2>6
<1> QED BY <1>3, <1>4

\* The key a new row gets is one of no row and of no handler about to write.
LEMMA FreshAid ==
  ASSUME NEW aids, aids \subseteq Aids, aids # {}
  PROVE  (CHOOSE a \in aids : \A b \in aids : a <= b) \in aids
<1>1. aids \in SUBSET Nat
  BY OrgsShape DEF OrgsShape
<1>2. \E a \in aids : \A b \in aids : a <= b
  BY <1>1, LeastNumber
<1> QED BY <1>2

\* An excuse lasts for a key two rows have or somebody is about to give.
LEMMA Lasts ==
  ASSUME NEW excuses, NEW rows, NEW claims, excused' = Lasting(excuses, rows, claims), NEW k \in excuses,
         k \in claims \/ \E m, n \in rows : m # n /\ m.key = k /\ n.key = k
  PROVE  k \in excused'
BY DEF Lasting

\* A handler r writes the row of the number b, or takes rows away.  What it may do to the
\* others: a key that a row has, or that another is about to give, it gives with an excuse.
Puts(r, after, b, excuses) ==
  /\ \A m \in after : (m \in Rows /\ m.aid # b) \/ m.aid = b
  /\ \A m, n \in after : m.aid = b /\ n.aid = b => m = n
  /\ \A m \in after : m.aid = b =>
       /\ b \in Aids
       /\ \A n \in Rows : n.aid # b /\ n.key = m.key => m.key \in excuses
       /\ m.key \in Claimed(r) =>
            m.key \in excuses \/ \E old \in Rows : old.aid = b /\ old.key = m.key
       /\ \A old \in Rows : old.aid = b =>
            /\ table \in Scopes => old.key.home = m.key.home
            /\ table = "members" => old.key = m.key
       /\ \A q \in Requests \ {r} : handlers[q].at = "write" /\ handlers[q].aid = b =>
            \E old \in Rows : old.aid = b

\* Then no two rows have a key without an excuse, and the others may go on.
LEMMA PutsKeeps ==
  ASSUME OrgsInv, table # "orgs", NEW r \in Requests, NEW after, NEW b, NEW excuses, NEW claims,
         Puts(r, after, b, excuses), excused \subseteq excuses, Claimed(r) \subseteq claims,
         excused' = Lasting(excuses, after, claims), table' = table, Rows' = after
  PROVE  /\ Numbered(after)
         /\ \A m, n \in after : m.key = n.key => m = n \/ m.key \in excused'
         /\ \A q \in Requests : q # r /\ handlers'[q] = handlers[q] => Holds(handlers[q])'
<1>1. Numbered(Rows) /\ Once(Rows) /\ \A q \in Requests : Holds(handlers[q])
  BY RowsOnce DEF OrgsInv
<1>2. \A k : k \in excused => k \in excuses
  OBVIOUS
<1>3. Numbered(after)
  BY <1>1 DEF Numbered, Puts
<1>4. ASSUME NEW m \in after, NEW n \in after, m.key = n.key, m # n
      PROVE  m.key \in excused'
  <2>1. m.key \in excuses
    <3>1. CASE m \in Rows /\ n \in Rows /\ m.aid # b /\ n.aid # b
      BY <1>1, <1>2, <1>4, <3>1 DEF Once
    <3>2. CASE m.aid = b /\ n.aid # b
      BY <1>4, <3>2 DEF Puts
    <3>3. CASE n.aid = b /\ m.aid # b
      BY <1>4, <3>3 DEF Puts
    <3> QED BY <1>4, <3>1, <3>2, <3>3 DEF Puts
  <2> QED BY <1>4, <2>1, Lasts
<1>5. ASSUME NEW q \in Requests, q # r, handlers'[q] = handlers[q]
      PROVE  Holds(handlers[q])'
  <2> DEFINE g == handlers[q]
  <2>1. Holds(g) /\ HandlerOK(g)
    BY <1>1 DEF OrgsInv
  <2>2. Gives(g)' => (g.at = "write" => Gives(g))
    <3> SUFFICES ASSUME g.kind = "varSave", g.at = "write",
                        NEW row \in after, row.aid = g.aid, row.key.home = g.key.home
                 PROVE  \E old \in Rows : old.aid = g.aid /\ old.key.home = g.key.home
      BY <1>5 DEF Gives
    <3>1. CASE row \in Rows
      BY <3>1
    <3>2. CASE row.aid = b
      <4>1. table \in Scopes
        BY <2>1 DEF HandlerOK, KindsOf, OrgsInv
      <4>2. PICK old \in Rows : old.aid = b
        BY <1>5, <3>2 DEF Puts
      <4>3. old.key.home = row.key.home
        BY <3>2, <4>1, <4>2 DEF Puts
      <4> QED BY <3>2, <4>2, <4>3
    <3> QED BY <3>1, <3>2 DEF Puts
  <2>3. Claims(g)' \subseteq Claims(g)
    BY <1>5, <2>2 DEF Claims
  <2>4. Claims(g) \subseteq claims
    BY <1>5 DEF Claimed
  <2>5. ASSUME NEW k \in Claims(g)', k \notin excused', NEW m \in after, m.key = k
        PROVE  g.at = "write" /\ m.aid = g.aid
    <3>1. k \notin excuses
      BY <2>3, <2>4, <2>5, Lasts
    <3>2. \A row \in Rows : row.key = k => g.at = "write" /\ row.aid = g.aid
      BY <1>2, <2>1, <2>3, <2>5, <3>1 DEF Holds
    <3>3. CASE m \in Rows
      BY <2>5, <3>2, <3>3
    <3>4. CASE m.aid = b
      <4>1. k \in Claimed(r)
        BY <1>5, <2>3, <2>5 DEF Claimed
      <4>2. PICK old \in Rows : old.aid = b /\ old.key = k
        BY <2>5, <3>1, <3>4, <4>1 DEF Puts
      <4> QED BY <3>2, <3>4, <4>2
    <3> QED BY <3>3, <3>4 DEF Puts
  <2>6. ASSUME g.at = "write", g.kind = "userEdit", NEW m \in after, m.aid = g.aid
        PROVE  m.key = g.key
    <3>1. CASE m \in Rows
      BY <2>1, <2>6, <3>1 DEF Holds
    <3>2. CASE m.aid = b
      <4>1. table = "members"
        BY <2>1, <2>6 DEF HandlerOK, KindsOf, OrgsInv, Scopes
      <4>2. q \in Requests \ {r} /\ handlers[q].at = "write" /\ handlers[q].aid = b
        BY <1>5, <2>6, <3>2
      <4>3. PICK old \in Rows : old.aid = b
        BY <3>2, <4>2 DEF Puts
      <4>4. old.key = m.key
        BY <3>2, <4>1, <4>3 DEF Puts
      <4> QED BY <2>1, <2>6, <3>2, <4>3, <4>4 DEF Holds
    <3> QED BY <3>1, <3>2 DEF Puts
  <2>7. g' = g
    BY <1>5
  <2> QED BY <2>5, <2>6, <2>7 DEF Holds
<1> QED BY <1>3, <1>4, <1>5

\* Together with what is true of the handler that writes it is the invariant.
LEMMA RowsStep ==
  ASSUME OrgsInv, table # "orgs", NEW r \in Requests, NEW after, NEW g,
         handlers' = [handlers EXCEPT ![r] = g],
         members' = IF table = "members" THEN after ELSE members,
         shared' = IF table = "shared" THEN after ELSE shared,
         variables' = IF table \in Scopes THEN [variables EXCEPT ![table] = after] ELSE variables,
         UNCHANGED <<pipes, table>>, HandlerOK(g), Holds(g)', Numbered(after), Homed(after),
         \A m, n \in after : m.key = n.key => m = n \/ m.key \in excused',
         \A q \in Requests : q # r /\ handlers'[q] = handlers[q] => Holds(handlers[q])'
  PROVE  OrgsInv'
<1>1. /\ handlers' = [q \in Requests |-> handlers'[q]] /\ handlers'[r] = g
      /\ \A q \in Requests : q # r => handlers'[q] = handlers[q]
  BY DEF OrgsInv
<1>2. /\ Rows' = after /\ variables' = [s \in Scopes |-> variables'[s]]
      /\ \A s \in Scopes : variables'[s] = IF s = table THEN after ELSE variables[s]
  BY DEF Rows, OrgsInv, Scopes
<1>3. \A q \in Requests : HandlerOK(handlers[q])'
  BY <1>1 DEF OrgsInv, HandlerOK, HomesOf
<1>4. \A q \in Requests : Holds(handlers[q])'
  BY <1>1
<1>5. /\ Empty("members", members)' /\ Empty("shared", shared)'
      /\ \A s \in Scopes : Empty(s, variables[s])'
  BY <1>2 DEF OrgsInv, Empty
<1>6. /\ Once(members)' /\ Once(shared)'
      /\ \A s \in Scopes : Once(variables[s])'
  <2>1. Once({})'
    BY DEF Once
  <2>2. /\ table # "members" => members' = {}
        /\ table # "shared" => shared' = {}
        /\ \A s \in Scopes : s # table => variables'[s] = {}
    BY <1>2 DEF OrgsInv, Empty
  <2>3. table' = table /\ \A m, n \in after : m.key = n.key => m = n \/ m.key \in excused'
    OBVIOUS
  <2>4. Once(members)'
    BY <2>2, <2>3 DEF Once
  <2>5. Once(shared)'
    BY <2>2, <2>3 DEF Once
  <2>6. \A s \in Scopes : Once(variables[s])'
    BY <1>2, <2>2, <2>3 DEF Once
  <2> QED BY <2>4, <2>5, <2>6
<1>7. Numbered(Rows)' /\ Homed(Rows)'
  BY <1>2 DEF Numbered, Homed
<1> QED BY <1>1, <1>2, <1>3, <1>4, <1>5, <1>6, <1>7 DEF OrgsInv

\* The key a row that is changed has after that.
Target(h, old) == IF h.kind = "varSave" THEN [home |-> old.key.home, name |-> h.key.name] ELSE h.key

\* What a write makes of the rows: it removes some, or it puts one row, a new one of the
\* key of the handler or the one it changes.
LEMMA WrittenRows ==
  ASSUME NEW h, NEW rows, NEW a,
         h.kind \in {"userEdit", "userRm", "pipeAdd", "pipeRm", "new", "varSave", "varDel"},
         h.kind \in {"pipeAdd", "new"} => h.aid = 0,
         h.aid = 0 => \A row \in rows : row.aid # a
  PROVE  LET after == Written(h, rows, a)
         IN \/ after \subseteq rows
            \/ /\ h.kind \in {"userEdit", "pipeAdd", "new", "varSave"} /\ h.aid = 0
               /\ \A m \in after : \/ m \in rows /\ m.aid # a
                                   \/ m = RowOf(h, a) /\ m.aid = a /\ m.key = h.key
            \/ /\ h.kind \in {"userEdit", "varSave"} /\ h.aid # 0
               /\ \A m \in after : \/ m \in rows /\ m.aid # h.aid
                                   \/ \E old \in rows : /\ old.aid = h.aid /\ m = Changed(h, old)
                                                        /\ m.aid = h.aid /\ m.key = Target(h, old)
<1> DEFINE after == Written(h, rows, a)
<1>1. CASE h.kind \in {"userRm", "varDel", "pipeRm"}
  BY <1>1 DEF Written
<1>2. CASE h.kind \in {"userEdit", "pipeAdd", "new", "varSave"} /\ h.aid = 0
  <2>1. after = rows \cup {RowOf(h, a)}
    BY <1>2 DEF Written
  <2>2. RowOf(h, a).aid = a /\ RowOf(h, a).key = h.key
    BY <1>2 DEF RowOf
  <2> QED BY <1>2, <2>1, <2>2
<1>3. CASE h.kind \in {"userEdit", "varSave"} /\ h.aid # 0
  <2>1. after = {IF row.aid = h.aid THEN Changed(h, row) ELSE row : row \in rows}
    BY <1>3 DEF Written
  <2>2. \A row \in rows : Changed(h, row).aid = h.aid /\ Changed(h, row).key = Target(h, row)
    BY <1>3 DEF Changed, RowOf, Target
  <2> SUFFICES ASSUME NEW m \in after
               PROVE  \/ m \in rows /\ m.aid # h.aid
                      \/ \E old \in rows : /\ old.aid = h.aid /\ m = Changed(h, old)
                                           /\ m.aid = h.aid /\ m.key = Target(h, old)
    BY <1>3
  <2>3. PICK row \in rows : m = IF row.aid = h.aid THEN Changed(h, row) ELSE row
    BY <2>1
  <2> QED BY <2>2, <2>3
<1> QED BY <1>1, <1>2, <1>3

\* A write.
LEMMA WriteRowStep ==
  ASSUME OrgsInv, NEW r \in Requests, WriteRow(r)
  PROVE  OrgsInv'
<1> DEFINE h == handlers[r]
           aids == IF h.aid = 0 /\ h.kind # "pipeRm" THEN FreshAids(Rows) ELSE {0}
           a == CHOOSE x \in aids : \A y \in aids : x <= y
           after == Written(h, Rows, a)
           excuses == excused \cup (Claims(h) \cap Claimed(r)) \cup Strays(h)
<1>1. /\ h.at = "write" /\ h.kind \in KindsOf(table) /\ h.kind \notin {"save", "rm"}
      /\ h.kind \in {"pipeAdd", "new"} => h.key \in pipes /\ h.aid = 0
      /\ h.kind = "varSave" => h.key \in [home : HomesOf(table), name : VarNames]
      /\ table \in {"members", "shared"} \cup Scopes /\ table # "orgs"
  BY DEF WriteRow, OrgsInv, HandlerOK, KindsOf, Scopes
<1>2. h.kind \in {"userEdit", "userRm", "pipeAdd", "pipeRm", "new", "varSave", "varDel"}
  BY <1>1 DEF KindsOf, Scopes
<1>3. /\ aids # {} /\ Finish(r) /\ UNCHANGED <<pipes, table>>
      /\ members' = IF table = "members" THEN after ELSE members
      /\ shared' = IF table = "shared" THEN after ELSE shared
      /\ variables' = IF table \in Scopes THEN [variables EXCEPT ![table] = after] ELSE variables
      /\ excused' = Lasting(excuses, after, Claimed(r))
  BY DEF WriteRow
<1>4. Rows' = after
  BY <1>1, <1>3 DEF Rows, Scopes, OrgsInv
<1>5. /\ Numbered(Rows) /\ Homed(Rows) /\ Once(Rows) /\ Holds(h)
  BY <1>1, RowsOnce DEF OrgsInv
<1>6. h.aid = 0 /\ h.kind # "pipeRm" =>
        /\ a \in Aids /\ \A row \in Rows : row.aid # a
        /\ \A q \in Requests : handlers[q].at = "write" => handlers[q].aid # a
  <2> SUFFICES ASSUME h.aid = 0 /\ h.kind # "pipeRm"
               PROVE  /\ a \in Aids /\ \A row \in Rows : row.aid # a
                      /\ \A q \in Requests : handlers[q].at = "write" => handlers[q].aid # a
    OBVIOUS
  <2>1. aids = FreshAids(Rows)
    OBVIOUS
  <2>2. aids \subseteq Aids
    BY <2>1 DEF FreshAids
  <2>3. a \in aids
    BY <1>3, <2>2, FreshAid
  <2> HIDE DEF a, h
  <2> QED BY <2>1, <2>3 DEF FreshAids
<1> DEFINE New == /\ h.kind \in {"userEdit", "pipeAdd", "new", "varSave"} /\ h.aid = 0
                  /\ \A m \in after : \/ m \in Rows /\ m.aid # a
                                      \/ m = RowOf(h, a) /\ m.aid = a /\ m.key = h.key
           Edit == /\ h.kind \in {"userEdit", "varSave"} /\ h.aid # 0
                   /\ \A m \in after : \/ m \in Rows /\ m.aid # h.aid
                                       \/ \E old \in Rows : /\ old.aid = h.aid /\ m = Changed(h, old)
                                                            /\ m.aid = h.aid /\ m.key = Target(h, old)
<1>7. after \subseteq Rows \/ New \/ Edit
  <2>1. CASE h.kind = "pipeRm"
    BY <2>1 DEF Written
  <2>2. CASE h.kind # "pipeRm"
    BY <1>1, <1>2, <1>6, <2>2, WrittenRows
  <2> QED BY <2>1, <2>2
<1>8. /\ excused \subseteq excuses
      /\ \A k \in Claims(h) \cap Claimed(r) : k \in excuses
      /\ \A k \in Strays(h) : k \in excuses
  OBVIOUS
<1> HIDE DEF after, a, aids, h, excuses
<1>9. \A k : k \in excused => k \in excuses
  BY <1>8
<1>10. \A m \in Rows : m.aid # 0
  BY <1>5, OrgsShape DEF Numbered, OrgsShape
<1>11. Homed(after) /\ \E b : Puts(r, after, b, excuses)
  <2>1. CASE after \subseteq Rows
    <3>1. Puts(r, after, 0, excuses)
      BY <1>10, <2>1 DEF Puts
    <3> QED BY <1>5, <2>1, <3>1 DEF Homed
  <2>2. CASE New
    <3>1. a \in Aids /\ (\A row \in Rows : row.aid # a)
          /\ \A q \in Requests : handlers[q].at = "write" => handlers[q].aid # a
      BY <1>6, <2>2
    <3>2. Claims(h) = {h.key}
      BY <1>1, <2>2 DEF Claims, Gives
    <3>3. \A n \in Rows : n.key = h.key => h.key \in excuses
      BY <1>5, <1>9, <1>10, <2>2, <3>2 DEF Holds
    <3>4. h.key \in Claimed(r) => h.key \in excuses
      BY <1>8, <3>2
    <3>5. Puts(r, after, a, excuses)
      BY <2>2, <3>1, <3>3, <3>4 DEF Puts
    <3>6. Homed(after)
      BY <1>1, <1>5, <2>2 DEF Homed, KindsOf, HomesOf, Scopes
    <3> QED BY <3>5, <3>6
  <2>3. CASE Edit
    <3>1. \A m, n \in Rows : m.aid = n.aid => m = n
      BY <1>5 DEF Numbered
    <3>2. \A m \in after : m.aid = h.aid =>
            \E old \in Rows : old.aid = h.aid /\ m = Changed(h, old) /\ m.key = Target(h, old)
      BY <2>3
    <3>3. ASSUME NEW old \in Rows, old.aid = h.aid, NEW n \in Rows, n.aid # h.aid, n.key = Target(h, old)
          PROVE  Target(h, old) \in excuses
      <4>1. CASE h.kind = "userEdit"
        <5>1. old.key = h.key /\ Target(h, old) = h.key
          BY <1>1, <1>5, <3>3, <4>1 DEF Holds, Target
        <5> QED BY <1>5, <1>9, <3>3, <5>1 DEF Once
      <4>2. CASE h.kind = "varSave" /\ old.key.home = h.key.home
        <5>1. Target(h, old) = h.key
          BY <1>1, <4>2 DEF Target
        <5>2. h.key \in Claims(h)
          BY <1>1, <3>3, <4>2 DEF Claims, Gives
        <5> QED BY <1>5, <1>9, <3>3, <5>1, <5>2 DEF Holds
      <4>3. CASE h.kind = "varSave" /\ old.key.home # h.key.home
        <5>1. Target(h, old) \in Strays(h) /\ table \in Scopes
          BY <1>1, <3>3, <4>3 DEF Strays, Target, KindsOf
        <5> QED BY <1>8, <5>1
      <4> QED BY <2>3, <4>1, <4>2, <4>3
    <3>4. ASSUME NEW old \in Rows, old.aid = h.aid, Target(h, old) \in Claimed(r)
          PROVE  Target(h, old) \in excuses \/ old.key = Target(h, old)
      <4>1. CASE h.kind = "userEdit"
        BY <1>1, <1>5, <3>4, <4>1 DEF Holds, Target
      <4>2. CASE h.kind = "varSave" /\ old.key.home = h.key.home
        <5>1. Target(h, old) = h.key
          BY <1>1, <4>2 DEF Target
        <5>2. h.key \in Claims(h)
          BY <1>1, <3>4, <4>2 DEF Claims, Gives
        <5> QED BY <1>8, <3>4, <5>1, <5>2
      <4>3. CASE h.kind = "varSave" /\ old.key.home # h.key.home
        <5>1. Target(h, old) \in Strays(h) /\ table \in Scopes
          BY <1>1, <3>4, <4>3 DEF Strays, Target, KindsOf
        <5> QED BY <1>8, <5>1
      <4> QED BY <2>3, <4>1, <4>2, <4>3
    <3>5. \A old \in Rows : old.aid = h.aid =>
            /\ table \in Scopes => old.key.home = Target(h, old).home
            /\ table = "members" => old.key = Target(h, old)
      <4>1. table \in Scopes => h.kind = "varSave"
        BY <1>1, <2>3 DEF KindsOf, Scopes
      <4>2. table = "members" => h.kind = "userEdit"
        BY <1>1, <2>3 DEF KindsOf
      <4> QED BY <1>1, <1>5, <4>1, <4>2 DEF Holds, Target
    <3>6. Puts(r, after, h.aid, excuses)
      <4>1. \A m \in after : (m \in Rows /\ m.aid # h.aid) \/ m.aid = h.aid
        BY <2>3
      <4>2. \A m, n \in after : m.aid = h.aid /\ n.aid = h.aid => m = n
        BY <3>1, <3>2
      <4>3. ASSUME NEW m \in after, m.aid = h.aid
            PROVE  /\ h.aid \in Aids
                   /\ \A n \in Rows : n.aid # h.aid /\ n.key = m.key => m.key \in excuses
                   /\ m.key \in Claimed(r) =>
                        m.key \in excuses \/ \E old \in Rows : old.aid = h.aid /\ old.key = m.key
                   /\ \A old \in Rows : old.aid = h.aid =>
                        /\ table \in Scopes => old.key.home = m.key.home
                        /\ table = "members" => old.key = m.key
                   /\ \E old \in Rows : old.aid = h.aid
        <5>1. PICK old \in Rows : old.aid = h.aid /\ m.key = Target(h, old)
          BY <3>2, <4>3
        <5>2. h.aid \in Aids
          BY <1>5, <5>1 DEF Numbered
        <5> QED BY <3>1, <3>3, <3>4, <3>5, <5>1, <5>2
      <4> QED BY <4>1, <4>2, <4>3 DEF Puts
    <3>7. Homed(after)
      <4>1. table # "shared"
        BY <1>1, <2>3 DEF KindsOf, Scopes
      <4>2. ASSUME table = "pipe", NEW m \in after PROVE m.key.home \in pipes
        <5>1. CASE m \in Rows
          BY <1>5, <4>2, <5>1 DEF Homed
        <5>2. CASE m.aid = h.aid
          BY <1>5, <3>2, <3>5, <4>2, <5>2 DEF Homed, Scopes
        <5> QED BY <2>3, <5>1, <5>2
      <4> QED BY <4>1, <4>2 DEF Homed
    <3> QED BY <3>6, <3>7
  <2> QED BY <1>7, <2>1, <2>2, <2>3
<1>12. PICK b : Puts(r, after, b, excuses)
  BY <1>11
<1>13. /\ Numbered(after)
       /\ \A m, n \in after : m.key = n.key => m = n \/ m.key \in excused'
       /\ \A q \in Requests : q # r /\ handlers'[q] = handlers[q] => Holds(handlers[q])'
  BY <1>1, <1>3, <1>4, <1>8, <1>12, PutsKeeps
<1>14. HandlerOK(Waiting) /\ Holds(Waiting)'
  BY DEF HandlerOK, Waiting, Holds, Claims
<1> QED BY <1>1, <1>3, <1>11, <1>13, <1>14, RowsStep DEF Finish

\* The next of the variables of new.
LEMMA InsertStep ==
  ASSUME OrgsInv, NEW r \in Requests, InsertVar(r)
  PROVE  OrgsInv'
<1> DEFINE h == handlers[r]
           key == [home |-> h.home, name |-> Head(h.names)]
           aids == FreshAids(Rows)
           a == CHOOSE x \in aids : \A y \in aids : x <= y
           row == [aid |-> a, key |-> key, value |-> "text"]
           after == Rows \cup {row}
           rest == [h EXCEPT !.names = Tail(@)]
           claims == Claimed(r) \cup Claims(rest)
           excuses == excused \cup ({key} \cap claims)
<1>0. PICK g : g = IF rest.names = <<>> THEN Waiting ELSE rest
  OBVIOUS
<1>1. /\ h.at = "insert" /\ table = "pipe" /\ h.home \in pipes
      /\ h.names \in Seq(VarNames) /\ h.names # <<>>
  BY DEF InsertVar, OrgsInv, HandlerOK
<1>2. /\ aids # {} /\ handlers' = [handlers EXCEPT ![r] = g]
      /\ variables' = [variables EXCEPT ![table] = after]
      /\ excused' = Lasting(excuses, after, claims)
      /\ UNCHANGED <<members, pipes, shared, table>>
  BY <1>0 DEF InsertVar, Finish, Writes
<1>3. Rows' = after /\ table \in Scopes /\ table # "orgs"
  BY <1>1, <1>2 DEF Rows, Scopes, OrgsInv
<1>4. Numbered(Rows) /\ Homed(Rows) /\ Holds(h)
  BY <1>3 DEF OrgsInv
<1>5. /\ a \in Aids /\ \A m \in Rows : m.aid # a
      /\ \A q \in Requests : handlers[q].at = "write" => handlers[q].aid # a
  <2>1. aids \subseteq Aids
    BY DEF FreshAids
  <2>2. a \in aids
    BY <1>2, <2>1, FreshAid
  <2> HIDE DEF a
  <2> QED BY <2>2 DEF FreshAids
<1>6. /\ rest.at = "insert" /\ rest.home = h.home /\ rest.names = Tail(h.names)
  <2>1. h.at = "insert" /\ DOMAIN rest = DOMAIN h
    BY <1>1
  <2> QED BY <1>1, <2>1
<1>7. Claims(rest) \subseteq Claims(h) /\ key \in Claims(h)
  <2>1. Claims(h) = {[home |-> h.home, name |-> h.names[i]] : i \in 1 .. Len(h.names)}
    BY <1>1 DEF Claims
  <2>2. Claims(rest) = {[home |-> h.home, name |-> Tail(h.names)[i]] : i \in 1 .. Len(Tail(h.names))}
    BY <1>6 DEF Claims
  <2>3. \A i \in 1 .. Len(Tail(h.names)) :
           i + 1 \in 1 .. Len(h.names) /\ Tail(h.names)[i] = h.names[i + 1]
    BY <1>1
  <2>4. 1 \in 1 .. Len(h.names) /\ Head(h.names) = h.names[1]
    BY <1>1
  <2> QED BY <2>1, <2>2, <2>3, <2>4
<1>8. /\ excused \subseteq excuses
      /\ key \in claims => key \in excuses
  OBVIOUS
<1>9. row.aid = a /\ row.key = key
  OBVIOUS
<1>10. g = Waiting \/ (g = rest /\ Tail(h.names) # <<>>)
  BY <1>0, <1>6
<1>11. HandlerOK(g)
  <2>1. HandlerOK(Waiting)
    BY DEF HandlerOK, Waiting
  <2>2. Tail(h.names) \in Seq(VarNames)
    BY <1>1
  <2>3. Tail(h.names) # <<>> => HandlerOK(rest)
    BY <1>1, <1>6, <2>2 DEF HandlerOK
  <2> QED BY <1>10, <2>1, <2>3
<1>12. Homed(after)
  BY <1>1, <1>4 DEF Homed
<1> HIDE DEF h, key, aids, a, row, excuses, rest, claims
<1>13. \A k : k \in excused => k \in excuses
  BY <1>8
<1>14. \A k \in Claims(h) : k \in excuses \/ \A m \in Rows : m.key # k
  BY <1>1, <1>4, <1>13 DEF Holds
<1>15. Puts(r, after, a, excuses)
  <2>1. Claimed(r) \subseteq claims
    BY DEF claims
  <2> QED BY <1>5, <1>7, <1>8, <1>9, <1>14, <2>1 DEF Puts
<1>16. Holds(g)'
  <2>1. CASE g = Waiting
    BY <2>1 DEF Holds, Claims, Waiting
  <2>2. CASE g = rest
    <3>1. g.at = "insert" /\ Claims(g)' = Claims(rest)
      BY <1>6, <2>2 DEF Claims
    <3>2. ASSUME NEW k \in Claims(rest), NEW m \in after, m.key = k
          PROVE  k \in excused'
      <4>1. k \in claims
        BY <3>2 DEF claims
      <4>2. k \in excuses
        BY <1>7, <1>8, <1>9, <1>14, <3>2, <4>1
      <4> QED BY <1>2, <4>1, <4>2, Lasts
    <3> QED BY <1>3, <2>2, <3>1, <3>2 DEF Holds
  <2> QED BY <1>10, <2>1, <2>2
<1>17. /\ Numbered(after)
       /\ \A m, n \in after : m.key = n.key => m = n \/ m.key \in excused'
       /\ \A q \in Requests : q # r /\ handlers'[q] = handlers[q] => Holds(handlers[q])'
  <2>1. Claimed(r) \subseteq claims
    BY DEF claims
  <2> HIDE DEF after
  <2> QED BY <1>2, <1>3, <1>8, <1>15, <2>1, PutsKeeps
<1>18. table # "members" /\ table # "shared"
  BY <1>1
<1> HIDE DEF after
<1> QED BY <1>2, <1>3, <1>11, <1>12, <1>16, <1>17, <1>18, RowsStep

\* The organisation itself is in none of the tables.
LEMMA OrgsStep ==
  ASSUME OrgsInv, [OrgsNext]_orgsVars
  PROVE  OrgsInv'
<1>1. ASSUME NEW r \in Requests, WriteOrg(r) \/ StatementFails(r)
      PROVE  OrgsInv'
  BY <1>1, FinishStep DEF WriteOrg, StatementFails
<1>2. CASE UNCHANGED orgsVars
  <2>1. /\ Rows' = Rows /\ table' = table /\ handlers' = handlers /\ members' = members
        /\ pipes' = pipes /\ shared' = shared /\ variables' = variables /\ excused' = excused
    BY <1>2 DEF orgsVars, Rows
  <2>2. \A r \in Requests : HandlerOK(handlers[r])'
    BY <2>1 DEF OrgsInv, HandlerOK, HomesOf
  <2>3. table # "orgs" => \A r \in Requests : Holds(handlers[r])'
    BY <2>1 DEF OrgsInv, Holds, Claims, Gives
  <2>4. OrgsInv
    OBVIOUS
  <2> QED BY <2>1, <2>2, <2>3, <2>4 DEF OrgsInv, Once, Numbered, Homed, Empty
<1> QED BY <1>1, <1>2, BeginStep, NewStep, LookStep, WriteRowStep, InsertStep DEF OrgsNext

\* Between the look of a handler and its write only a handler with an excuse puts a row
\* of its key, no row takes the number of one a handler remembers, and the pipeline new
\* makes has no rows but the ones that come after it.
THEOREM OrgsInvariant == OrgsSpec => []OrgsInv
BY OrgsInitHolds, OrgsStep, PTL DEF OrgsSpec

\* For every number of handlers, rows, users, organisations, pipelines and variables: a
\* user is a member once, a pipeline is shared once and a name is taken once in its
\* organisation or pipeline, unless two handlers were about to write the same at the same
\* time, varSave changed a row of another home than the one it looked into, or one request
\* to new brought the name twice.
THEOREM DoubledOnlyWithExcuse == OrgsSpec => []DoubledForReason
<1>1. OrgsInv => DoubledForReason
  BY DEF OrgsInv, DoubledForReason, Once
<1> QED BY <1>1, OrgsInvariant, PTL

-----------------------------------------------------------------------------
\* The queries of the listings and the rules of the pages agree in every state of the
\* tables, members with several rows and an organisation that is deleted included.
LEMMA ListedOpen ==
  ASSUME NEW u
  PROVE  /\ OrgListed(u) <=> OrgPages(u) # {}
         /\ OrgListed(u) <=> MemberPages(u) # {}
         /\ OrgListed(u) <=> OrgVarPages(u) # {}
         /\ PipePages(u) # {} => PipeVarPages(u) # {}
         /\ PipeListed(u) => PipePages(u) # {}
         /\ (PipeListedInOrg(u) /\ isMySQL) => PipePages(u) # {}
<1> DEFINE mine == {m \in members : m.key = u}
           Perm(row) == [by |-> u, found |-> ~ org.deleted, public |-> org.public, row |-> row]
<1>1. \A p \in OrgPerm(u) : \E row : p = Perm(row) /\ (~ org.deleted => (row # {} <=> mine # {}))
  <2> SUFFICES ASSUME NEW p \in OrgPerm(u)
               PROVE  \E row : p = Perm(row) /\ (~ org.deleted => (row # {} <=> mine # {}))
    OBVIOUS
  <2>1. PICK row \in IF org.deleted \/ \A m \in members : m.key # u THEN {{}}
                     ELSE {m.perms \cup {"member"} : m \in {n \in members : n.key = u}} :
               p = Perm(row)
    BY DEF OrgPerm
  <2>2. CASE org.deleted
    BY <2>1, <2>2
  <2>3. CASE mine = {}
    <3>1. row = {}
      BY <2>1, <2>3
    <3> QED BY <2>1, <2>3, <3>1
  <2>4. CASE ~ org.deleted /\ mine # {}
    <3>1. \E m \in mine : row = m.perms \cup {"member"}
      BY <2>1, <2>4
    <3>2. row # {}
      BY <3>1
    <3> QED BY <2>1, <2>4, <3>2
  <2> QED BY <2>2, <2>3, <2>4
<1>2. OrgPerm(u) # {}
  <2>1. CASE org.deleted \/ mine = {}
    BY <2>1 DEF OrgPerm
  <2>2. CASE ~ org.deleted /\ mine # {}
    <3>1. PICK m \in mine : TRUE
      BY <2>2
    <3>2. Perm(m.perms \cup {"member"}) \in OrgPerm(u)
      BY <2>2, <3>1 DEF OrgPerm
    <3> QED BY <3>2
  <2> QED BY <2>1, <2>2
<1>3. \A p \in OrgPerm(u) : p.found /\ OrgCanRead(p) <=> OrgListed(u)
  <2> SUFFICES ASSUME NEW p \in OrgPerm(u)
               PROVE  p.found /\ OrgCanRead(p) <=> OrgListed(u)
    OBVIOUS
  <2>1. PICK row : p = Perm(row) /\ (~ org.deleted => (row # {} <=> mine # {}))
    BY <1>1
  <2>2. p.by = u /\ (p.found <=> ~ org.deleted) /\ p.public = org.public /\ p.row = row
    BY <2>1
  <2>3. mine # {} <=> \E m \in members : m.key = u
    OBVIOUS
  <2> HIDE DEF mine, Perm
  <2> QED BY <2>1, <2>2, <2>3
          DEF OrgCanRead, IsOrgAdmin, IsOrgOwner, IsAdmin, OrgListed
<1>4. (\E p \in OrgPerm(u) : p.found /\ OrgCanRead(p)) <=> OrgListed(u)
  BY <1>2, <1>3
<1>5. PipePages(u) # {} <=> PipeCanRead(PipePerm(u))
  BY DEF PipePages
<1>6. PipeVarPages(u) # {} <=> PipeCanRead(PipePerm(u))
  BY DEF PipeVarPages
<1>7. PipeListed(u) => PipeCanRead(PipePerm(u))
  BY DEF PipeListed, PipeCanRead, PipeGrants, PipePerm, IsPipeOwner
<1>8. PipeListedInOrg(u) /\ isMySQL => PipeCanRead(PipePerm(u))
  <2> SUFFICES ASSUME PipeListedInOrg(u), isMySQL
               PROVE  PipeCanRead(PipePerm(u))
    OBVIOUS
  <2> DEFINE orgs == PipePerm(u).orgs
             Row(r) == [public |-> org.public, row |-> r]
  <2>1. (\E s \in shared : s.key = First) /\ OrgListed(u)
    BY <1>4 DEF PipeListedInOrg
  <2>2. ~ org.deleted
    BY <2>1 DEF OrgListed
  <2>3. orgs = IF mine = {} THEN {Row({})} ELSE {Row(m.perms \cup {"member"}) : m \in mine}
    BY <2>1, <2>2 DEF PipePerm
  <2>4. PipePerm(u).by = u
    BY DEF PipePerm
  <2>5. \E o \in orgs : o.public = org.public
    <3>1. \A r : Row(r).public = org.public
      OBVIOUS
    <3>2. CASE mine = {}
      <4>1. Row({}) \in orgs
        BY <2>3, <3>2
      <4> QED BY <3>1, <4>1
    <3>3. ASSUME NEW m \in mine PROVE \E o \in orgs : o.public = org.public
      <4>1. Row(m.perms \cup {"member"}) \in orgs
        BY <2>3
      <4> QED BY <3>1, <4>1
    <3> QED BY <3>2, <3>3
  <2>6. mine # {} => \E o \in orgs : o.row \cap {"member"} # {}
    <3> SUFFICES ASSUME NEW m \in mine PROVE \E o \in orgs : o.row \cap {"member"} # {}
      OBVIOUS
    <3>1. Row(m.perms \cup {"member"}) \in orgs
      BY <2>3
    <3> QED BY <3>1
  <2>7. \/ u = Admin \/ org.public \/ u = Owner \/ mine # {}
    BY <2>1 DEF OrgListed, IsAdmin
  <2> HIDE DEF orgs, mine
  <2>8. orgs = PipePerm(u).orgs
    BY DEF orgs
  <2> QED BY <2>4, <2>5, <2>6, <2>7, <2>8 DEF PipeCanRead, PipeGrants, IsAdmin
<1>9. OrgPages(u) # {} <=> \E p \in OrgPerm(u) : p.found /\ OrgCanRead(p)
  BY DEF OrgPages
<1>10. MemberPages(u) # {} <=> \E p \in OrgPerm(u) : p.found /\ OrgCanRead(p)
  BY DEF MemberPages
<1>11. OrgVarPages(u) # {} <=> \E p \in OrgPerm(u) : p.found /\ OrgCanRead(p)
  <2> DEFINE Page(p) == {Masks(row, OrgCanWrite(p)) : row \in VarsOf("org", First)}
             open == {q \in OrgPerm(u) : q.found /\ OrgCanRead(q)}
  <2>1. OrgVarPages(u) = {Page(p) : p \in open}
    BY Zenon DEF OrgVarPages
  <2>2. open # {} <=> \E p \in OrgPerm(u) : p.found /\ OrgCanRead(p)
    OBVIOUS
  <2> HIDE DEF Page, open
  <2> QED BY <2>1, <2>2
<1> QED BY <1>4, <1>5, <1>6, <1>7, <1>8, <1>9, <1>10, <1>11

\* What is listed to a user opens for him.  Nothing is asked of the state: the queries
\* and the rules agree whatever the tables hold.
THEOREM ListedAreOpened == OrgsSpec => []ListedCanBeOpened
<1>1. ListedCanBeOpened
  BY ListedOpen DEF ListedCanBeOpened
<1> QED BY <1>1, PTL
=============================================================================
