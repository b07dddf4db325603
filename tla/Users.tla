------------------------------- MODULE Users -------------------------------
(***************************************************************************)
(* A user's row, its copy in the cache and the requests that read the one  *)
(* and write the other: comm/cache.go, service/user.go, service/mid.go and *)
(* route/user.go; and the login of route/login.go, which reads and writes  *)
(* the row beside the cache.  A reader fills the cache with what it read   *)
(* before, a writer of route/user.go clears it after it wrote, and nothing *)
(* orders the two.                                                         *)
(*                                                                         *)
(* One user.  A request is the user's own or an administrator's, whose own *)
(* lookup is left out.                                                     *)
(***************************************************************************)
EXTENDS Naturals

CONSTANTS
  Calls,       \* the requests, one each
  Nicks, Passes,
  Times,       \* when a user logs in
  MaxCleanups  \* bounds the goroutines that delete an expired key

VARIABLES
  user,     \* t_user
  hasInfo,  \* there is a row in t_user_info
  entry,    \* what the cache holds for the user: nothing, or a copy and if it is in time
  cleanups, \* goroutines of CacheGet on their way to delete the key
  calls,    \* the requests: where they are and what they read
  behind,   \* history: the entry is behind the row for a reason named below
  stamped   \* history: a login has written its time since the entry was read

usersVars == <<user, hasInfo, entry, cleanups, calls, behind, stamped>>

UserRows == [nick : Nicks, pass : Passes, active : BOOLEAN, login : Times]

\* What the handlers of route/user.go write of a row.
Managed(row) == [nick |-> row.nick, pass |-> row.pass, active |-> row.active]

UsersInit ==
  /\ user \in [nick : Nicks, pass : Passes, active : {TRUE}, login : Times]
  /\ hasInfo \in BOOLEAN
  /\ entry = {} /\ cleanups = 0 /\ behind = FALSE /\ stamped = FALSE
  /\ calls = [c \in Calls |-> [at |-> "new"]]

At(c, at) == calls[c].at = at
Go(c, at) == calls' = [calls EXCEPT ![c].at = at]

Kinds == {"read", "upinfo", "upass", "active", "perm", "login"}

\* A request comes in: active and perm are the administrator's, and login has no user yet.
Arrive(c) ==
  /\ At(c, "new")
  /\ \E kind \in Kinds, own \in BOOLEAN :
       /\ own => kind \in {"read", "upinfo", "upass"}
       /\ ~ own => kind # "read"
       /\ calls' = [calls EXCEPT ![c] = [at |-> IF own THEN "lookup" ELSE kind, kind |-> kind,
                                         own |-> own, got |-> user, isup |-> FALSE]]
  /\ UNCHANGED <<user, hasInfo, entry, cleanups, behind, stamped>>

\* CacheGets in GetUserCacheCtx: a copy in time is taken, one that is not is
\* left to a goroutine that deletes the key.
LookUp(c) ==
  /\ At(c, "lookup")
  /\ \/ \E e \in entry : /\ e.fresh
                         /\ calls' = [calls EXCEPT ![c].at = "check", ![c].got = e.value]
                         /\ UNCHANGED cleanups
     \/ /\ \A e \in entry : ~ e.fresh
        /\ entry # {} => cleanups < MaxCleanups
        /\ cleanups' = IF entry = {} THEN cleanups ELSE cleanups + 1
        /\ Go(c, "query")
  /\ UNCHANGED <<user, hasInfo, entry, behind, stamped>>

\* GetUserCtx
Query(c) ==
  /\ At(c, "query")
  /\ calls' = [calls EXCEPT ![c].at = "put", ![c].got = user]
  /\ UNCHANGED <<user, hasInfo, entry, cleanups, behind, stamped>>

\* CacheSets, whose error is only logged.
PutEntry(c) ==
  /\ At(c, "put")
  /\ \/ /\ entry' = {[value |-> calls[c].got, fresh |-> TRUE]}
        /\ behind' = (Managed(calls[c].got) # Managed(user))
        /\ stamped' = (calls[c].got.login # user.login)
     \/ UNCHANGED <<entry, behind, stamped>>
  /\ Go(c, "check")
  /\ UNCHANGED <<user, hasInfo, cleanups>>

\* MidUserCheck
MidUserCheck(c) ==
  /\ At(c, "check")
  /\ Go(c, IF calls[c].got.active THEN calls[c].kind ELSE "done")
  /\ UNCHANGED <<user, hasInfo, entry, cleanups, behind, stamped>>

Read(c) == At(c, "read") /\ Go(c, "done") /\ UNCHANGED <<user, hasInfo, entry, cleanups, behind, stamped>>

\* An update of the row that fails is answered and nothing else is done.
Refused(c, at) == At(c, at) /\ Go(c, "done") /\ UNCHANGED <<user, hasInfo, entry, cleanups, behind, stamped>>

\* upinfo: reads both rows, updates the first, then updates or inserts the
\* second; an error there is answered with the first updated and not cleared.
upinfo(c) ==
  /\ At(c, "upinfo")
  /\ calls' = [calls EXCEPT ![c].at = "nick", ![c].isup = hasInfo]
  /\ UNCHANGED <<user, hasInfo, entry, cleanups, behind, stamped>>
UpdateNick(c) ==
  /\ At(c, "nick")
  /\ \E n \in Nicks : user' = [user EXCEPT !.nick = n]
  /\ Go(c, "info")
  /\ UNCHANGED <<hasInfo, entry, cleanups, behind, stamped>>
WriteInfo(c) ==
  /\ At(c, "info")
  /\ calls[c].isup \/ ~ hasInfo
  /\ hasInfo' = TRUE
  /\ Go(c, "clear")
  /\ UNCHANGED <<user, entry, cleanups, behind, stamped>>
InfoFails(c) ==
  /\ At(c, "info")
  /\ behind' = (entry # {})
  /\ Go(c, "done")
  /\ UNCHANGED <<user, hasInfo, entry, cleanups, stamped>>

\* upass: the owner gives the old password, which is compared with the copy
\* MidUserCheck found.
upass(c) ==
  /\ At(c, "upass")
  /\ \E olds \in Passes : Go(c, IF calls[c].own /\ olds # calls[c].got.pass THEN "done" ELSE "pass")
  /\ UNCHANGED <<user, hasInfo, entry, cleanups, behind, stamped>>
UpdatePass(c) ==
  /\ At(c, "pass")
  /\ \E p \in Passes : user' = [user EXCEPT !.pass = p]
  /\ Go(c, "clear")
  /\ UNCHANGED <<hasInfo, entry, cleanups, behind, stamped>>

\* Mutant of active: the cache is cleared before the row is updated.
activeAfterClear(c) ==
  /\ At(c, "active")
  /\ \E a \in BOOLEAN : user' = [user EXCEPT !.active = a]
  /\ Go(c, "done")
  /\ UNCHANGED <<hasInfo, entry, cleanups, behind, stamped>>

\* active: the row is read and its one column updated.
active(c) ==
  /\ At(c, "active")
  /\ \E a \in BOOLEAN : user' = [user EXCEPT !.active = a]
  /\ Go(c, "clear")
  /\ UNCHANGED <<hasInfo, entry, cleanups, behind, stamped>>

\* perm: updates or inserts the second row.
perm(c) ==
  /\ At(c, "perm")
  /\ calls' = [calls EXCEPT ![c].at = "perms", ![c].isup = hasInfo]
  /\ UNCHANGED <<user, hasInfo, entry, cleanups, behind, stamped>>
WritePerm(c) ==
  /\ At(c, "perms")
  /\ calls[c].isup \/ ~ hasInfo
  /\ hasInfo' = TRUE
  /\ Go(c, "clear")
  /\ UNCHANGED <<user, entry, cleanups, behind, stamped>>

\* login: finds the row by its name and refuses who is not active or gives another
\* password; after the answer it writes the time, and clears nothing.
login(c) ==
  /\ At(c, "login")
  /\ \E pass \in Passes : Go(c, IF user.active /\ pass = user.pass THEN "stamp" ELSE "done")
  /\ UNCHANGED <<user, hasInfo, entry, cleanups, behind, stamped>>
StampLogin(c) ==
  /\ At(c, "stamp")
  /\ \E time \in Times : user' = [user EXCEPT !.login = time]
  /\ stamped' = (entry # {})
  /\ Go(c, "done")
  /\ UNCHANGED <<hasInfo, entry, cleanups, behind>>

\* ClearUserCache, whose error is only logged.
ClearUserCache(c) ==
  /\ At(c, "clear")
  /\ \/ entry' = {} /\ behind' = FALSE /\ stamped' = FALSE
     \/ behind' = (entry # {}) /\ UNCHANGED <<entry, stamped>>
  /\ Go(c, "done")
  /\ UNCHANGED <<user, hasInfo, cleanups>>

\* The goroutine of CacheGet: it deletes whatever the key holds by now.
DeleteExpired ==
  /\ cleanups > 0
  /\ cleanups' = cleanups - 1
  /\ entry' = {} /\ behind' = FALSE /\ stamped' = FALSE
  /\ UNCHANGED <<user, hasInfo, calls>>

\* mainCacheClear, started by CacheGet every 30 hours: only what is expired.
mainCacheClear ==
  /\ \E e \in entry : ~ e.fresh
  /\ entry' = {} /\ behind' = FALSE /\ stamped' = FALSE
  /\ UNCHANGED <<user, hasInfo, cleanups, calls>>

\* The hour of an entry passes.
Expire ==
  /\ \E e \in entry : e.fresh
  /\ entry' = {[e EXCEPT !.fresh = FALSE] : e \in entry}
  /\ UNCHANGED <<user, hasInfo, cleanups, calls, behind, stamped>>

UsersNext ==
  \/ \E c \in Calls :
       \/ Arrive(c) \/ LookUp(c) \/ Query(c) \/ PutEntry(c) \/ MidUserCheck(c) \/ Read(c)
       \/ upinfo(c) \/ UpdateNick(c) \/ WriteInfo(c) \/ InfoFails(c) \/ upass(c) \/ UpdatePass(c)
       \/ active(c) \/ perm(c) \/ WritePerm(c) \/ login(c) \/ StampLogin(c) \/ ClearUserCache(c)
       \/ \E at \in {"nick", "pass", "active", "perms", "stamp"} : Refused(c, at)
  \/ DeleteExpired \/ mainCacheClear \/ Expire
UsersSpec == UsersInit /\ [][UsersNext]_usersVars

-----------------------------------------------------------------------------
\* A copy in time differs from the row in what requests are judged by (name, password,
\* active) only while a writer has still to clear the cache, or because a reader put what
\* it had read before the row changed, clearing failed, or upinfo gave up between its two
\* updates; a login makes it differ in its time alone, which stays behind until the copy
\* goes; every other order of readers, writers, logins and deleted keys leaves the copy
\* right or none.
StaleForReason ==
  \A e \in entry : e.fresh =>
    /\ Managed(e.value) # Managed(user) => behind \/ \E c \in Calls : At(c, "info") \/ At(c, "clear")
    /\ e.value.login # user.login => stamped
=============================================================================
