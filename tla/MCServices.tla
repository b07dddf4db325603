----------------------------- MODULE MCServices -----------------------------
(* The modules of what runs beside the builds, side by side: turn says     *)
(* which one moves.                                                        *)
EXTENDS BuildEngine, Users, RateLimiter, Orgs, Server, TLC

CONSTANTS my, lite, i1, i2, u1, u2

Drivers == (my :> "mysql") @@ (lite :> "sqlite3")

VARIABLE turn
menuVars == <<turn, vars, usersVars, limiterVars, orgsVars, serverVars>>

BuildsIdle == /\ taskw = <<>> /\ tasks = {} /\ wake = FALSE /\ up = TRUE /\ stopped = FALSE
              /\ loop = "init" /\ waiting = FALSE /\ front = None
              /\ work = [b \in Builds |-> "new"]
\* One user to begin with: names, passwords and times are as good as each other.
FirstUser == [nick |-> 1, pass |-> 1, active |-> TRUE, login |-> 1]
UsersIdle == /\ user = FirstUser /\ hasInfo = FALSE
             /\ entry = {} /\ cleanups = 0 /\ behind = FALSE /\ stamped = FALSE
             /\ calls = [c \in Calls |-> [at |-> "new"]]
OrgsIdle == /\ table = "orgs" /\ org = [public |-> FALSE, deleted |-> FALSE] /\ isMySQL = TRUE
            /\ members = {} /\ shared = {} /\ excused = {} /\ pipes = {First}
            /\ variables = [s \in Scopes |-> {}]
            /\ handlers = [r \in Requests |-> Waiting]
ServerIdle == /\ file = NoFile /\ schema = [s \in Sources |-> "none"] /\ processes = 1
              /\ run = "webReady" /\ web = "off" /\ alive = TRUE
              /\ installed = FALSE /\ cfg = NoSource /\ inUse = NoSource /\ ups = NoSource
              /\ installs = [i \in Installers |-> NoInstall] /\ overlapped = FALSE

MenuInit ==
  \/ turn = "builds" /\ Init /\ UsersIdle /\ LimiterInit /\ OrgsIdle /\ ServerIdle
  \/ turn = "users" /\ UsersInit /\ user = FirstUser /\ BuildsIdle /\ LimiterInit /\ OrgsIdle /\ ServerIdle
  \/ turn = "limiter" /\ LimiterInit /\ BuildsIdle /\ UsersIdle /\ OrgsIdle /\ ServerIdle
  \/ turn = "orgs" /\ OrgsInit /\ BuildsIdle /\ UsersIdle /\ LimiterInit /\ ServerIdle
  \/ turn = "server" /\ ServerInit /\ BuildsIdle /\ UsersIdle /\ LimiterInit /\ OrgsIdle

MenuNext ==
  \/ turn = "builds" /\ Next /\ UNCHANGED <<turn, usersVars, limiterVars, orgsVars, serverVars>>
  \/ turn = "users" /\ UsersNext /\ UNCHANGED <<turn, vars, limiterVars, orgsVars, serverVars>>
  \/ turn = "limiter" /\ LimiterNext /\ UNCHANGED <<turn, vars, usersVars, orgsVars, serverVars>>
  \/ turn = "orgs" /\ OrgsNext /\ UNCHANGED <<turn, vars, usersVars, limiterVars, serverVars>>
  \/ turn = "server" /\ ServerNext /\ UNCHANGED <<turn, vars, usersVars, limiterVars, orgsVars>>

\* The fairness of BuildEngine and of Server, each in its turn.
MenuFairness ==
  /\ WF_menuVars(turn = "builds" /\ LoopNext /\ UNCHANGED <<turn, usersVars, limiterVars, orgsVars, serverVars>>)
  /\ \A b \in Builds : WF_menuVars(turn = "builds" /\ WorkNext(b)
                                    /\ UNCHANGED <<turn, usersVars, limiterVars, orgsVars, serverVars>>)
  /\ WF_menuVars(turn = "server" /\ RunNext /\ UNCHANGED <<turn, vars, usersVars, limiterVars, orgsVars>>)

MenuSpec == MenuInit /\ [][MenuNext]_menuVars /\ MenuFairness
=============================================================================
