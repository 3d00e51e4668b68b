-------------------------------- MODULE Login --------------------------------
(***************************************************************************)
(* The login of the older server tree: LoginService and AuthService of     *)
(* LoginServer, with the gate servers its Session knows, the tokens and    *)
(* online flags RedisService of DBProxyServer keeps, and Login2Gate of     *)
(* GateServer.  Requests run concurrently; every call to the DBProxy may   *)
(* fail, be done and yet be reported as failed, or be reported as done     *)
(* although Redis did not answer.                                          *)
(***************************************************************************)
EXTENDS Integers, FiniteSets

CONSTANTS Requests,      \* Login and Login2Gate calls
          Users, Gates,
          MaxNow,        \* bound: seconds of the clock
          MaxStarts,     \* bound: starts of a gate server
          MaxExpiries    \* bound: tokens that expire

ASSUME LoginAssumption == MaxNow \in Nat /\ MaxStarts \in Nat /\ MaxExpiries \in Nat

VARIABLES now,           \* the time a digest is made of
          clientsPerServer,  \* Session: the load of the gates, None for those not in the map
          gateServerMap,     \* Session: the GateServerMsg of a gate, by the start it is of
          freed,         \* GateServerMsg objects that were deleted
          address,       \* how often a gate has started: its current address
          token, online, \* Redis, by user
          channels,      \* GateServer: users in _channel_map
          req,           \* requests: where they are and what they hold
          expiries,
          \* history, read by no action:
          restarted,     \* gates that started again while still registered
          bereft,        \* requests whose GateServerMsg was deleted after they got it
          excused,       \* requests whose token expired, was replaced or never stored
          undone         \* users whose flag was not written, or written over

sessionVars == <<clientsPerServer, gateServerMap, freed, address>>
redisVars == <<token, online>>
history == <<restarted, bereft, excused, undone>>
vars == <<now, sessionVars, redisVars, channels, req, expiries, history>>

None == -1
NoToken == <<"none", 0>>
Tokens == Users \X (0..MaxNow)
Objects == Gates \X (1..MaxStarts)
NoGate == <<"none", 0>>

Idle == [pc |-> "idle", user |-> "none", gate |-> NoGate, token |-> NoToken, given |-> NoToken]

Init == /\ now = 0
        /\ clientsPerServer = [g \in Gates |-> None]
        /\ gateServerMap = [g \in Gates |-> 0]
        /\ freed = {} /\ address = [g \in Gates |-> 0]
        /\ token = [u \in Users |-> NoToken]
        /\ online = [u \in Users |-> "missing"]
        /\ channels = {} /\ req = [r \in Requests |-> Idle] /\ expiries = 0
        /\ restarted = {} /\ bereft = {} /\ excused = {} /\ undone = {}

----------------------------------------------------------------------------
\* Session.

\* A gate server starts, and its FirstSend is recorded unless the call fails; what
\* the two maps hold already is not replaced.
FirstSend(g) ==
  /\ address[g] < MaxStarts
  /\ address' = [address EXCEPT ![g] = @ + 1]
  /\ \/ /\ clientsPerServer' = [clientsPerServer EXCEPT ![g] = IF @ = None THEN 0 ELSE @]
        /\ gateServerMap' = [gateServerMap EXCEPT ![g] = IF @ = 0 THEN address'[g] ELSE @]
     \/ UNCHANGED <<clientsPerServer, gateServerMap>>
  /\ restarted' = IF clientsPerServer[g] # None THEN restarted \cup {g} ELSE restarted
  /\ UNCHANGED <<now, freed, redisVars, channels, req, expiries, bereft, excused, undone>>

\* Notify: the number of clients of a gate that is registered.
Notify(g) ==
  /\ clientsPerServer[g] # None
  /\ \E counts \in {0, 1} : clientsPerServer' = [clientsPerServer EXCEPT ![g] = counts]
  /\ UNCHANGED <<now, gateServerMap, freed, address, redisVars, channels, req, expiries, history>>

Holders(o) == {r \in Requests : req[r].gate = o}

\* Mutants: the address stays in its map; both maps keep the gate.
LastSendKeepsMap(g) ==
  /\ gateServerMap[g] # 0
  /\ clientsPerServer' = [clientsPerServer EXCEPT ![g] = None]
  /\ restarted' = restarted \ {g}
  /\ UNCHANGED <<now, gateServerMap, freed, address, redisVars, channels, req, expiries, bereft,
                 excused, undone>>
LastSendKeepsBoth(g) ==
  /\ gateServerMap[g] # 0
  /\ freed' = freed \cup {<<g, gateServerMap[g]>>}
  /\ bereft' = bereft \cup Holders(<<g, gateServerMap[g]>>)
  /\ UNCHANGED <<now, clientsPerServer, gateServerMap, address, redisVars, channels, req, expiries,
                 restarted, excused, undone>>

\* LastSend: the gate leaves both maps and its GateServerMsg is deleted.
LastSend(g) ==
  /\ gateServerMap[g] # 0
  /\ clientsPerServer' = [clientsPerServer EXCEPT ![g] = None]
  /\ freed' = freed \cup {<<g, gateServerMap[g]>>}
  /\ gateServerMap' = [gateServerMap EXCEPT ![g] = 0]
  /\ bereft' = bereft \cup Holders(<<g, gateServerMap[g]>>)
  /\ restarted' = restarted \ {g}
  /\ UNCHANGED <<now, address, redisVars, channels, req, expiries, excused, undone>>

----------------------------------------------------------------------------
\* Requests.
Goto(r, pc) == req' = [req EXCEPT ![r].pc = pc]
End(r) == req' = [req EXCEPT ![r] = [@ EXCEPT !.pc = "failed", !.gate = NoGate]]
\* Those that hold, or are going to store, a token of u.
With(u) == {r \in Requests : req[r].user = u /\ req[r].pc \in {"set", "status", "answer"}}
Kept == <<now, sessionVars, channels, expiries>>

\* Login: the password is right (queryForLogin).
Begin(r) == \E u \in Users :
  /\ req[r] = Idle
  /\ req' = [req EXCEPT ![r] = [@ EXCEPT !.pc = "gate", !.user = u]]
  /\ UNCHANGED <<Kept, redisVars, history>>

\* getGateServerMsg: a gate with the fewest clients.  The pointer is used after the
\* mutex is released.
GetGate(r) ==
  LET known == {g \in Gates : clientsPerServer[g] # None} IN
  /\ req[r].pc = "gate"
  /\ \/ known = {} /\ End(r)
     \/ \E g \in known :
          /\ \A h \in known : clientsPerServer[g] <= clientsPerServer[h]
          /\ req' = [req EXCEPT ![r] = [@ EXCEPT !.pc = "online", !.gate = <<g, gateServerMap[g]>>]]
  /\ UNCHANGED <<Kept, redisVars, history>>

\* queryForOnline, ReqForOnline: EXISTS and GET; a user who is online is not kicked.
\* Redis that does not answer is taken for a missing key.
QueryForOnline(r) ==
  /\ req[r].pc = "online"
  /\ \/ online[req[r].user] # "missing" /\ Goto(r, "token")
     \/ Goto(r, "reset")
     \/ End(r)
  /\ UNCHANGED <<Kept, redisVars, history>>

\* ReqForOnline: SET to offline, after EXISTS and not together with it.
Reset(r) ==
  LET u == req[r].user IN
  /\ req[r].pc = "reset"
  /\ \/ online' = [online EXCEPT ![u] = "offline"]
        /\ undone' = IF online[u] = "online" THEN undone \cup {u} ELSE undone
     \/ UNCHANGED <<online, undone>>
  /\ Goto(r, "token") \/ End(r)
  /\ UNCHANGED <<Kept, token, restarted, bereft, excused>>

\* queryForToken, ReqForToken: EXISTS.
QueryForToken(r) ==
  /\ req[r].pc \in {"token", "auth"}
  /\ \/ /\ token[req[r].user] # NoToken
        /\ Goto(r, IF req[r].pc = "token" THEN "get" ELSE "getAuth")
     \/ Goto(r, IF req[r].pc = "token" THEN "sign" ELSE "refused")
     \/ IF req[r].pc = "token" THEN End(r) ELSE Goto(r, "refused")
  /\ UNCHANGED <<Kept, redisVars, history>>

\* Mutant: a login that finds a token is answered at once.
GetTokenAnswers(r) ==
  /\ req[r].pc = "get"
  /\ req' = [req EXCEPT ![r] = [@ EXCEPT !.pc = "answer", !.token = token[req[r].user]]]
  /\ excused' = IF token[req[r].user] = NoToken THEN excused \cup {r} ELSE excused
  /\ UNCHANGED <<Kept, redisVars, restarted, bereft, undone>>

\* ReqForToken: GET; a key that expired meanwhile, or no answer, is an empty token.
GetToken(r) ==
  /\ req[r].pc = "get"
  /\ \/ /\ req' = [req EXCEPT ![r] = [@ EXCEPT !.pc = "status", !.token = token[req[r].user]]]
        /\ excused' = IF token[req[r].user] = NoToken THEN excused \cup {r} ELSE excused
     \/ /\ req' = [req EXCEPT ![r].pc = "status"]
        /\ excused' = excused \cup {r}
  /\ UNCHANGED <<Kept, redisVars, restarted, bereft, undone>>

\* generateDigest of the name and the time, and sign.
Sign(r) ==
  /\ req[r].pc = "sign"
  /\ \/ req' = [req EXCEPT ![r] = [@ EXCEPT !.pc = "set", !.token = <<req[r].user, now>>]]
     \/ End(r)
  /\ UNCHANGED <<Kept, redisVars, history>>

\* Mutant: SET NX, a token that is there stays.
SetTokenOnce(r) ==
  LET u == req[r].user IN
  /\ req[r].pc = "set"
  /\ token' = [token EXCEPT ![u] = IF @ = NoToken THEN req[r].token ELSE @]
  /\ Goto(r, "status")
  /\ UNCHANGED <<Kept, online, history>>

\* setToken, SetToken: SETEX.  The answer of Redis is not looked at.
SetToken(r) ==
  LET u == req[r].user
      t == req[r].token
  IN /\ req[r].pc = "set"
     /\ \/ /\ token' = [token EXCEPT ![u] = t]
           /\ excused' = (excused \ {r}) \cup {s \in With(u) \ {r} : req[s].token # t}
        \/ UNCHANGED token /\ excused' = IF token[u] = t THEN excused ELSE excused \cup {r}
     /\ Goto(r, "status") \/ End(r)
     /\ UNCHANGED <<Kept, online, restarted, bereft, undone>>

\* setOnlineStatus; its result is ignored.
SetOnlineStatus(r) ==
  LET u == req[r].user IN
  /\ req[r].pc = "status" /\ Goto(r, "answer")
  /\ \/ online' = [online EXCEPT ![u] = "online"] /\ undone' = undone \ {u}
     \/ UNCHANGED online /\ undone' = undone \cup {u}
  /\ UNCHANGED <<Kept, token, restarted, bereft, excused>>

\* The answer: address of the gate, and token.
Answer(r) ==
  /\ req[r].pc = "answer" /\ Goto(r, "answered")
  /\ UNCHANGED <<Kept, redisVars, history>>

\* Login2Gate: a user comes to a gate with a token, its own or any other.
Login2Gate(r) == \E u \in Users, t \in {token[v] : v \in Users} \cup {NoToken} :
  /\ req[r] = Idle
  /\ req' = [req EXCEPT ![r] = [@ EXCEPT !.pc = "auth", !.user = u, !.given = t]]
  /\ UNCHANGED <<Kept, redisVars, history>>

\* Auth: GET, and the two tokens are compared.
GetForAuth(r) ==
  /\ req[r].pc = "getAuth"
  /\ \E found \in {token[req[r].user], NoToken} :
       Goto(r, IF found = req[r].given THEN "passed" ELSE "refused")
  /\ UNCHANGED <<Kept, redisVars, history>>

\* Login2Gate: the user gets a channel if auth returned false, and is refused if it
\* returned true.
Admit(r) ==
  LET u == req[r].user IN
  /\ req[r].pc \in {"passed", "refused"} /\ Goto(r, "answered")
  /\ channels' = IF req[r].pc = "refused" THEN channels \cup {u} ELSE channels
  /\ UNCHANGED <<now, sessionVars, redisVars, expiries, history>>

----------------------------------------------------------------------------
\* Redis drops a token after its seven days.
Expire(u) ==
  /\ token[u] # NoToken /\ expiries < MaxExpiries
  /\ token' = [token EXCEPT ![u] = NoToken]
  /\ excused' = excused \cup {r \in With(u) : req[r].pc # "set"}
  /\ expiries' = expiries + 1
  /\ UNCHANGED <<now, sessionVars, online, channels, req, restarted, bereft, undone>>

Tick == /\ now < MaxNow /\ now' = now + 1
        /\ UNCHANGED <<sessionVars, redisVars, channels, req, expiries, history>>

Request(r) == \/ Begin(r) \/ GetGate(r) \/ QueryForOnline(r) \/ Reset(r) \/ QueryForToken(r)
              \/ GetToken(r) \/ Sign(r) \/ SetToken(r) \/ SetOnlineStatus(r) \/ Answer(r)
              \/ Login2Gate(r) \/ GetForAuth(r) \/ Admit(r)
Next == \/ \E g \in Gates : FirstSend(g) \/ Notify(g) \/ LastSend(g)
        \/ \E r \in Requests : Request(r)
        \/ \E u \in Users : Expire(u)
        \/ Tick
Spec == Init /\ [][Next]_vars

----------------------------------------------------------------------------
\* Type correctness.
PCs == {"idle", "gate", "online", "reset", "token", "auth", "get", "getAuth", "sign", "set",
        "status", "answer", "passed", "refused", "answered", "failed"}
Calls == [pc : PCs, user : Users \cup {"none"}, gate : Objects \cup {NoGate},
          token : Tokens \cup {NoToken}, given : Tokens \cup {NoToken}]
TypeOK ==
  /\ now \in 0..MaxNow
  /\ clientsPerServer \in [Gates -> {None, 0, 1}] /\ gateServerMap \in [Gates -> 0..MaxStarts]
  /\ freed \subseteq Objects /\ address \in [Gates -> 0..MaxStarts]
  /\ token \in [Users -> Tokens \cup {NoToken}]
  /\ online \in [Users -> {"missing", "offline", "online"}]
  /\ req \in [Requests -> Calls]
  /\ \A r \in Requests : req[r] # Idle => req[r].user \in Users

\* The two maps of Session agree, and hold an older address of a gate only if the gate
\* started again without LastSend (Session.cpp:28-35, insert does not replace).  Of a
\* login that holds a pointer into one of them nothing is said here.
GateIsCurrent ==
  \A g \in Gates : clientsPerServer[g] # None =>
    gateServerMap[g] # 0 /\ (gateServerMap[g] = address[g] \/ g \in restarted)

\* The GateServerMsg a login reads for its answer was deleted only if LastSend ran
\* after the login had got the pointer (LoginService.cpp:79-123, no lock is held).
FreedOnlyInBetween ==
  \A r \in Requests : req[r].gate \in freed => r \in bereft

\* The token of an answer is the one Redis keeps for the user, unless it expired,
\* another login that had found none stored its own, or Redis did not answer
\* (LoginService.cpp:98-118).
TokenIsStored ==
  \A r \in Requests \ excused :
    req[r].pc \in {"status", "answer"} => token[req[r].user] = req[r].token

\* A user whose login is about to be answered, or was, is online for Redis, unless
\* the flag could not be written, or another login that had found none wrote it over
\* (RedisService.cpp:65-77, EXISTS and SET are two commands).
OnlineUnlessUndone ==
  \A r \in Requests :
    req[r].pc \in {"answer", "answered"} /\ req[r].gate # NoGate /\ req[r].user \notin undone
      => online[req[r].user] = "online"
==============================================================================
