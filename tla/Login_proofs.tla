---------------------------- MODULE Login_proofs ----------------------------
(***************************************************************************)
(* Theorems about Login, for any requests, users and gates and any bounds: *)
(* its types and its four invariants.                                      *)
(***************************************************************************)
EXTENDS Login, TLAPS

\* The two maps of Session hold the same gates; what was deleted is in neither, and
\* no object is of a start that has not taken place.
SessionInv ==
  /\ \A g \in Gates : clientsPerServer[g] = None <=> gateServerMap[g] = 0
  /\ \A g \in Gates : gateServerMap[g] <= address[g] /\ <<g, gateServerMap[g]>> \notin freed
  /\ \A g \in Gates, n \in 1..MaxStarts : <<g, n>> \in freed => n <= address[g]

\* A request of Login2Gate was told of no gate.
Authenticating == {"idle", "auth", "getAuth", "passed", "refused"}
AuthHoldsNone == \A r \in Requests : req[r].pc \in Authenticating => req[r].gate = NoGate

IInv == /\ TypeOK /\ SessionInv /\ AuthHoldsNone /\ GateIsCurrent /\ FreedOnlyInBetween
        /\ TokenIsStored /\ OnlineUnlessUndone

LEMMA NoGateNoObject == NoGate \notin Objects /\ \A g \in Gates : <<g, 0>> \notin Objects
BY LoginAssumption DEF NoGate, Objects

LEMMA InitInv == Init => IInv
<1> SUFFICES ASSUME Init PROVE IInv
  OBVIOUS
<1>1. Idle \in Calls
  BY DEF Idle, Calls, PCs
<1>2. TypeOK
  BY <1>1, LoginAssumption DEF Init, TypeOK, None
<1>3. SessionInv /\ GateIsCurrent
  BY LoginAssumption DEF Init, SessionInv, GateIsCurrent, None
<1>4. AuthHoldsNone /\ FreedOnlyInBetween /\ TokenIsStored /\ OnlineUnlessUndone
  BY DEF Init, AuthHoldsNone, FreedOnlyInBetween, TokenIsStored, OnlineUnlessUndone, Idle
<1> QED BY <1>2, <1>3, <1>4 DEF IInv

\* The steps of the gates touch Session and the history of requests only.
LEMMA RequestsKept ==
  ASSUME IInv, UNCHANGED <<redisVars, req, excused, undone>>
  PROVE  AuthHoldsNone' /\ TokenIsStored' /\ OnlineUnlessUndone'
BY DEF IInv, AuthHoldsNone, TokenIsStored, OnlineUnlessUndone, redisVars

LEMMA FirstSendInv == ASSUME IInv, NEW g \in Gates, FirstSend(g) PROVE IInv'
<1> USE DEF IInv
<1>1. address[g] + 1 \in 1..MaxStarts /\ address' = [address EXCEPT ![g] = address[g] + 1]
  BY LoginAssumption DEF FirstSend, TypeOK
<1>2. TypeOK'
  BY <1>1, LoginAssumption DEF FirstSend, TypeOK, redisVars, None
<1>3. UNCHANGED <<freed, req, bereft>>
  BY DEF FirstSend
<1>4. gateServerMap[g] = 0 => <<g, address[g] + 1>> \notin freed
  BY <1>1 DEF SessionInv, TypeOK
<1>5. SessionInv'
  <2>1. \A h \in Gates : h # g => /\ clientsPerServer'[h] = clientsPerServer[h]
                                  /\ gateServerMap'[h] = gateServerMap[h] /\ address'[h] = address[h]
    BY DEF FirstSend, TypeOK
  <2>2. \/ /\ clientsPerServer'[g] = IF clientsPerServer[g] = None THEN 0 ELSE clientsPerServer[g]
           /\ gateServerMap'[g] = IF gateServerMap[g] = 0 THEN address[g] + 1 ELSE gateServerMap[g]
        \/ /\ clientsPerServer'[g] = clientsPerServer[g]
           /\ gateServerMap'[g] = gateServerMap[g]
    BY <1>1 DEF FirstSend, TypeOK
  <2>3. address'[g] = address[g] + 1 /\ address[g] \in Nat /\ gateServerMap[g] \in Nat
    BY <1>1 DEF TypeOK
  <2>4. clientsPerServer'[g] = None <=> gateServerMap'[g] = 0
    BY <2>2, <2>3 DEF SessionInv, None
  <2>5. gateServerMap'[g] <= address'[g] /\ <<g, gateServerMap'[g]>> \notin freed
    BY <1>4, <2>2, <2>3 DEF SessionInv
  <2>6. \A n \in 1..MaxStarts : <<g, n>> \in freed => n <= address'[g]
    BY <2>3 DEF SessionInv
  <2> QED BY <1>3, <2>1, <2>4, <2>5, <2>6 DEF SessionInv
<1>6. GateIsCurrent'
  BY <1>1 DEF FirstSend, GateIsCurrent, SessionInv, TypeOK, None
<1>7. FreedOnlyInBetween'
  BY <1>3 DEF FreedOnlyInBetween
<1> QED BY <1>2, <1>5, <1>6, <1>7, RequestsKept DEF FirstSend

LEMMA NotifyInv == ASSUME IInv, NEW g \in Gates, Notify(g) PROVE IInv'
<1> USE DEF IInv
<1>1. PICK counts \in {0, 1} : clientsPerServer' = [clientsPerServer EXCEPT ![g] = counts]
  BY DEF Notify
<1>2. UNCHANGED <<gateServerMap, freed, address, redisVars, req, restarted, bereft, excused, undone, now>>
  BY DEF Notify, history
<1>3. TypeOK'
  BY <1>1, <1>2 DEF TypeOK, redisVars
<1>4. SessionInv' /\ GateIsCurrent' /\ FreedOnlyInBetween'
  BY <1>1, <1>2 DEF Notify, TypeOK, SessionInv, GateIsCurrent, FreedOnlyInBetween, None
<1> QED BY <1>2, <1>3, <1>4, RequestsKept

LEMMA LastSendInv == ASSUME IInv, NEW g \in Gates, LastSend(g) PROVE IInv'
<1> USE DEF IInv
<1> DEFINE o == <<g, gateServerMap[g]>>
<1>1. o \in Objects /\ gateServerMap[g] \in 1..MaxStarts
  BY DEF LastSend, TypeOK, Objects
<1>2. TypeOK'
  BY <1>1, LoginAssumption DEF LastSend, TypeOK, redisVars, None
<1>3. \A h \in Gates : h # g => /\ clientsPerServer'[h] = clientsPerServer[h]
                                /\ gateServerMap'[h] = gateServerMap[h]
  BY DEF LastSend, TypeOK
<1>4. clientsPerServer'[g] = None /\ gateServerMap'[g] = 0 /\ UNCHANGED <<address, req>>
  BY DEF LastSend, TypeOK
<1>5. freed' = freed \cup {o}
  BY DEF LastSend
<1>6. SessionInv'
  <2>1. \A h \in Gates : <<h, gateServerMap'[h]>> \notin freed'
    <3> SUFFICES ASSUME NEW h \in Gates PROVE <<h, gateServerMap'[h]>> \notin freed'
      OBVIOUS
    <3>1. CASE h = g
      BY <3>1, <1>2, <1>4, NoGateNoObject DEF TypeOK
    <3>2. CASE h # g
      BY <3>2, <1>3, <1>5 DEF SessionInv
    <3> QED BY <3>1, <3>2
  <2>2. \A h \in Gates : gateServerMap'[h] <= address'[h]
    <3> SUFFICES ASSUME NEW h \in Gates PROVE gateServerMap'[h] <= address'[h]
      OBVIOUS
    <3>1. address'[h] = address[h] /\ address[h] \in Nat
      BY <1>4, LoginAssumption DEF TypeOK
    <3>2. CASE h = g
      BY <1>4, <3>1, <3>2
    <3>3. CASE h # g
      BY <1>3, <3>1, <3>3 DEF SessionInv
    <3> QED BY <3>2, <3>3
  <2>3. \A h \in Gates, n \in 1..MaxStarts : <<h, n>> \in freed' => n <= address[h]
    BY <1>5 DEF SessionInv
  <2> QED BY <1>3, <1>4, <2>1, <2>2, <2>3 DEF SessionInv
<1>7. GateIsCurrent'
  BY <1>3, <1>4 DEF LastSend, GateIsCurrent
<1>8. FreedOnlyInBetween'
  BY <1>4, <1>5 DEF LastSend, FreedOnlyInBetween, Holders
<1> QED BY <1>2, <1>6, <1>7, <1>8, RequestsKept DEF LastSend

----------------------------------------------------------------------------
\* A request that goes on to a call that keeps its fields.
LEMMA GotoCall ==
  ASSUME TypeOK, NEW r \in Requests, NEW pc \in PCs, Goto(r, pc)
  PROVE  /\ req' \in [Requests -> Calls]
         /\ req'[r] = [req[r] EXCEPT !.pc = pc]
         /\ \A s \in Requests : s # r => req'[s] = req[s]
<1>1. req' = [req EXCEPT ![r] = [req[r] EXCEPT !.pc = pc]]
  BY DEF Goto
<1>2. [req[r] EXCEPT !.pc = pc] \in Calls
  BY DEF TypeOK, Calls
<1> QED BY <1>1, <1>2 DEF TypeOK

\* A request that failed holds no gate.
LEMMA EndCall ==
  ASSUME TypeOK, NEW r \in Requests, End(r)
  PROVE  /\ req' \in [Requests -> Calls]
         /\ req'[r] = [req[r] EXCEPT !.pc = "failed", !.gate = NoGate]
         /\ \A s \in Requests : s # r => req'[s] = req[s]
<1>1. req' = [req EXCEPT ![r] = [req[r] EXCEPT !.pc = "failed", !.gate = NoGate]]
  BY DEF End
<1>2. req[r] \in Calls /\ "failed" \in PCs
  BY DEF TypeOK, PCs
<1>3. [req[r] EXCEPT !.pc = "failed", !.gate = NoGate] \in Calls
  BY <1>2 DEF Calls
<1> QED BY <1>1, <1>3 DEF TypeOK

\* A request that went on, or failed, is not idle, its user is the one it was, and it
\* holds the gate it held or none.
LEMMA Moved ==
  ASSUME IInv, NEW r \in Requests, req[r] # Idle, NEW pc \in PCs \ {"idle"},
         Goto(r, pc) \/ End(r)
  PROVE  /\ req' \in [Requests -> Calls] /\ DOMAIN req' = Requests
         /\ req'[r].user = req[r].user /\ req[r].user \in Users /\ req'[r].token = req[r].token
         /\ req'[r].pc \in {pc, "failed"} /\ req'[r].gate \in {req[r].gate, NoGate}
         /\ \A s \in Requests : s # r => req'[s] = req[s]
<1> USE DEF IInv
<1>1. req[r] \in Calls /\ req[r].user \in Users
  BY DEF TypeOK
<1>2. CASE Goto(r, pc)
  <2>1. /\ req' \in [Requests -> Calls] /\ req'[r] = [req[r] EXCEPT !.pc = pc]
        /\ \A s \in Requests : s # r => req'[s] = req[s]
    BY <1>2, GotoCall
  <2> QED BY <1>1, <2>1 DEF Calls
<1>3. CASE End(r)
  <2>1. /\ req' \in [Requests -> Calls] /\ req'[r] = [req[r] EXCEPT !.pc = "failed", !.gate = NoGate]
        /\ \A s \in Requests : s # r => req'[s] = req[s]
    BY <1>3, EndCall
  <2> QED BY <1>1, <2>1 DEF Calls
<1> QED BY <1>2, <1>3

\* What a step of request r leaves to be shown: its own part of the invariant.
Mine(r) == /\ req[r] \in Calls /\ (req[r] # Idle => req[r].user \in Users)
           /\ req[r].gate \in freed => r \in bereft
           /\ req[r].pc \in Authenticating => req[r].gate = NoGate
           /\ r \notin excused /\ req[r].pc \in {"status", "answer"} =>
                token[req[r].user] = req[r].token
           /\ req[r].pc \in {"answer", "answered"} /\ req[r].gate # NoGate
              /\ req[r].user \notin undone => online[req[r].user] = "online"

\* Steps that write no variable but the calls.
LEMMA OwnStep ==
  ASSUME IInv, NEW r \in Requests, Mine(r)', DOMAIN req' = Requests, req' \in [Requests -> Calls],
         \A s \in Requests : s # r => req'[s] = req[s],
         UNCHANGED <<now, sessionVars, redisVars, restarted, bereft, undone>>,
         excused' \in {excused, excused \cup {r}}
  PROVE  IInv'
<1> USE DEF IInv, sessionVars, redisVars
<1>1. TypeOK'
  BY DEF TypeOK, Mine
<1>2. SessionInv' /\ GateIsCurrent'
  BY DEF SessionInv, GateIsCurrent
<1>3. AuthHoldsNone' /\ FreedOnlyInBetween' /\ TokenIsStored' /\ OnlineUnlessUndone'
  BY DEF AuthHoldsNone, FreedOnlyInBetween, TokenIsStored, OnlineUnlessUndone, Mine
<1> QED BY <1>1, <1>2, <1>3

\* Steps that only move on, past no answer and to no use of a token.
Early == PCs \ {"idle", "status", "answer", "answered"}
LEMMA MoveInv ==
  ASSUME IInv, NEW r \in Requests, req[r] # Idle, NEW pc \in Early, Goto(r, pc) \/ End(r),
         pc \in Authenticating => req[r].gate = NoGate,
         UNCHANGED <<now, sessionVars, redisVars, restarted, bereft, excused, undone>>
  PROVE  IInv'
<1> USE DEF IInv
<1>1. /\ req' \in [Requests -> Calls] /\ DOMAIN req' = Requests
      /\ req'[r].user \in Users
      /\ req'[r].pc \in {pc, "failed"} /\ req'[r].gate \in {req[r].gate, NoGate}
      /\ \A s \in Requests : s # r => req'[s] = req[s]
  BY Moved DEF Early
<1>2. req'[r].gate \in freed => r \in bereft
  BY <1>1, NoGateNoObject DEF TypeOK, FreedOnlyInBetween
<1>3. Mine(r)'
  BY <1>1, <1>2 DEF Mine, Early, Authenticating, sessionVars
<1> QED BY <1>1, <1>3, OwnStep

LEMMA BeginInv == ASSUME IInv, NEW r \in Requests, Begin(r) PROVE IInv'
<1> USE DEF IInv
<1>1. PICK u \in Users : /\ req[r] = Idle
                         /\ req' = [req EXCEPT ![r] = [req[r] EXCEPT !.pc = "gate", !.user = u]]
  BY DEF Begin
<1>2. [req[r] EXCEPT !.pc = "gate", !.user = u] \in Calls
  <2>1. req[r] \in Calls /\ "gate" \in PCs
    BY DEF TypeOK, PCs
  <2> QED BY <2>1 DEF Calls
<1>3. UNCHANGED <<now, sessionVars, redisVars, restarted, bereft, excused, undone>>
  BY DEF Begin, Kept, history
<1>4. req' \in [Requests -> Calls] /\ DOMAIN req' = Requests
      /\ \A s \in Requests : s # r => req'[s] = req[s]
  BY <1>1, <1>2 DEF TypeOK
<1>5. req'[r].user = u /\ req'[r].pc = "gate" /\ req'[r].gate = NoGate
  BY <1>1 DEF TypeOK, Idle
<1>6. Mine(r)'
  BY <1>3, <1>4, <1>5, NoGateNoObject DEF Mine, Authenticating, TypeOK, sessionVars
<1> QED BY <1>3, <1>4, <1>6, OwnStep

LEMMA Login2GateInv == ASSUME IInv, NEW r \in Requests, Login2Gate(r) PROVE IInv'
<1> USE DEF IInv
<1>1. PICK u \in Users, t \in {token[v] : v \in Users} \cup {NoToken} :
        /\ req[r] = Idle
        /\ req' = [req EXCEPT ![r] = [req[r] EXCEPT !.pc = "auth", !.user = u, !.given = t]]
  BY DEF Login2Gate
<1>2. t \in Tokens \cup {NoToken}
  BY DEF TypeOK
<1>3. [req[r] EXCEPT !.pc = "auth", !.user = u, !.given = t] \in Calls
  <2>1. req[r] \in Calls /\ "auth" \in PCs
    BY DEF TypeOK, PCs
  <2> QED BY <1>2, <2>1 DEF Calls
<1>4. UNCHANGED <<now, sessionVars, redisVars, restarted, bereft, excused, undone>>
  BY DEF Login2Gate, Kept, history
<1>5. req' \in [Requests -> Calls] /\ DOMAIN req' = Requests
      /\ \A s \in Requests : s # r => req'[s] = req[s]
  BY <1>1, <1>3 DEF TypeOK
<1>6. req'[r].user = u /\ req'[r].pc = "auth" /\ req'[r].gate = NoGate
  BY <1>1 DEF TypeOK, Idle
<1>7. Mine(r)'
  BY <1>4, <1>5, <1>6, NoGateNoObject DEF Mine, Authenticating, TypeOK, sessionVars
<1> QED BY <1>4, <1>5, <1>7, OwnStep

LEMMA GetGateInv == ASSUME IInv, NEW r \in Requests, GetGate(r) PROVE IInv'
<1> USE DEF IInv
<1>1. UNCHANGED <<now, sessionVars, redisVars, restarted, bereft, excused, undone>>
  BY DEF GetGate, Kept, history
<1>2. req[r].pc = "gate" /\ req[r] # Idle /\ req[r] \in Calls /\ req[r].user \in Users
  <2>1. req[r].pc = "gate"
    BY DEF GetGate
  <2>2. req[r] # Idle
    BY <2>1 DEF Idle
  <2> QED BY <2>1, <2>2 DEF TypeOK
<1>3. CASE End(r)
  BY <1>1, <1>2, <1>3, MoveInv DEF Early, PCs, Authenticating
<1>4. ASSUME NEW g \in Gates, clientsPerServer[g] # None,
             req' = [req EXCEPT ![r] = [req[r] EXCEPT !.pc = "online", !.gate = <<g, gateServerMap[g]>>]]
      PROVE  IInv'
  <2>1. <<g, gateServerMap[g]>> \in Objects
    BY <1>4 DEF SessionInv, TypeOK, Objects
  <2>2. [req[r] EXCEPT !.pc = "online", !.gate = <<g, gateServerMap[g]>>] \in Calls
    BY <1>2, <2>1 DEF Calls, PCs
  <2>3. req' \in [Requests -> Calls] /\ DOMAIN req' = Requests
        /\ \A s \in Requests : s # r => req'[s] = req[s]
    BY <1>4, <2>2 DEF TypeOK
  <2>4. req'[r] = [req[r] EXCEPT !.pc = "online", !.gate = <<g, gateServerMap[g]>>]
    BY <1>4 DEF TypeOK
  <2>5. req'[r].pc = "online" /\ req'[r].user \in Users
        /\ req'[r].gate = <<g, gateServerMap[g]>> /\ req'[r].gate \notin freed
    BY <1>2, <2>4 DEF Calls, SessionInv
  <2>6. Mine(r)'
    BY <1>1, <2>3, <2>5 DEF Mine, Authenticating, sessionVars
  <2> QED BY <1>1, <2>3, <2>6, OwnStep
<1> QED BY <1>3, <1>4 DEF GetGate

LEMMA QueriesInv ==
  ASSUME IInv, NEW r \in Requests, QueryForOnline(r) \/ QueryForToken(r) \/ GetForAuth(r)
  PROVE  IInv'
<1>1. UNCHANGED <<now, sessionVars, redisVars, restarted, bereft, excused, undone>>
  BY DEF QueryForOnline, QueryForToken, GetForAuth, Kept, history
<1>2. req[r] # Idle
  BY DEF QueryForOnline, QueryForToken, GetForAuth, Idle
<1>3. \E pc \in Early : /\ Goto(r, pc) \/ End(r)
                        /\ pc \in Authenticating => req[r].gate = NoGate
  BY DEF IInv, QueryForOnline, QueryForToken, GetForAuth, Early, PCs, Authenticating, AuthHoldsNone
<1> QED BY <1>1, <1>2, <1>3, MoveInv

LEMMA SignInv == ASSUME IInv, NEW r \in Requests, Sign(r) PROVE IInv'
<1> USE DEF IInv
<1>1. UNCHANGED <<now, sessionVars, redisVars, restarted, bereft, excused, undone>>
  BY DEF Sign, Kept, history
<1>2. req[r].pc = "sign" /\ req[r] # Idle
  BY DEF Sign, Idle
<1>3. req[r] \in Calls /\ req[r].user \in Users
  BY <1>2 DEF TypeOK
<1>4. CASE End(r)
  BY <1>1, <1>2, <1>4, MoveInv DEF Early, PCs, Authenticating
<1>5. CASE req' = [req EXCEPT ![r] = [req[r] EXCEPT !.pc = "set", !.token = <<req[r].user, now>>]]
  <2>1. <<req[r].user, now>> \in Tokens /\ "set" \in PCs
    BY <1>3 DEF TypeOK, Tokens, PCs
  <2>2. [req[r] EXCEPT !.pc = "set", !.token = <<req[r].user, now>>] \in Calls
    BY <1>3, <2>1 DEF Calls
  <2>3. req' \in [Requests -> Calls] /\ DOMAIN req' = Requests
        /\ \A s \in Requests : s # r => req'[s] = req[s]
    BY <1>5, <2>2 DEF TypeOK
  <2>4. req'[r] = [req[r] EXCEPT !.pc = "set", !.token = <<req[r].user, now>>]
    BY <1>5 DEF TypeOK
  <2>5. req'[r].pc = "set" /\ req'[r].user \in Users /\ req'[r].gate = req[r].gate
    BY <1>3, <2>4 DEF Calls
  <2>6. Mine(r)'
    BY <1>1, <2>3, <2>5 DEF Mine, Authenticating, sessionVars, FreedOnlyInBetween
  <2> QED BY <1>1, <2>3, <2>6, OwnStep
<1> QED BY <1>4, <1>5 DEF Sign

LEMMA GetTokenInv == ASSUME IInv, NEW r \in Requests, GetToken(r) PROVE IInv'
<1> USE DEF IInv
<1> DEFINE t == token[req[r].user]
<1>1. UNCHANGED <<now, sessionVars, redisVars, restarted, bereft, undone>>
      /\ excused' \in {excused, excused \cup {r}}
  BY DEF GetToken, Kept
<1>2. req[r].pc = "get" /\ req[r] # Idle
  BY DEF GetToken, Idle
<1>3. req[r] \in Calls /\ req[r].user \in Users /\ t \in Tokens \cup {NoToken} /\ "status" \in PCs
  BY <1>2 DEF TypeOK, PCs
<1>4. \E e \in Tokens \cup {NoToken} :
        /\ req' = [req EXCEPT ![r] = [req[r] EXCEPT !.pc = "status", !.token = e]]
        /\ e = t \/ r \in excused'
  <2>1. [req[r] EXCEPT !.pc = "status"] = [req[r] EXCEPT !.pc = "status", !.token = req[r].token]
        /\ req[r].token \in Tokens \cup {NoToken}
    BY <1>3 DEF Calls
  <2>2. CASE req' = [req EXCEPT ![r] = [req[r] EXCEPT !.pc = "status", !.token = t]]
    BY <1>3, <2>2
  <2>3. CASE req' = [req EXCEPT ![r] = [req[r] EXCEPT !.pc = "status"]] /\ excused' = excused \cup {r}
    BY <2>1, <2>3
  <2> QED BY <2>2, <2>3 DEF GetToken
<1>5. PICK e \in Tokens \cup {NoToken} :
        /\ req' = [req EXCEPT ![r] = [req[r] EXCEPT !.pc = "status", !.token = e]]
        /\ e = t \/ r \in excused'
  BY <1>4
<1>6. [req[r] EXCEPT !.pc = "status", !.token = e] \in Calls
  BY <1>3 DEF Calls
<1>7. req' \in [Requests -> Calls] /\ DOMAIN req' = Requests
      /\ \A s \in Requests : s # r => req'[s] = req[s]
  BY <1>5, <1>6 DEF TypeOK
<1>8. req'[r] = [req[r] EXCEPT !.pc = "status", !.token = e]
  BY <1>5 DEF TypeOK
<1>9. req'[r].pc = "status" /\ req'[r].user = req[r].user /\ req'[r].gate = req[r].gate
      /\ req'[r].token = e
  BY <1>3, <1>8 DEF Calls
<1>10. Mine(r)'
  BY <1>1, <1>3, <1>5, <1>7, <1>9 DEF Mine, Authenticating, sessionVars, redisVars, FreedOnlyInBetween
<1> QED BY <1>1, <1>7, <1>10, OwnStep

LEMMA SetOnlineStatusInv == ASSUME IInv, NEW r \in Requests, SetOnlineStatus(r) PROVE IInv'
<1> USE DEF IInv
<1> DEFINE u == req[r].user
<1>1. /\ UNCHANGED <<now, sessionVars, token, restarted, bereft, excused>>
      /\ req[r].pc = "status" /\ Goto(r, "answer")
      /\ \/ online' = [online EXCEPT ![u] = "online"] /\ undone' = undone \ {u}
         \/ UNCHANGED online /\ undone' = undone \cup {u}
  BY DEF SetOnlineStatus, Kept
<1>2. req[r] # Idle
  BY <1>1 DEF Idle
<1>3. req[r] \in Calls /\ u \in Users /\ "answer" \in PCs
  BY <1>2 DEF TypeOK, PCs
<1>4. /\ req' \in [Requests -> Calls] /\ req'[r] = [req[r] EXCEPT !.pc = "answer"]
      /\ \A s \in Requests : s # r => req'[s] = req[s]
  BY <1>1, <1>3, GotoCall
<1>5. /\ req'[r].pc = "answer" /\ req'[r].user = u /\ req'[r].gate = req[r].gate
      /\ req'[r].token = req[r].token
  BY <1>3, <1>4 DEF Calls
<1>6. /\ online' \in [Users -> {"missing", "offline", "online"}]
      /\ \A v \in Users : v # u => online'[v] = online[v] /\ (v \in undone' <=> v \in undone)
      /\ u \in undone' \/ online'[u] = "online"
  BY <1>1, <1>3 DEF TypeOK
<1>7. TypeOK'
  BY <1>1, <1>3, <1>4, <1>5, <1>6 DEF TypeOK, sessionVars
<1>8. SessionInv' /\ GateIsCurrent' /\ FreedOnlyInBetween'
  BY <1>1, <1>4, <1>5 DEF SessionInv, GateIsCurrent, FreedOnlyInBetween, sessionVars
<1>9. TokenIsStored'
  <2> SUFFICES ASSUME NEW s \in Requests \ excused', req'[s].pc \in {"status", "answer"}
               PROVE  token'[req'[s].user] = req'[s].token
    BY DEF TokenIsStored
  <2>1. CASE s = r
    BY <1>1, <1>5, <2>1 DEF TokenIsStored
  <2>2. CASE s # r
    BY <1>1, <1>4, <2>2 DEF TokenIsStored
  <2> QED BY <2>1, <2>2
<1>10. OnlineUnlessUndone'
  <2> SUFFICES ASSUME NEW s \in Requests, req'[s].pc \in {"answer", "answered"},
                      req'[s].gate # NoGate, req'[s].user \notin undone'
               PROVE  online'[req'[s].user] = "online"
    BY DEF OnlineUnlessUndone
  <2>1. CASE req'[s].user = u
    BY <1>6, <2>1
  <2>2. CASE req'[s].user # u
    <3>1. s # r /\ req'[s] = req[s]
      BY <1>4, <1>5, <2>2
    <3>2. req[s].user \in Users
      BY <3>1 DEF TypeOK, Idle
    <3> QED BY <1>6, <2>2, <3>1, <3>2 DEF OnlineUnlessUndone
  <2> QED BY <2>1, <2>2
<1>11. AuthHoldsNone'
  BY <1>1, <1>4, <1>5 DEF AuthHoldsNone, Authenticating
<1> QED BY <1>7, <1>8, <1>9, <1>10, <1>11

LEMMA ResetInv == ASSUME IInv, NEW r \in Requests, Reset(r) PROVE IInv'
<1> USE DEF IInv
<1> DEFINE u == req[r].user
<1>1. /\ UNCHANGED <<now, sessionVars, token, restarted, bereft, excused>>
      /\ req[r].pc = "reset" /\ (Goto(r, "token") \/ End(r))
      /\ \/ /\ online' = [online EXCEPT ![u] = "offline"]
            /\ undone' = IF online[u] = "online" THEN undone \cup {u} ELSE undone
         \/ UNCHANGED <<online, undone>>
  BY DEF Reset, Kept
<1>2. req[r] # Idle
  BY <1>1 DEF Idle
<1>3. "token" \in PCs \ {"idle"}
  BY DEF PCs
<1>4. /\ req' \in [Requests -> Calls] /\ DOMAIN req' = Requests
      /\ req'[r].user = u /\ u \in Users
      /\ req'[r].pc \in {"token", "failed"} /\ req'[r].gate \in {req[r].gate, NoGate}
      /\ \A s \in Requests : s # r => req'[s] = req[s]
  BY <1>1, <1>2, <1>3, Moved
<1>5. /\ online' \in [Users -> {"missing", "offline", "online"}]
      /\ \A v \in Users : v # u => online'[v] = online[v] /\ (v \in undone' <=> v \in undone)
      /\ u \notin undone' => u \notin undone /\ (online[u] = "online" => online'[u] = "online")
  BY <1>1, <1>4 DEF TypeOK
<1>6. TypeOK'
  BY <1>1, <1>4, <1>5 DEF TypeOK, sessionVars
<1>7. SessionInv' /\ GateIsCurrent'
  BY <1>1 DEF SessionInv, GateIsCurrent, sessionVars
<1>8. FreedOnlyInBetween'
  BY <1>1, <1>4, NoGateNoObject DEF FreedOnlyInBetween, TypeOK, sessionVars
<1>9. TokenIsStored'
  BY <1>1, <1>4 DEF TokenIsStored
<1>10. OnlineUnlessUndone'
  <2> SUFFICES ASSUME NEW s \in Requests, req'[s].pc \in {"answer", "answered"},
                      req'[s].gate # NoGate, req'[s].user \notin undone'
               PROVE  online'[req'[s].user] = "online"
    BY DEF OnlineUnlessUndone
  <2>1. s # r /\ req'[s] = req[s]
    BY <1>4
  <2>2. req[s].user \in Users
    BY <2>1 DEF TypeOK, Idle
  <2> QED BY <1>5, <2>1, <2>2 DEF OnlineUnlessUndone
<1>11. AuthHoldsNone'
  BY <1>1, <1>4 DEF AuthHoldsNone, Authenticating
<1> QED BY <1>6, <1>7, <1>8, <1>9, <1>10, <1>11

\* Who is excused after a SETEX, done or not: everyone whose token is not there now.
LEMMA SetTokenInv == ASSUME IInv, NEW r \in Requests, SetToken(r) PROVE IInv'
<1> USE DEF IInv
<1> DEFINE u == req[r].user
           t == req[r].token
<1>1. /\ UNCHANGED <<now, sessionVars, online, restarted, bereft, undone>>
      /\ req[r].pc = "set" /\ (Goto(r, "status") \/ End(r))
      /\ \/ /\ token' = [token EXCEPT ![u] = t]
            /\ excused' = (excused \ {r}) \cup {s \in With(u) \ {r} : req[s].token # t}
         \/ /\ UNCHANGED token
            /\ excused' = IF token[u] = t THEN excused ELSE excused \cup {r}
  BY DEF SetToken, Kept
<1>2. req[r] # Idle
  BY <1>1 DEF Idle
<1>3. "status" \in PCs \ {"idle"}
  BY DEF PCs
<1>4. /\ req' \in [Requests -> Calls] /\ DOMAIN req' = Requests
      /\ req'[r].user = u /\ u \in Users /\ req'[r].token = t
      /\ req'[r].pc \in {"status", "failed"} /\ req'[r].gate \in {req[r].gate, NoGate}
      /\ \A s \in Requests : s # r => req'[s] = req[s]
  BY <1>1, <1>2, <1>3, Moved
<1>5. t \in Tokens \cup {NoToken}
  BY DEF TypeOK, Calls
<1>6. /\ token' \in [Users -> Tokens \cup {NoToken}]
      /\ r \in excused' \/ token'[u] = t
      /\ \A v \in Users : v # u => token'[v] = token[v]
      /\ \A s \in Requests : s # r /\ s \notin excused' => s \notin excused
      /\ \A s \in Requests : s # r /\ s \notin excused' /\ s \in With(u) =>
            token'[u] = token[u] \/ token'[u] = req[s].token
  BY <1>1, <1>4, <1>5 DEF TypeOK
<1>7. TypeOK'
  BY <1>1, <1>4, <1>6 DEF TypeOK, sessionVars
<1>8. SessionInv' /\ GateIsCurrent'
  BY <1>1 DEF SessionInv, GateIsCurrent, sessionVars
<1>9. FreedOnlyInBetween'
  BY <1>1, <1>4, NoGateNoObject DEF FreedOnlyInBetween, TypeOK, sessionVars
<1>10. TokenIsStored'
  <2> SUFFICES ASSUME NEW s \in Requests \ excused', req'[s].pc \in {"status", "answer"}
               PROVE  token'[req'[s].user] = req'[s].token
    BY DEF TokenIsStored
  <2>1. CASE s = r
    BY <1>4, <1>6, <2>1
  <2>2. CASE s # r
    <3>1. req'[s] = req[s] /\ s \notin excused /\ token[req[s].user] = req[s].token
      BY <1>4, <1>6, <2>2 DEF TokenIsStored
    <3>2. req[s].user \in Users
      BY <3>1 DEF TypeOK, Idle
    <3>3. CASE req[s].user = u
      BY <1>6, <2>2, <3>1, <3>3 DEF With
    <3>4. CASE req[s].user # u
      BY <1>6, <3>1, <3>2, <3>4
    <3> QED BY <3>3, <3>4
  <2> QED BY <2>1, <2>2
<1>11. OnlineUnlessUndone'
  BY <1>1, <1>4 DEF OnlineUnlessUndone
<1>12. AuthHoldsNone'
  BY <1>1, <1>4 DEF AuthHoldsNone, Authenticating
<1> QED BY <1>7, <1>8, <1>9, <1>10, <1>11, <1>12

LEMMA AnswerInv == ASSUME IInv, NEW r \in Requests, Answer(r) PROVE IInv'
<1> USE DEF IInv
<1>1. /\ UNCHANGED <<now, sessionVars, redisVars, restarted, bereft, excused, undone>>
      /\ req[r].pc = "answer" /\ Goto(r, "answered")
  BY DEF Answer, Kept, history
<1>2. req[r] # Idle
  BY <1>1 DEF Idle
<1>3. req[r] \in Calls /\ req[r].user \in Users /\ "answered" \in PCs
  BY <1>2 DEF TypeOK, PCs
<1>4. /\ req' \in [Requests -> Calls] /\ req'[r] = [req[r] EXCEPT !.pc = "answered"]
      /\ \A s \in Requests : s # r => req'[s] = req[s]
  BY <1>1, <1>3, GotoCall
<1>5. req'[r].pc = "answered" /\ req'[r].user = req[r].user /\ req'[r].gate = req[r].gate
  BY <1>3, <1>4 DEF Calls
<1>6. Mine(r)'
  BY <1>1, <1>3, <1>4, <1>5
  DEF Mine, Authenticating, sessionVars, redisVars, FreedOnlyInBetween, OnlineUnlessUndone
<1> QED BY <1>1, <1>4, <1>6, OwnStep

\* A request of Login2Gate holds no gate, and never did.
LEMMA AdmitInv == ASSUME IInv, NEW r \in Requests, Admit(r) PROVE IInv'
<1> USE DEF IInv
<1>1. /\ UNCHANGED <<now, sessionVars, redisVars, restarted, bereft, excused, undone>>
      /\ req[r].pc \in {"passed", "refused"} /\ Goto(r, "answered")
  BY DEF Admit, history
<1>2. req[r] # Idle
  BY <1>1 DEF Idle
<1>3. req[r] \in Calls /\ req[r].user \in Users /\ "answered" \in PCs
  BY <1>2 DEF TypeOK, PCs
<1>4. /\ req' \in [Requests -> Calls] /\ req'[r] = [req[r] EXCEPT !.pc = "answered"]
      /\ \A s \in Requests : s # r => req'[s] = req[s]
  BY <1>1, <1>3, GotoCall
<1>5. req'[r].pc = "answered" /\ req'[r].user = req[r].user /\ req'[r].gate = NoGate
  BY <1>1, <1>3, <1>4 DEF Calls, Authenticating, AuthHoldsNone
<1>6. Mine(r)'
  BY <1>1, <1>3, <1>4, <1>5, NoGateNoObject DEF Mine, Authenticating, sessionVars, redisVars, TypeOK
<1> QED BY <1>1, <1>4, <1>6, OwnStep

LEMMA ExpireInv == ASSUME IInv, NEW u \in Users, Expire(u) PROVE IInv'
<1> USE DEF IInv
<1>1. /\ UNCHANGED <<now, sessionVars, online, req, restarted, bereft, undone>>
      /\ token' = [token EXCEPT ![u] = NoToken]
      /\ excused' = excused \cup {r \in With(u) : req[r].pc # "set"}
  BY DEF Expire
<1>2. TypeOK' /\ SessionInv' /\ AuthHoldsNone' /\ GateIsCurrent' /\ FreedOnlyInBetween'
  BY <1>1 DEF TypeOK, SessionInv, AuthHoldsNone, GateIsCurrent, FreedOnlyInBetween, sessionVars
<1>3. TokenIsStored'
  <2> SUFFICES ASSUME NEW s \in Requests \ excused', req[s].pc \in {"status", "answer"}
               PROVE  token'[req[s].user] = req[s].token
    BY <1>1 DEF TokenIsStored
  <2>1. req[s].user # u
    BY <1>1 DEF With
  <2>2. req[s].user \in Users
    BY DEF TypeOK, Idle
  <2> QED BY <1>1, <2>1, <2>2 DEF TokenIsStored, TypeOK
<1>4. OnlineUnlessUndone'
  BY <1>1 DEF OnlineUnlessUndone
<1> QED BY <1>2, <1>3, <1>4

\* The clock, and stuttering.
LEMMA QuietInv == ASSUME IInv, Tick \/ UNCHANGED vars PROVE IInv'
<1> USE DEF IInv
<1>1. /\ UNCHANGED <<sessionVars, redisVars, req, restarted, bereft, excused, undone>>
      /\ now' = now \/ (now < MaxNow /\ now' = now + 1)
  BY DEF Tick, vars, history
<1>2. TypeOK'
  BY <1>1, LoginAssumption DEF TypeOK, sessionVars, redisVars
<1>3. SessionInv' /\ AuthHoldsNone' /\ GateIsCurrent' /\ FreedOnlyInBetween'
  BY <1>1 DEF SessionInv, AuthHoldsNone, GateIsCurrent, FreedOnlyInBetween, sessionVars
<1>4. TokenIsStored' /\ OnlineUnlessUndone'
  BY <1>1 DEF TokenIsStored, OnlineUnlessUndone, redisVars
<1> QED BY <1>2, <1>3, <1>4

----------------------------------------------------------------------------
\* The inductive invariant holds in every state.
THEOREM LoginInvariance == Spec => []IInv
<1>1. ASSUME IInv, [Next]_vars PROVE IInv'
  <2>1. ASSUME NEW g \in Gates, FirstSend(g) \/ Notify(g) \/ LastSend(g) PROVE IInv'
    BY <1>1, <2>1, FirstSendInv, NotifyInv, LastSendInv
  <2>2. ASSUME NEW r \in Requests, Request(r) PROVE IInv'
    BY <1>1, <2>2, BeginInv, GetGateInv, QueriesInv, ResetInv, GetTokenInv, SignInv, SetTokenInv,
       SetOnlineStatusInv, AnswerInv, Login2GateInv, AdmitInv DEF Request
  <2>3. ASSUME NEW u \in Users, Expire(u) PROVE IInv'
    BY <1>1, <2>3, ExpireInv
  <2>4. CASE Tick \/ UNCHANGED vars
    BY <1>1, <2>4, QuietInv
  <2> QED BY <1>1, <2>1, <2>2, <2>3, <2>4 DEF Next
<1> QED BY <1>1, InitInv, PTL DEF Spec

\* The types of Login: an object of a gate, a token of a user, where every call is.
THEOREM LoginTypeOK == Spec => []TypeOK
BY LoginInvariance, PTL DEF IInv

\* The two maps of Session agree, and hold an older address of a gate only if the gate
\* started again without LastSend (Session.cpp:28-35).
THEOREM LoginGateIsCurrent == Spec => []GateIsCurrent
BY LoginInvariance, PTL DEF IInv

\* A login holds a deleted GateServerMsg only when LastSend ran after the login had
\* got the pointer (LoginService.cpp:79-123).
THEOREM LoginFreedOnlyInBetween == Spec => []FreedOnlyInBetween
BY LoginInvariance, PTL DEF IInv

\* The token of an answer is the one Redis keeps, with the stated exceptions
\* (LoginService.cpp:98-118).
THEOREM LoginTokenIsStored == Spec => []TokenIsStored
BY LoginInvariance, PTL DEF IInv

\* A user whose login was answered is online for Redis, with the stated exceptions
\* (RedisService.cpp:65-77).
THEOREM LoginOnlineUnlessUndone == Spec => []OnlineUnlessUndone
BY LoginInvariance, PTL DEF IInv
==============================================================================
