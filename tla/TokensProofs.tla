---------------------------- MODULE TokensProofs ----------------------------
(***************************************************************************)
(* What holds of Tokens for every set of requests, devices and tokens,     *)
(* every token life and every granularity of the clock: of the lists, of   *)
(* the requests that get past verify_token, of what a revocation has       *)
(* revoked when it is over, and of how many refresh tokens a device has.   *)
(***************************************************************************)
EXTENDS Tokens, FiniteSetTheorems, TLAPS

\* Rounding to whole seconds loses less than a second.
LEMMA WholeSecondsBounds ==
    ASSUME NEW t \in Nat
    PROVE  /\ WholeSeconds(t) \in Nat
           /\ WholeSeconds(t) <= t
           /\ t < WholeSeconds(t) + Second
  BY SecondAssumption DEF WholeSeconds

\* Every token is issued for two seconds at least.
LEMMA LifeBounds ==
    ASSUME NEW type
    PROVE  Life(type) \in Nat /\ Life(type) >= 2 * Second
  BY SecondAssumption, LifeAssumption DEF Life

\* The exp claim of a new token is more than a second ahead.
LEMMA NewTokenType ==
    ASSUME now \in Nat, NEW type \in TokenTypes, NEW d \in Devices
    PROVE  /\ NewToken(type, d) \in Token
           /\ now + Second <= NewToken(type, d).exp
  <1>1. WholeSeconds(now) \in Nat /\ now < WholeSeconds(now) + Second
    BY WholeSecondsBounds
  <1>2. Life(type) \in Nat /\ Life(type) >= 2 * Second
    BY LifeBounds
  <1>3. QED
    BY <1>1, <1>2, SecondAssumption DEF NewToken, Token

-----------------------------------------------------------------------------
(* Type correctness *)

\* What the locals of a coroutine hold while it is suspended at an await
LocalsOK ==
    \A r \in Requests :
        /\ r \in InFlight => op[r] \in Op
        /\ pc[r] \in {"hdel", "hset", "hexpire"} => cur[r] \in Issued
        /\ pc[r] \in {"hset", "hexpire"} => dt[r] <= token[cur[r]].exp

TypeInv == TypeOK /\ LocalsOK

\* Creating a token leaves the tokens that exist alone.
LEMMA CreateIssues ==
    ASSUME TypeInv, NEW r \in Requests, NEW type \in TokenTypes, r \in InFlight,
           Create(r, type)
    PROVE  /\ token' \in [Jti -> Token \union {NoToken}]
           /\ cur' \in [Requests -> Issued' \union {NoJti}]
           /\ dt' \in [Requests -> Nat]
           /\ Issued \subseteq Issued'
           /\ \A j \in Issued : token'[j] = token[j]
           /\ cur'[r] \in Issued' /\ cur'[r] \notin Issued
           /\ dt'[r] = now
           /\ now + Second <= token'[cur'[r]].exp
           /\ \A q \in Requests \ {r} : cur'[q] = cur[q] /\ dt'[q] = dt[q]
           /\ pc' = [pc EXCEPT ![r] = "hset"]
  <1>1. op[r].dev \in Devices
    BY DEF TypeInv, LocalsOK, Op
  <1>2. PICK j \in FreshJti :
            /\ token' = [token EXCEPT ![j] = NewToken(type, op[r].dev)]
            /\ cur' = [cur EXCEPT ![r] = j]
    BY DEF Create
  <1>3. j \in Jti /\ j \notin Issued
    BY DEF FreshJti
  <1>4. NewToken(type, op[r].dev) \in Token
        /\ now + Second <= NewToken(type, op[r].dev).exp
    BY <1>1, NewTokenType DEF TypeInv, TypeOK
  <1>5. NewToken(type, op[r].dev) # NoToken
    BY <1>4 DEF Token, TokenTypes, NoToken
  <1>6. token' \in [Jti -> Token \union {NoToken}]
    BY <1>2, <1>3, <1>4 DEF TypeInv, TypeOK
  <1>7. Issued' = Issued \union {j} /\ \A i \in Issued : token'[i] = token[i]
    BY <1>2, <1>3, <1>5 DEF TypeInv, TypeOK, Issued
  <1>8. cur' \in [Requests -> Issued' \union {NoJti}] /\ cur'[r] = j
        /\ \A q \in Requests \ {r} : cur'[q] = cur[q]
    BY <1>2, <1>7 DEF TypeInv, TypeOK
  <1>9. dt' \in [Requests -> Nat] /\ dt'[r] = now
        /\ \A q \in Requests \ {r} : dt'[q] = dt[q]
    BY DEF Create, TypeInv, TypeOK
  <1>10. token'[j] = NewToken(type, op[r].dev)
    BY <1>2, <1>3 DEF TypeInv, TypeOK
  <1>11. pc' = [pc EXCEPT ![r] = "hset"]
    BY DEF Create, Goto
  <1>12. QED
    BY <1>3, <1>4, <1>6, <1>7, <1>8, <1>9, <1>10, <1>11

\* A request that ends leaves the others alone.
LEMMA EndLocals ==
    ASSUME TypeInv, NEW r \in Requests, End(r)
    PROVE  /\ pc' \in [Requests -> Labels] /\ pc'[r] = "done"
           /\ op' \in [Requests -> Op \union {NoOp}]
           /\ dt' \in [Requests -> Nat] /\ need' \in [Requests -> BOOLEAN]
           /\ todo' \in [Requests -> SUBSET Issued]
           /\ cur' \in [Requests -> Issued \union {NoJti}]
           /\ made' \in [Requests -> SUBSET Issued]
           /\ \A q \in Requests \ {r} :
                 pc'[q] = pc[q] /\ op'[q] = op[q] /\ cur'[q] = cur[q] /\ dt'[q] = dt[q]
  <1>1. pc' \in [Requests -> Labels] /\ pc'[r] = "done"
    BY DEF TypeInv, TypeOK, End, Goto, Labels
  <1>2. op' \in [Requests -> Op \union {NoOp}] /\ dt' \in [Requests -> Nat]
    BY DEF TypeInv, TypeOK, End
  <1>3. todo' \in [Requests -> SUBSET Issued] /\ need' \in [Requests -> BOOLEAN]
    BY DEF TypeInv, TypeOK, End
  <1>4. cur' \in [Requests -> Issued \union {NoJti}] /\ made' \in [Requests -> SUBSET Issued]
    BY DEF TypeInv, TypeOK, End
  <1>5. ASSUME NEW q \in Requests \ {r}
        PROVE  pc'[q] = pc[q] /\ op'[q] = op[q] /\ cur'[q] = cur[q] /\ dt'[q] = dt[q]
    BY DEF TypeInv, TypeOK, End, Goto
  <1>6. QED
    BY <1>1, <1>2, <1>3, <1>4, <1>5

\* The type invariant is inductive.
LEMMA TypeStep == TypeInv /\ [Next]_vars => TypeInv'
  <1> SUFFICES ASSUME TypeInv, [Next]_vars PROVE TypeInv'
    OBVIOUS
  <1>1. CASE UNCHANGED vars
    BY <1>1 DEF TypeInv, TypeOK, LocalsOK, vars, redisVars, Issued, InFlight
  <1>2. CASE Tick
    BY <1>2 DEF Tick, TypeInv, TypeOK, LocalsOK, redisVars, Issued, InFlight
  <1>3. ASSUME NEW r \in Requests, Arrive(r) PROVE TypeInv'
    <2>1. Issued' = Issued
      BY <1>3 DEF Arrive, Issued
    <2>2. op' \in [Requests -> Op \union {NoOp}] /\ op'[r] \in Op
          /\ \A q \in Requests \ {r} : op'[q] = op[q]
      <3>1. PICK kind \in Kinds \ {"sign_in"}, d \in Devices, j \in held :
                op' = [op EXCEPT ![r] = [kind |-> kind, dev |-> d, jti |-> j,
                                         revoked |-> blacklist[j] # 0, before |-> held]]
        BY <1>3 DEF Arrive
      <3>2. [kind |-> kind, dev |-> d, jti |-> j,
             revoked |-> blacklist[j] # 0, before |-> held] \in Op
        BY <3>1 DEF TypeInv, TypeOK, Op, Issued
      <3>3. QED
        BY <3>1, <3>2 DEF TypeInv, TypeOK
    <2>3. pc' \in [Requests -> Labels] /\ pc'[r] = "get_blacklist"
          /\ \A q \in Requests \ {r} : pc'[q] = pc[q]
      BY <1>3 DEF Arrive, Goto, TypeInv, TypeOK, Labels
    <2>4. TypeOK'
      BY <1>3, <2>1, <2>2, <2>3 DEF Arrive, redisVars, TypeInv, TypeOK
    <2>5. LocalsOK'
      BY <1>3, <2>1, <2>2, <2>3 DEF Arrive, redisVars, TypeInv, LocalsOK, InFlight
    <2>6. QED
      BY <2>4, <2>5 DEF TypeInv
  <1>4. ASSUME NEW r \in Requests, SignIn(r) PROVE TypeInv'
    <2>1. Issued' = Issued
      BY <1>4 DEF SignIn, Issued
    <2>2. op' \in [Requests -> Op \union {NoOp}] /\ op'[r] \in Op
          /\ \A q \in Requests \ {r} : op'[q] = op[q]
      <3>1. PICK d \in Devices :
                op' = [op EXCEPT ![r] = [kind |-> "sign_in", dev |-> d, jti |-> NoJti,
                                         revoked |-> FALSE, before |-> held]]
        BY <1>4 DEF SignIn
      <3>2. [kind |-> "sign_in", dev |-> d, jti |-> NoJti,
             revoked |-> FALSE, before |-> held] \in Op
        BY <1>4 DEF SignIn, TypeInv, TypeOK, Op, Issued
      <3>3. QED
        BY <3>1, <3>2 DEF TypeInv, TypeOK
    <2>3. pc' \in [Requests -> Labels] /\ pc'[r] = "hgetall"
          /\ \A q \in Requests \ {r} : pc'[q] = pc[q]
      BY <1>4 DEF SignIn, Goto, TypeInv, TypeOK, Labels
    <2>4. TypeOK'
      BY <1>4, <2>1, <2>2, <2>3 DEF SignIn, redisVars, TypeInv, TypeOK
    <2>5. \A q \in Requests \ {r} : dt'[q] = dt[q]
      BY <1>4 DEF SignIn, TypeInv, TypeOK
    <2>6. LocalsOK'
      BY <1>4, <2>1, <2>2, <2>3, <2>5 DEF SignIn, redisVars, TypeInv, LocalsOK, InFlight
    <2>7. QED
      BY <2>4, <2>6 DEF TypeInv
  <1>5. ASSUME NEW r \in Requests, End(r), UNCHANGED <<now, token, held, listed, fieldExp>>,
               UNCHANGED blacklist
        PROVE TypeInv'
    <2>1. Issued' = Issued
      BY <1>5 DEF Issued
    <2>2. TypeOK'
      BY <1>5, <2>1, EndLocals DEF TypeInv, TypeOK
    <2>3. LocalsOK'
      BY <1>5, <2>1, EndLocals DEF TypeInv, LocalsOK, InFlight
    <2>4. QED
      BY <2>2, <2>3 DEF TypeInv
  <1>6. ASSUME NEW r \in Requests, CheckBlacklist(r) PROVE TypeInv'
    <2>1. CASE Blacklisted(op[r].jti)
      BY <1>5, <1>6, <2>1 DEF CheckBlacklist, redisVars
    <2>2. CASE ~Blacklisted(op[r].jti)
      BY <1>6, <2>2 DEF CheckBlacklist, Goto, redisVars, TypeInv, TypeOK, LocalsOK,
                        Issued, InFlight, Labels
    <2>3. QED
      BY <2>1, <2>2
  <1>7. ASSUME NEW r \in Requests, CheckActive(r) PROVE TypeInv'
    <2>1. CASE op[r].jti \notin ActiveList(op[r].dev)
      BY <1>5, <1>7, <2>1 DEF CheckActive, redisVars
    <2>2. CASE op[r].jti \in ActiveList(op[r].dev)
      <3>1. PICK label \in {"hgetall", "refresh", "respond"} :
                pc' = [pc EXCEPT ![r] = label]
        BY <1>7, <2>2 DEF CheckActive, Goto
      <3>2. dt' \in [Requests -> Nat] /\ \A q \in Requests \ {r} : dt'[q] = dt[q]
        BY <1>7, <2>2 DEF CheckActive, TypeInv, TypeOK
      <3>3. TypeOK'
        BY <1>7, <2>2, <3>1, <3>2 DEF CheckActive, redisVars, TypeInv, TypeOK, Issued, Labels
      <3>4. LocalsOK'
        BY <1>7, <2>2, <3>1, <3>2 DEF CheckActive, redisVars, TypeInv, TypeOK, LocalsOK,
                                      Issued, InFlight
      <3>5. QED
        BY <3>3, <3>4 DEF TypeInv
    <2>3. QED
      BY <2>1, <2>2
  <1>8. ASSUME NEW r \in Requests, TokenRefresh(r) PROVE TypeInv'
    <2>1. Issued' = Issued
      BY <1>8 DEF TokenRefresh, Issued
    <2>2. IsRefreshTokenRequired(op[r].jti) \in BOOLEAN
      BY DEF IsRefreshTokenRequired
    <2>3. TypeOK'
      BY <1>8, <2>1, <2>2 DEF TokenRefresh, Goto, redisVars, TypeInv, TypeOK, Labels
    <2>4. LocalsOK'
      BY <1>8, <2>1 DEF TokenRefresh, Goto, redisVars, TypeInv, TypeOK, LocalsOK, InFlight
    <2>5. QED
      BY <2>3, <2>4 DEF TypeInv
  <1>9. ASSUME NEW r \in Requests, HGetAll(r) PROVE TypeInv'
    <2>1. Issued' = Issued
      BY <1>9 DEF HGetAll, Issued
    <2>2. ActiveList(op[r].dev) \subseteq Issued
      BY DEF ActiveList
    <2>3. TypeOK'
      BY <1>9, <2>1, <2>2 DEF HGetAll, Goto, redisVars, TypeInv, TypeOK, Labels
    <2>4. LocalsOK'
      BY <1>9, <2>1 DEF HGetAll, Goto, redisVars, TypeInv, TypeOK, LocalsOK, InFlight
    <2>5. QED
      BY <2>3, <2>4 DEF TypeInv
  <1>10. ASSUME NEW r \in Requests, SetEx(r) PROVE TypeInv'
    <2>1. PICK j \in todo[r] :
              IF dt[r] < token[j].exp /\ BlacklistTtl(r, j) > 0
              THEN /\ blacklist' = [blacklist EXCEPT ![j] = now + BlacklistTtl(r, j)]
                   /\ cur' = [cur EXCEPT ![r] = j]
                   /\ Goto(r, "hdel")
                   /\ UNCHANGED <<op, dt, need, todo, made>>
              ELSE End(r) /\ UNCHANGED blacklist
      BY <1>10 DEF SetEx
    <2>2. CASE ~(dt[r] < token[j].exp /\ BlacklistTtl(r, j) > 0)
      BY <1>5, <1>10, <2>1, <2>2 DEF SetEx
    <2>3. CASE dt[r] < token[j].exp /\ BlacklistTtl(r, j) > 0
      <3>1. Issued' = Issued
        BY <1>10 DEF SetEx, Issued
      <3>2. j \in Issued /\ token[j] \in Token /\ dt[r] \in Nat
        BY DEF TypeInv, TypeOK, Issued
      <3>3. BlacklistTtl(r, j) \in Nat
        BY <2>3, <3>2, WholeSecondsBounds DEF BlacklistTtl, Token
      <3>4. TypeOK'
        BY <1>10, <2>1, <2>3, <3>1, <3>2, <3>3
        DEF SetEx, Goto, TypeInv, TypeOK, Issued, Labels
      <3>5. LocalsOK'
        BY <1>10, <2>1, <2>3, <3>1, <3>2
        DEF SetEx, Goto, TypeInv, TypeOK, LocalsOK, InFlight
      <3>6. QED
        BY <3>4, <3>5 DEF TypeInv
    <2>4. QED
      BY <2>2, <2>3
  <1>11. ASSUME NEW r \in Requests, HDel(r) PROVE TypeInv'
    <2>1. Issued' = Issued
      BY <1>11 DEF HDel, Issued
    <2>2. TypeOK'
      BY <1>11, <2>1 DEF HDel, Goto, TypeInv, TypeOK, Labels
    <2>3. LocalsOK'
      BY <1>11, <2>1 DEF HDel, Goto, TypeInv, TypeOK, LocalsOK, InFlight
    <2>4. QED
      BY <2>2, <2>3 DEF TypeInv
  <1>12. ASSUME NEW r \in Requests, Revoked(r) PROVE TypeInv'
    <2>1. CASE Create(r, "access")
      <3>1. r \in InFlight /\ "access" \in TokenTypes
        BY <1>12 DEF Revoked, InFlight, TokenTypes
      <3>2. /\ token' \in [Jti -> Token \union {NoToken}]
            /\ cur' \in [Requests -> Issued' \union {NoJti}]
            /\ dt' \in [Requests -> Nat]
            /\ Issued \subseteq Issued'
            /\ \A j \in Issued : token'[j] = token[j]
            /\ cur'[r] \in Issued' /\ dt'[r] = now
            /\ now + Second <= token'[cur'[r]].exp
            /\ \A q \in Requests \ {r} : cur'[q] = cur[q] /\ dt'[q] = dt[q]
            /\ pc' = [pc EXCEPT ![r] = "hset"]
        BY <2>1, <3>1, CreateIssues
      <3>3. now \in Nat /\ token'[cur'[r]].exp \in Nat
        <4>1. token'[cur'[r]] \in Token
          BY <3>2 DEF Issued
        <4>2. QED
          BY <4>1 DEF Token, TypeInv, TypeOK
      <3>4. TypeOK'
        BY <1>12, <3>2 DEF Revoked, redisVars, TypeInv, TypeOK, Labels
      <3>5. LocalsOK'
        BY <1>12, <3>1, <3>2, <3>3, SecondAssumption
        DEF Revoked, redisVars, TypeInv, TypeOK, LocalsOK, InFlight
      <3>6. QED
        BY <3>4, <3>5 DEF TypeInv
    <2>2. CASE Goto(r, "respond") /\ UNCHANGED <<token, cur, dt>>
      BY <1>12, <2>2 DEF Revoked, Goto, redisVars, TypeInv, TypeOK, LocalsOK, Issued,
                         InFlight, Labels
    <2>3. QED
      BY <1>12, <2>1, <2>2 DEF Revoked
  <1>13. ASSUME NEW r \in Requests, HSet(r) PROVE TypeInv'
    <2>1. Issued' = Issued
      BY <1>13 DEF HSet, Issued
    <2>2. TypeOK'
      BY <1>13, <2>1 DEF HSet, Goto, TypeInv, TypeOK, LocalsOK, Labels
    <2>3. LocalsOK'
      BY <1>13, <2>1 DEF HSet, Goto, TypeInv, TypeOK, LocalsOK, InFlight
    <2>4. QED
      BY <2>2, <2>3 DEF TypeInv
  <1>14. ASSUME NEW r \in Requests, HExpire(r) PROVE TypeInv'
    <2>1. cur[r] \in Issued /\ token[cur[r]] \in Token /\ dt[r] <= token[cur[r]].exp
      BY <1>14 DEF HExpire, TypeInv, TypeOK, LocalsOK, Issued
    <2>2. WholeSeconds(token[cur[r]].exp - dt[r]) \in Nat
      BY <2>1, WholeSecondsBounds DEF TypeInv, TypeOK, Token
    <2>3. fieldExp' \in [Jti -> Nat]
      <3>1. now + WholeSeconds(token[cur[r]].exp - dt[r]) \in Nat
        BY <2>2 DEF TypeInv, TypeOK
      <3>2. CASE cur[r] \in listed
        BY <1>14, <3>1, <3>2 DEF HExpire, TypeInv, TypeOK
      <3>3. CASE cur[r] \notin listed
        BY <1>14, <3>3 DEF HExpire, TypeInv, TypeOK
      <3>4. QED
        BY <3>2, <3>3
    <2>4. made' \in [Requests -> SUBSET Issued]
      BY <1>14, <2>1 DEF HExpire, TypeInv, TypeOK
    <2>5. CASE Create(r, "refresh")
      <3>1. r \in InFlight /\ "refresh" \in TokenTypes
        BY <1>14 DEF HExpire, InFlight, TokenTypes
      <3>2. /\ token' \in [Jti -> Token \union {NoToken}]
            /\ cur' \in [Requests -> Issued' \union {NoJti}]
            /\ dt' \in [Requests -> Nat]
            /\ Issued \subseteq Issued'
            /\ \A j \in Issued : token'[j] = token[j]
            /\ cur'[r] \in Issued' /\ dt'[r] = now
            /\ now + Second <= token'[cur'[r]].exp
            /\ \A q \in Requests \ {r} : cur'[q] = cur[q] /\ dt'[q] = dt[q]
            /\ pc' = [pc EXCEPT ![r] = "hset"]
        BY <2>5, <3>1, CreateIssues
      <3>3. now \in Nat /\ token'[cur'[r]].exp \in Nat
        <4>1. token'[cur'[r]] \in Token
          BY <3>2 DEF Issued
        <4>2. QED
          BY <4>1 DEF Token, TypeInv, TypeOK
      <3>4. TypeOK'
        BY <1>14, <2>3, <2>4, <3>2 DEF HExpire, TypeInv, TypeOK, Labels
      <3>5. LocalsOK'
        BY <1>14, <3>1, <3>2, <3>3, SecondAssumption
        DEF HExpire, TypeInv, TypeOK, LocalsOK, InFlight
      <3>6. QED
        BY <3>4, <3>5 DEF TypeInv
    <2>6. CASE /\ Goto(r, "respond")
               /\ cur' = [cur EXCEPT ![r] = NoJti]
               /\ UNCHANGED <<token, dt>>
      <3>1. Issued' = Issued
        BY <2>6 DEF Issued
      <3>2. TypeOK'
        BY <1>14, <2>3, <2>4, <2>6, <3>1 DEF HExpire, Goto, TypeInv, TypeOK, Labels
      <3>3. LocalsOK'
        BY <1>14, <2>6, <3>1 DEF HExpire, Goto, TypeInv, TypeOK, LocalsOK, InFlight
      <3>4. QED
        BY <3>2, <3>3 DEF TypeInv
    <2>7. QED
      BY <1>14, <2>5, <2>6 DEF HExpire
  <1>15. ASSUME NEW r \in Requests, Respond(r) PROVE TypeInv'
    <2>1. Issued' = Issued
      BY <1>15 DEF Respond, Issued
    <2>2. held' \subseteq Issued
      BY <1>15 DEF Respond, TypeInv, TypeOK
    <2>3. TypeOK'
      BY <1>15, <2>1, <2>2, EndLocals DEF Respond, redisVars, TypeInv, TypeOK
    <2>4. LocalsOK'
      BY <1>15, <2>1, EndLocals DEF Respond, redisVars, TypeInv, LocalsOK, InFlight
    <2>5. QED
      BY <2>3, <2>4 DEF TypeInv
  <1>16. ASSUME NEW r \in Requests, Refuse(r) \/ Abort(r) PROVE TypeInv'
    BY <1>5, <1>16 DEF Refuse, Abort, redisVars
  <1>17. QED
    BY <1>1, <1>2, <1>3, <1>4, <1>6, <1>7, <1>8, <1>9, <1>10, <1>11, <1>12, <1>13,
       <1>14, <1>15, <1>16 DEF Next, Handle

\* Every reachable state is well typed.
THEOREM TypeCorrect == Spec => []TypeOK
  <1>1. Init => TypeInv
    BY DEF Init, TypeInv, TypeOK, LocalsOK, Issued, InFlight, Labels
  <1>2. TypeInv => TypeOK
    BY DEF TypeInv
  <1>3. QED
    BY <1>1, <1>2, TypeStep, PTL DEF Spec

-----------------------------------------------------------------------------
(* The token lists *)

\* The clock readings that coroutines hold are not from the future.
ClockOK == \A r \in Requests : dt[r] <= now

\* A blacklist key outlives its token but for less than a second.
BlacklistOK ==
    \A j \in Issued : blacklist[j] # 0 => token[j].exp < blacklist[j] + Second

\* A token that is not used yet has left no trace in Redis.
FreshOK ==
    \A j \in Jti \ UsedTokens : fieldExp[j] = 0 /\ blacklist[j] = 0 /\ j \notin listed

\* Each request adds a token of its own, which has no TTL before HEXPIRE.
PendingOK ==
    \A r \in Requests :
        /\ pc[r] = "hexpire" => fieldExp[cur[r]] = 0
        /\ pc[r] \in {"hset", "hexpire"} =>
              \A q \in Requests \ {r} : pc[q] \in {"hset", "hexpire"} => cur[q] # cur[r]

\* A revocation only meets tokens that HGETALL has seen.
TodoOK ==
    \A r \in Requests :
        todo[r] \subseteq UsedTokens /\ (pc[r] = "hdel" => cur[r] \in todo[r])

ListsOK == ClockOK /\ BlacklistOK /\ FreshOK /\ PendingOK /\ TodoOK

\* The requests whose HSET is still to come
Pending(j) == \E q \in Requests : pc[q] = "hset" /\ cur[q] = j

\* What it means to be used.
LEMMA UsedTokensDef ==
    ASSUME NEW j
    PROVE  j \in UsedTokens <=> j \in Issued /\ ~Pending(j)
  BY DEF UsedTokens, Pending

\* A step of a request that neither creates a token nor ends an HSET leaves
\* the set of used tokens alone.
LEMMA UsedSame ==
    ASSUME NEW r \in Requests, UNCHANGED token,
           pc[r] # "hset", pc'[r] # "hset",
           \A q \in Requests \ {r} : pc'[q] = pc[q] /\ cur'[q] = cur[q]
    PROVE  UsedTokens' = UsedTokens
  BY DEF UsedTokens, Issued

\* Neither does the creation of a token, which is not used before its HSET.
LEMMA UsedCreate ==
    ASSUME TypeInv, NEW r \in Requests, NEW type \in TokenTypes, r \in InFlight,
           pc[r] # "hset", Create(r, type)
    PROVE  UsedTokens' = UsedTokens
  <1>1. PICK j \in FreshJti :
            /\ token' = [token EXCEPT ![j] = NewToken(type, op[r].dev)]
            /\ cur' = [cur EXCEPT ![r] = j]
    BY DEF Create
  <1>2. j \in Jti /\ j \notin Issued
    BY DEF FreshJti
  <1>3. NewToken(type, op[r].dev) # NoToken
    BY DEF NewToken, NoToken, TokenTypes
  <1>4. Issued' = Issued \union {j}
    BY <1>1, <1>2, <1>3 DEF Issued, TypeInv, TypeOK
  <1>5. pc'[r] = "hset" /\ cur'[r] = j
        /\ \A q \in Requests \ {r} : pc'[q] = pc[q] /\ cur'[q] = cur[q]
    BY <1>1 DEF Create, Goto, TypeInv, TypeOK
  <1>6. \A q \in Requests : pc[q] = "hset" => cur[q] \in Issued
    BY DEF TypeInv, LocalsOK
  <1>7. QED
    BY <1>2, <1>4, <1>5, <1>6 DEF UsedTokens

\* The end of a request that was waiting for HSET burns its token.
LEMMA UsedEnd ==
    ASSUME TypeInv, PendingOK, NEW r \in Requests, UNCHANGED token, End(r)
    PROVE  UsedTokens' = IF pc[r] = "hset" THEN UsedTokens \union {cur[r]} ELSE UsedTokens
  <1>1. pc'[r] = "done" /\ \A q \in Requests \ {r} : pc'[q] = pc[q] /\ cur'[q] = cur[q]
    BY EndLocals
  <1>2. CASE pc[r] # "hset"
    BY <1>1, <1>2, UsedSame
  <1>3. CASE pc[r] = "hset"
    BY <1>1, <1>3 DEF UsedTokens, Issued, PendingOK, TypeInv, LocalsOK
  <1>4. QED
    BY <1>2, <1>3

\* A request that ends takes its locals along.
LEMMA EndLists ==
    ASSUME TypeInv, ListsOK, NEW r \in Requests, End(r),
           UNCHANGED <<now, token, listed, fieldExp, blacklist>>
    PROVE  ListsOK'
  <1>1. /\ dt'[r] = 0 /\ todo'[r] = {} /\ pc'[r] = "done"
        /\ \A q \in Requests \ {r} : /\ dt'[q] = dt[q] /\ todo'[q] = todo[q]
                                     /\ pc'[q] = pc[q] /\ cur'[q] = cur[q]
    BY DEF End, Goto, TypeInv, TypeOK
  <1>2. UsedTokens \subseteq UsedTokens'
    BY UsedEnd DEF ListsOK
  <1>3. ClockOK'
    BY <1>1 DEF ListsOK, ClockOK, TypeInv, TypeOK
  <1>4. BlacklistOK'
    BY DEF ListsOK, BlacklistOK, Issued
  <1>5. FreshOK'
    BY <1>2 DEF ListsOK, FreshOK
  <1>6. PendingOK'
    BY <1>1 DEF ListsOK, PendingOK
  <1>7. TodoOK'
    BY <1>1, <1>2 DEF ListsOK, TodoOK
  <1>8. QED
    BY <1>3, <1>4, <1>5, <1>6, <1>7 DEF ListsOK

\* A step that moves a request on, with no effect on the tokens and on Redis
LEMMA QuietLists ==
    ASSUME TypeInv, ListsOK, NEW r \in Requests,
           UNCHANGED <<now, token, listed, fieldExp, blacklist, cur>>,
           pc[r] \notin {"hset", "hexpire"},
           pc'[r] \notin {"hset", "hexpire", "hdel"},
           dt'[r] <= now,
           todo'[r] \subseteq UsedTokens,
           \A q \in Requests \ {r} :
                dt'[q] = dt[q] /\ todo'[q] = todo[q] /\ pc'[q] = pc[q]
    PROVE  ListsOK' /\ UsedTokens' = UsedTokens
  <1>1. UsedTokens' = UsedTokens
    BY UsedSame
  <1>2. ClockOK'
    BY DEF ListsOK, ClockOK
  <1>3. BlacklistOK' /\ FreshOK'
    BY <1>1 DEF ListsOK, BlacklistOK, FreshOK, Issued
  <1>4. PendingOK'
    BY DEF ListsOK, PendingOK
  <1>5. TodoOK'
    BY <1>1 DEF ListsOK, TodoOK
  <1>6. QED
    BY <1>1, <1>2, <1>3, <1>4, <1>5 DEF ListsOK

\* Only the fields that HGETALL can show are in the active list.
LEMMA ActiveIsUsed ==
    ASSUME ListsOK, NEW d, NEW j \in ActiveList(d)
    PROVE  j \in UsedTokens
  BY DEF ListsOK, FreshOK, ActiveList, FieldLive, Issued

\* The two ends of generate_jtw_tokens' steps that create a token
LEMMA CreateLists ==
    ASSUME TypeInv, ListsOK, NEW r \in Requests, NEW type \in TokenTypes,
           pc[r] \in {"revoke", "hexpire"}, Create(r, type),
           UNCHANGED <<now, listed, blacklist, todo>>,
           \A j \in Jti \ UsedTokens : fieldExp'[j] = fieldExp[j],
           \A q \in Requests \ {r} : pc[q] = "hexpire" => fieldExp'[cur[q]] = fieldExp[cur[q]]
    PROVE  ListsOK'
  <1>1. r \in InFlight /\ pc[r] # "hset"
    BY DEF InFlight
  <1>2. UsedTokens' = UsedTokens
    BY <1>1, UsedCreate
  <1>3. /\ Issued \subseteq Issued'
        /\ \A j \in Issued : token'[j] = token[j]
        /\ cur'[r] \in Issued' /\ cur'[r] \notin Issued
        /\ dt'[r] = now
        /\ \A q \in Requests \ {r} : cur'[q] = cur[q] /\ dt'[q] = dt[q]
        /\ pc' = [pc EXCEPT ![r] = "hset"]
    BY <1>1, CreateIssues
  <1>4. pc'[r] = "hset" /\ \A q \in Requests \ {r} : pc'[q] = pc[q]
    BY <1>3 DEF TypeInv, TypeOK
  <1>5. ClockOK'
    BY <1>3 DEF ListsOK, ClockOK, TypeInv, TypeOK
  <1>6. BlacklistOK'
    <2>1. ASSUME NEW j \in Issued', blacklist'[j] # 0
          PROVE  token'[j].exp < blacklist'[j] + Second
      <3>1. j \in UsedTokens
        BY <2>1 DEF ListsOK, FreshOK, Issued
      <3>2. j \in Issued
        BY <3>1 DEF UsedTokens
      <3>3. QED
        BY <2>1, <3>2, <1>3 DEF ListsOK, BlacklistOK
    <2>2. QED
      BY <2>1 DEF BlacklistOK
  <1>7. FreshOK'
    BY <1>2 DEF ListsOK, FreshOK
  <1>8. PendingOK'
    <2>1. \A q \in Requests \ {r} : pc[q] \in {"hset", "hexpire"} => cur[q] \in Issued
      BY DEF TypeInv, LocalsOK
    <2>2. QED
      BY <1>3, <1>4, <2>1 DEF ListsOK, PendingOK
  <1>9. TodoOK'
    BY <1>2, <1>3, <1>4 DEF ListsOK, TodoOK
  <1>10. QED
    BY <1>5, <1>6, <1>7, <1>8, <1>9 DEF ListsOK

\* The state of the token lists is an inductive invariant.
LEMMA ListsStep == TypeInv /\ ListsOK /\ [Next]_vars => ListsOK'
  <1> SUFFICES ASSUME TypeInv, ListsOK, [Next]_vars PROVE ListsOK'
    OBVIOUS
  <1>1. CASE UNCHANGED vars
    BY <1>1 DEF ListsOK, ClockOK, BlacklistOK, FreshOK, PendingOK, TodoOK, vars, redisVars,
                Issued, UsedTokens
  <1>2. CASE Tick
    <2>1. UsedTokens' = UsedTokens
      BY <1>2 DEF Tick, UsedTokens, Issued
    <2>2. ClockOK'
      BY <1>2 DEF Tick, ListsOK, ClockOK, TypeInv, TypeOK
    <2>3. BlacklistOK' /\ FreshOK' /\ PendingOK' /\ TodoOK'
      BY <1>2, <2>1 DEF Tick, redisVars, ListsOK, BlacklistOK, FreshOK, PendingOK, TodoOK, Issued
    <2>4. QED
      BY <2>2, <2>3 DEF ListsOK
  <1>3. ASSUME NEW r \in Requests, Arrive(r) PROVE ListsOK'
    BY <1>3, QuietLists DEF Arrive, Begins, Goto, redisVars, TypeInv, TypeOK, ListsOK,
                            ClockOK, TodoOK
  <1>4. ASSUME NEW r \in Requests, SignIn(r) PROVE ListsOK'
    BY <1>4, QuietLists DEF SignIn, Begins, Goto, redisVars, TypeInv, TypeOK, ListsOK, TodoOK
  <1>5. ASSUME NEW r \in Requests, CheckBlacklist(r) PROVE ListsOK'
    <2>1. CASE Blacklisted(op[r].jti)
      BY <1>5, <2>1, EndLists DEF CheckBlacklist, redisVars
    <2>2. CASE ~Blacklisted(op[r].jti)
      BY <1>5, <2>2, QuietLists DEF CheckBlacklist, Goto, redisVars, TypeInv, TypeOK,
                                    ListsOK, ClockOK, TodoOK
    <2>3. QED
      BY <2>1, <2>2
  <1>6. ASSUME NEW r \in Requests, CheckActive(r) PROVE ListsOK'
    <2>1. CASE op[r].jti \notin ActiveList(op[r].dev)
      BY <1>6, <2>1, EndLists DEF CheckActive, redisVars
    <2>2. CASE op[r].jti \in ActiveList(op[r].dev)
      <3>1. PICK label \in {"hgetall", "refresh", "respond"} :
                pc' = [pc EXCEPT ![r] = label]
        BY <1>6, <2>2 DEF CheckActive, Goto
      <3>2. dt'[r] <= now /\ \A q \in Requests \ {r} : dt'[q] = dt[q]
        BY <1>6, <2>2 DEF CheckActive, TypeInv, TypeOK, ListsOK, ClockOK
      <3>3. QED
        BY <1>6, <2>2, <3>1, <3>2, QuietLists
        DEF CheckActive, redisVars, TypeInv, TypeOK, ListsOK, TodoOK
    <2>3. QED
      BY <2>1, <2>2
  <1>7. ASSUME NEW r \in Requests, TokenRefresh(r) PROVE ListsOK'
    BY <1>7, QuietLists DEF TokenRefresh, Goto, redisVars, TypeInv, TypeOK, ListsOK, TodoOK
  <1>8. ASSUME NEW r \in Requests, HGetAll(r) PROVE ListsOK'
    <2>1. todo'[r] \subseteq UsedTokens
      BY <1>8, ActiveIsUsed DEF HGetAll, TypeInv, TypeOK
    <2>2. QED
      BY <1>8, <2>1, QuietLists
      DEF HGetAll, Goto, redisVars, TypeInv, TypeOK, ListsOK, ClockOK, TodoOK
  <1>9. ASSUME NEW r \in Requests, SetEx(r) PROVE ListsOK'
    <2>1. PICK j \in todo[r] :
              IF dt[r] < token[j].exp /\ BlacklistTtl(r, j) > 0
              THEN /\ blacklist' = [blacklist EXCEPT ![j] = now + BlacklistTtl(r, j)]
                   /\ cur' = [cur EXCEPT ![r] = j]
                   /\ Goto(r, "hdel")
                   /\ UNCHANGED <<op, dt, need, todo, made>>
              ELSE End(r) /\ UNCHANGED blacklist
      BY <1>9 DEF SetEx
    <2>2. CASE ~(dt[r] < token[j].exp /\ BlacklistTtl(r, j) > 0)
      BY <1>9, <2>1, <2>2, EndLists DEF SetEx
    <2>3. CASE dt[r] < token[j].exp /\ BlacklistTtl(r, j) > 0
      <3>1. /\ pc[r] = "revoke" /\ pc'[r] = "hdel" /\ cur'[r] = j
            /\ \A q \in Requests \ {r} : pc'[q] = pc[q] /\ cur'[q] = cur[q]
            /\ UNCHANGED <<now, token, listed, fieldExp, dt, todo>>
        BY <1>9, <2>1, <2>3 DEF SetEx, Goto, TypeInv, TypeOK
      <3>2. UsedTokens' = UsedTokens
        BY <3>1, UsedSame
      <3>3. j \in UsedTokens
        BY DEF ListsOK, TodoOK
      <3>4. token[j] \in Token /\ dt[r] \in Nat /\ now \in Nat
        BY <3>3 DEF TypeInv, TypeOK, UsedTokens, Issued
      <3>5. token[j].exp < now + BlacklistTtl(r, j) + Second
        <4>1. token[j].exp - dt[r] < BlacklistTtl(r, j) + Second /\ BlacklistTtl(r, j) \in Nat
          BY <2>3, <3>4, WholeSecondsBounds DEF BlacklistTtl, Token
        <4>2. dt[r] <= now
          BY DEF ListsOK, ClockOK
        <4>3. QED
          BY <3>4, <4>1, <4>2, SecondAssumption DEF Token
      <3>6. blacklist' = [blacklist EXCEPT ![j] = now + BlacklistTtl(r, j)]
        BY <2>1, <2>3
      <3>7. ClockOK'
        BY <3>1 DEF ListsOK, ClockOK
      <3>8. BlacklistOK'
        BY <3>1, <3>5, <3>6 DEF ListsOK, BlacklistOK, Issued, TypeInv, TypeOK
      <3>9. FreshOK'
        BY <3>1, <3>2, <3>3, <3>6 DEF ListsOK, FreshOK, TypeInv, TypeOK
      <3>10. PendingOK'
        BY <3>1 DEF ListsOK, PendingOK
      <3>11. TodoOK'
        BY <3>1, <3>2 DEF ListsOK, TodoOK
      <3>12. QED
        BY <3>7, <3>8, <3>9, <3>10, <3>11 DEF ListsOK
    <2>4. QED
      BY <2>2, <2>3
  <1>10. ASSUME NEW r \in Requests, HDel(r) PROVE ListsOK'
    <2>1. /\ pc[r] = "hdel" /\ pc'[r] = "revoke"
          /\ \A q \in Requests \ {r} : pc'[q] = pc[q] /\ cur'[q] = cur[q] /\ todo'[q] = todo[q]
          /\ todo'[r] \subseteq todo[r]
          /\ UNCHANGED <<now, token, blacklist, dt>>
          /\ listed' \subseteq listed
      BY <1>10 DEF HDel, Goto, TypeInv, TypeOK
    <2>2. \A j \in Jti : fieldExp'[j] = 0 \/ fieldExp'[j] = fieldExp[j]
      BY <1>10 DEF HDel, TypeInv, TypeOK
    <2>3. UsedTokens' = UsedTokens
      BY <2>1, UsedSame
    <2>4. ClockOK' /\ BlacklistOK'
      BY <2>1 DEF ListsOK, ClockOK, BlacklistOK, Issued
    <2>5. FreshOK'
      BY <2>1, <2>2, <2>3 DEF ListsOK, FreshOK
    <2>6. PendingOK'
      BY <2>1, <2>2 DEF ListsOK, PendingOK, TypeInv, LocalsOK, Issued
    <2>7. TodoOK'
      BY <2>1, <2>3 DEF ListsOK, TodoOK
    <2>8. QED
      BY <2>4, <2>5, <2>6, <2>7 DEF ListsOK
  <1>11. ASSUME NEW r \in Requests, Revoked(r) PROVE ListsOK'
    <2>1. CASE Create(r, "access")
      BY <1>11, <2>1, CreateLists DEF Revoked, redisVars, TokenTypes
    <2>2. CASE Goto(r, "respond") /\ UNCHANGED <<token, cur, dt>>
      BY <1>11, <2>2, QuietLists DEF Revoked, Goto, redisVars, TypeInv, TypeOK, ListsOK,
                                     ClockOK, TodoOK
    <2>3. QED
      BY <1>11, <2>1, <2>2 DEF Revoked
  <1>12. ASSUME NEW r \in Requests, HSet(r) PROVE ListsOK'
    <2>1. /\ pc[r] = "hset" /\ pc'[r] = "hexpire"
          /\ \A q \in Requests \ {r} : pc'[q] = pc[q]
          /\ listed' = listed \union {cur[r]}
          /\ UNCHANGED <<now, token, fieldExp, blacklist, dt, todo, cur>>
      BY <1>12 DEF HSet, Goto, TypeInv, TypeOK
    <2>2. cur[r] \in Issued /\ cur[r] \notin UsedTokens
      BY <2>1 DEF TypeInv, LocalsOK, UsedTokens
    <2>3. UsedTokens' = UsedTokens \union {cur[r]}
      BY <2>1, <2>2 DEF UsedTokens, Issued, ListsOK, PendingOK
    <2>4. ClockOK' /\ BlacklistOK'
      BY <2>1 DEF ListsOK, ClockOK, BlacklistOK, Issued
    <2>5. FreshOK'
      BY <2>1, <2>3 DEF ListsOK, FreshOK
    <2>6. PendingOK'
      BY <2>1, <2>2 DEF ListsOK, PendingOK, FreshOK, Issued
    <2>7. TodoOK'
      BY <2>1, <2>3 DEF ListsOK, TodoOK
    <2>8. QED
      BY <2>4, <2>5, <2>6, <2>7 DEF ListsOK
  <1>13. ASSUME NEW r \in Requests, HExpire(r) PROVE ListsOK'
    <2>1. pc[r] = "hexpire" /\ cur[r] \in Issued
      BY <1>13 DEF HExpire, TypeInv, LocalsOK
    <2>2. cur[r] \in UsedTokens
      BY <2>1 DEF UsedTokens, ListsOK, PendingOK
    <2>3. \A j \in Jti \ {cur[r]} : fieldExp'[j] = fieldExp[j]
      BY <1>13 DEF HExpire, TypeInv, TypeOK
    <2>4. \A q \in Requests \ {r} : pc[q] = "hexpire" => fieldExp'[cur[q]] = fieldExp[cur[q]]
      BY <2>1, <2>3 DEF ListsOK, PendingOK, TypeInv, LocalsOK, Issued
    <2>5. CASE Create(r, "refresh")
      BY <1>13, <2>1, <2>2, <2>3, <2>4, <2>5, CreateLists DEF HExpire, TokenTypes
    <2>6. CASE Goto(r, "respond") /\ cur' = [cur EXCEPT ![r] = NoJti] /\ UNCHANGED <<token, dt>>
      <3>1. /\ pc'[r] = "respond"
            /\ \A q \in Requests \ {r} : pc'[q] = pc[q] /\ cur'[q] = cur[q]
            /\ UNCHANGED <<now, token, listed, blacklist, dt, todo>>
        BY <1>13, <2>6 DEF HExpire, Goto, TypeInv, TypeOK
      <3>2. UsedTokens' = UsedTokens
        BY <2>1, <3>1, UsedSame
      <3>3. ClockOK' /\ BlacklistOK'
        BY <3>1 DEF ListsOK, ClockOK, BlacklistOK, Issued
      <3>4. FreshOK'
        BY <2>2, <2>3, <3>1, <3>2 DEF ListsOK, FreshOK
      <3>5. PendingOK'
        BY <2>4, <3>1 DEF ListsOK, PendingOK
      <3>6. TodoOK'
        BY <3>1, <3>2 DEF ListsOK, TodoOK
      <3>7. QED
        BY <3>3, <3>4, <3>5, <3>6 DEF ListsOK
    <2>7. QED
      BY <1>13, <2>5, <2>6 DEF HExpire
  <1>14. ASSUME NEW r \in Requests, Respond(r) \/ Refuse(r) \/ Abort(r) PROVE ListsOK'
    BY <1>14, EndLists DEF Respond, Refuse, Abort, redisVars
  <1>15. QED
    BY <1>1, <1>2, <1>3, <1>4, <1>5, <1>6, <1>7, <1>8, <1>9, <1>10, <1>11, <1>12,
       <1>13, <1>14 DEF Next, Handle

\* The lists are empty at first.
LEMMA InvInit == Init => TypeInv /\ ListsOK
  BY DEF Init, TypeInv, TypeOK, LocalsOK, ListsOK, ClockOK, BlacklistOK, FreshOK, PendingOK,
         TodoOK, Issued, UsedTokens, InFlight, Labels

\* The inductive invariant that the theorems below follow from.
LEMMA InvCorrect == Spec => [](TypeInv /\ ListsOK)
  BY InvInit, TypeStep, ListsStep, PTL DEF Spec

\* However requests interleave, and wherever they are cut off between SETEX
\* and HDEL, a blacklisted token is unusable until its last second.
THEOREM RevocationHolds == Spec => []RevokedUntilLastSecond
  <1>1. TypeInv /\ ListsOK => RevokedUntilLastSecond
    <2> SUFFICES ASSUME TypeInv, ListsOK, NEW j \in Issued, blacklist[j] # 0,
                        now + Second <= token[j].exp
                 PROVE  ~Usable(j)
      BY DEF RevokedUntilLastSecond
    <2>1. token[j] \in Token /\ blacklist[j] \in Nat /\ now \in Nat
      BY DEF TypeInv, TypeOK, Issued
    <2>2. token[j].exp < blacklist[j] + Second
      BY DEF ListsOK, BlacklistOK
    <2>3. now < blacklist[j]
      BY <2>1, <2>2, SecondAssumption DEF Token
    <2>4. QED
      BY <2>3 DEF Usable, Blacklisted
  <1>2. QED
    BY <1>1, InvCorrect, PTL

-----------------------------------------------------------------------------
(* Tokens implements Sessions *)

LiveSets == [d \in Devices |-> LiveTokens(d)]

\* A step after which every live token was live before, and is for the same
\* device, closes the tokens that are gone.
LEMMA ShrinkCloses ==
    ASSUME UNCHANGED UsedTokens,
           \A d \in Devices : LiveTokens(d)' \subseteq LiveTokens(d),
           \A d, e \in Devices : d # e => LiveTokens(d) \intersect LiveTokens(e) = {}
    PROVE  \E gone \in SUBSET Jti : Abstract!Close(gone)
  <1> DEFINE gone == {j \in Jti : \A d \in Devices : j \notin LiveTokens(d)'}
  <1>1. ASSUME NEW d \in Devices
        PROVE  LiveTokens(d)' = LiveTokens(d) \ gone
    BY DEF LiveTokens, ActiveList, Issued
  <1>2. LiveSets' = [d \in Devices |-> LiveSets[d] \ gone]
    BY <1>1 DEF LiveSets
  <1>3. Abstract!Close(gone)
    BY <1>2 DEF Abstract!Close, LiveSets
  <1>4. QED
    BY <1>3

\* A token has one device.
LEMMA OneDevice ==
    \A d, e \in Devices : d # e => LiveTokens(d) \intersect LiveTokens(e) = {}
  BY DEF LiveTokens, ActiveList

\* Time passes, fields are deleted or get their TTL, keys are blacklisted:
\* none of this brings a token to life.
LEMMA LiveShrinks ==
    ASSUME TypeInv, TypeInv', ListsOK,
           UNCHANGED UsedTokens,
           now <= now',
           listed' \subseteq listed,
           \A j \in UsedTokens :
              /\ token'[j] = token[j]
              /\ fieldExp'[j] = fieldExp[j] \/ fieldExp[j] = 0 \/ j \notin listed'
              /\ blacklist'[j] = blacklist[j] \/ now' < blacklist'[j]
    PROVE  [Abstract!Next]_(Abstract!vars)
  <1>1. ASSUME NEW d \in Devices, NEW j \in LiveTokens(d)'
        PROVE  j \in LiveTokens(d)
    <2>1. j \in listed /\ j \in listed'
      BY <1>1 DEF LiveTokens, ActiveList, FieldLive
    <2>2. j \in UsedTokens
      BY <2>1 DEF ListsOK, FreshOK, TypeInv, TypeOK, Issued
    <2>3. j \in Issued /\ token'[j] = token[j] /\ token[j] \in Token
      BY <2>2 DEF UsedTokens, Issued, TypeInv, TypeOK
    <2>4. /\ now \in Nat /\ now' \in Nat /\ token[j].exp \in Nat
          /\ fieldExp[j] \in Nat /\ blacklist[j] \in Nat /\ Second \in Nat
      BY <2>3, SecondAssumption DEF TypeInv, TypeOK, Token, Issued
    <2>5. token[j].dev = d /\ now' + Second <= token[j].exp
      BY <1>1, <2>3 DEF LiveTokens, ActiveList
    <2>6. fieldExp'[j] = 0 \/ now' < fieldExp'[j]
      BY <1>1 DEF LiveTokens, ActiveList, FieldLive
    <2>7. FieldLive(j)
      BY <2>1, <2>2, <2>4, <2>6 DEF FieldLive
    <2>8. ~(now' < blacklist'[j])
      BY <1>1 DEF LiveTokens, Blacklisted
    <2>9. ~Blacklisted(j)
      <3>1. blacklist[j] # 0 => token[j].exp < blacklist[j] + Second
        BY <2>3 DEF ListsOK, BlacklistOK
      <3>2. blacklist'[j] = blacklist[j]
        BY <2>2, <2>8
      <3>3. QED
        BY <2>4, <2>5, <2>8, <3>1, <3>2 DEF Blacklisted
    <2>10. now + Second <= token[j].exp
      BY <2>4, <2>5
    <2>11. QED
      BY <2>3, <2>5, <2>7, <2>9, <2>10 DEF LiveTokens, ActiveList
  <1>2. \E gone \in SUBSET Jti : Abstract!Close(gone)
    BY <1>1, ShrinkCloses, OneDevice
  <1>3. QED
    BY <1>2 DEF Abstract!Next

\* A request that ends: at most, the token that was waiting for HSET is burnt.
LEMMA EndRefines ==
    ASSUME TypeInv, TypeInv', ListsOK, NEW r \in Requests, End(r),
           UNCHANGED <<now, token, listed, fieldExp, blacklist>>
    PROVE  [Abstract!Next]_(Abstract!vars)
  <1>1. CASE pc[r] # "hset"
    <2>1. UNCHANGED UsedTokens
      BY <1>1, UsedEnd DEF ListsOK
    <2>2. QED
      BY <2>1, LiveShrinks DEF TypeInv, TypeOK
  <1>2. CASE pc[r] = "hset"
    <2>1. UsedTokens' = UsedTokens \union {cur[r]}
      BY <1>2, UsedEnd DEF ListsOK
    <2>2. cur[r] \in Jti /\ cur[r] \notin UsedTokens
      BY <1>2 DEF TypeInv, LocalsOK, Issued, UsedTokens
    <2>3. LiveSets' = LiveSets
      BY DEF LiveSets, LiveTokens, ActiveList, Issued, FieldLive, Blacklisted
    <2>4. Abstract!Burn(cur[r])
      BY <2>1, <2>2, <2>3 DEF Abstract!Burn, LiveSets
    <2>5. QED
      BY <2>2, <2>4 DEF Abstract!Next
  <1>3. QED
    BY <1>1, <1>2

\* HSET opens a session, unless it comes in the last second of the token.
LEMMA HSetRefines ==
    ASSUME TypeInv, TypeInv', ListsOK, NEW r \in Requests, HSet(r)
    PROVE  [Abstract!Next]_(Abstract!vars)
  <1> DEFINE j == cur[r]
  <1>1. /\ pc[r] = "hset" /\ pc'[r] = "hexpire"
        /\ \A q \in Requests \ {r} : pc'[q] = pc[q]
        /\ listed' = listed \union {j}
        /\ UNCHANGED <<now, token, fieldExp, blacklist, cur>>
    BY DEF HSet, Goto, TypeInv, TypeOK
  <1>2. j \in Issued /\ j \in Jti /\ j \notin UsedTokens
    BY <1>1 DEF TypeInv, LocalsOK, UsedTokens, Issued
  <1>3. UsedTokens' = UsedTokens \union {j}
    BY <1>1, <1>2 DEF UsedTokens, Issued, ListsOK, PendingOK
  <1>4. fieldExp[j] = 0 /\ blacklist[j] = 0 /\ j \notin listed
    BY <1>2 DEF ListsOK, FreshOK
  <1>5. PICK e \in Devices : token[j].dev = e
    BY <1>2 DEF TypeInv, TypeOK, Issued, Token
  <1>6. FieldLive(j)' /\ ~FieldLive(j) /\ ~Blacklisted(j)'
    BY <1>1, <1>4 DEF FieldLive, Blacklisted, TypeInv, TypeOK
  <1>7. \A i \in Jti \ {j} : FieldLive(i)' = FieldLive(i)
    BY <1>1 DEF FieldLive
  <1>8. Issued' = Issued /\ \A i \in Jti : Blacklisted(i)' = Blacklisted(i)
    BY <1>1 DEF Issued, Blacklisted
  <1>9. ASSUME NEW d \in Devices, d # e
        PROVE  LiveTokens(d)' = LiveTokens(d)
    BY <1>1, <1>5, <1>7, <1>8, <1>9 DEF LiveTokens, ActiveList, Issued
  <1>10. CASE now + Second <= token[j].exp
    <2>1. LiveTokens(e)' = LiveTokens(e) \union {j}
      <3>1. ASSUME NEW i \in LiveTokens(e)', i # j
            PROVE  i \in LiveTokens(e)
        BY <1>1, <1>7, <1>8, <3>1 DEF LiveTokens, ActiveList, Issued
      <3>2. ASSUME NEW i \in LiveTokens(e)
            PROVE  i \in LiveTokens(e)' /\ i # j
        BY <1>1, <1>6, <1>7, <1>8, <3>2 DEF LiveTokens, ActiveList, Issued
      <3>3. j \in LiveTokens(e)'
        BY <1>1, <1>2, <1>5, <1>6, <1>8, <1>10 DEF LiveTokens, ActiveList
      <3>4. QED
        BY <3>1, <3>2, <3>3
    <2>2. LiveSets' = [LiveSets EXCEPT ![e] = @ \union {j}]
      BY <1>5, <1>9, <2>1 DEF LiveSets
    <2>3. Abstract!Open(e, j)
      BY <1>2, <1>3, <2>2 DEF Abstract!Open, LiveSets
    <2>4. QED
      BY <1>2, <1>5, <2>3 DEF Abstract!Next
  <1>11. CASE ~(now + Second <= token[j].exp)
    <2>1. LiveTokens(e)' = LiveTokens(e)
      <3>1. ASSUME NEW i \in LiveTokens(e)'
            PROVE  i \in LiveTokens(e)
        BY <1>1, <1>7, <1>8, <1>11, <3>1 DEF LiveTokens, ActiveList, Issued
      <3>2. ASSUME NEW i \in LiveTokens(e)
            PROVE  i \in LiveTokens(e)'
        BY <1>1, <1>6, <1>7, <1>8, <3>2 DEF LiveTokens, ActiveList, Issued
      <3>3. QED
        BY <3>1, <3>2
    <2>2. LiveSets' = LiveSets
      BY <1>5, <1>9, <2>1 DEF LiveSets
    <2>3. Abstract!Burn(j)
      BY <1>2, <1>3, <2>2 DEF Abstract!Burn, LiveSets
    <2>4. QED
      BY <1>2, <2>3 DEF Abstract!Next
  <1>12. QED
    BY <1>10, <1>11

\* A step that adds no token to Redis and moves a request between two awaits,
\* neither of them that of HSET
LEMMA QuietRefines ==
    ASSUME TypeInv, TypeInv', ListsOK, NEW r \in Requests,
           UNCHANGED <<now, token, listed, fieldExp, blacklist, cur>>,
           pc[r] # "hset", pc'[r] # "hset",
           \A q \in Requests \ {r} : pc'[q] = pc[q]
    PROVE  [Abstract!Next]_(Abstract!vars)
  <1>1. UNCHANGED UsedTokens
    BY UsedSame
  <1>2. QED
    BY <1>1, LiveShrinks DEF TypeInv, TypeOK

\* generate_jtw_tokens creates a token that nobody sees yet.
LEMMA CreateRefines ==
    ASSUME TypeInv, TypeInv', ListsOK, NEW r \in Requests, NEW type \in TokenTypes,
           pc[r] \in {"revoke", "hexpire"}, Create(r, type),
           UNCHANGED <<now, listed, blacklist>>,
           \A j \in UsedTokens : fieldExp'[j] = fieldExp[j] \/ fieldExp[j] = 0
    PROVE  [Abstract!Next]_(Abstract!vars)
  <1>1. r \in InFlight /\ pc[r] # "hset"
    BY DEF InFlight
  <1>2. UNCHANGED UsedTokens
    BY <1>1, UsedCreate
  <1>3. \A j \in UsedTokens : token'[j] = token[j]
    BY <1>1, CreateIssues DEF UsedTokens
  <1>4. QED
    BY <1>2, <1>3, LiveShrinks DEF TypeInv, TypeOK

\* Every step of the token lists is a step of Sessions, or none.
LEMMA RefinesStep ==
    TypeInv /\ TypeInv' /\ ListsOK /\ [Next]_vars => [Abstract!Next]_(Abstract!vars)
  <1> SUFFICES ASSUME TypeInv, TypeInv', ListsOK, [Next]_vars
               PROVE  [Abstract!Next]_(Abstract!vars)
    OBVIOUS
  <1>1. CASE UNCHANGED vars
    <2>1. UNCHANGED UsedTokens
      BY <1>1 DEF vars, UsedTokens, Issued
    <2>2. QED
      BY <1>1, <2>1, LiveShrinks DEF vars, redisVars, TypeInv, TypeOK
  <1>2. CASE Tick
    <2>1. UNCHANGED UsedTokens
      BY <1>2 DEF Tick, UsedTokens, Issued
    <2>2. QED
      BY <1>2, <2>1, LiveShrinks DEF Tick, redisVars, TypeInv, TypeOK
  <1>3. ASSUME NEW r \in Requests, Arrive(r) \/ SignIn(r) \/ TokenRefresh(r) \/ HGetAll(r)
        PROVE  [Abstract!Next]_(Abstract!vars)
    BY <1>3, QuietRefines DEF Arrive, SignIn, TokenRefresh, HGetAll, Begins, Goto, redisVars,
                              TypeInv, TypeOK
  <1>4. ASSUME NEW r \in Requests, CheckBlacklist(r)
        PROVE  [Abstract!Next]_(Abstract!vars)
    <2>1. CASE Blacklisted(op[r].jti)
      BY <1>4, <2>1, EndRefines DEF CheckBlacklist, redisVars
    <2>2. CASE ~Blacklisted(op[r].jti)
      BY <1>4, <2>2, QuietRefines DEF CheckBlacklist, Goto, redisVars, TypeInv, TypeOK
    <2>3. QED
      BY <2>1, <2>2
  <1>5. ASSUME NEW r \in Requests, CheckActive(r)
        PROVE  [Abstract!Next]_(Abstract!vars)
    <2>1. CASE op[r].jti \notin ActiveList(op[r].dev)
      BY <1>5, <2>1, EndRefines DEF CheckActive, redisVars
    <2>2. CASE op[r].jti \in ActiveList(op[r].dev)
      <3>1. PICK label \in {"hgetall", "refresh", "respond"} :
                pc' = [pc EXCEPT ![r] = label]
        BY <1>5, <2>2 DEF CheckActive, Goto
      <3>2. QED
        BY <1>5, <2>2, <3>1, QuietRefines DEF CheckActive, redisVars, TypeInv, TypeOK
    <2>3. QED
      BY <2>1, <2>2
  <1>6. ASSUME NEW r \in Requests, SetEx(r)
        PROVE  [Abstract!Next]_(Abstract!vars)
    <2>1. PICK j \in todo[r] :
              IF dt[r] < token[j].exp /\ BlacklistTtl(r, j) > 0
              THEN /\ blacklist' = [blacklist EXCEPT ![j] = now + BlacklistTtl(r, j)]
                   /\ cur' = [cur EXCEPT ![r] = j]
                   /\ Goto(r, "hdel")
                   /\ UNCHANGED <<op, dt, need, todo, made>>
              ELSE End(r) /\ UNCHANGED blacklist
      BY <1>6 DEF SetEx
    <2>2. CASE ~(dt[r] < token[j].exp /\ BlacklistTtl(r, j) > 0)
      BY <1>6, <2>1, <2>2, EndRefines DEF SetEx
    <2>3. CASE dt[r] < token[j].exp /\ BlacklistTtl(r, j) > 0
      <3>1. /\ pc[r] = "revoke" /\ pc'[r] = "hdel"
            /\ \A q \in Requests \ {r} : pc'[q] = pc[q] /\ cur'[q] = cur[q]
            /\ UNCHANGED <<now, token, listed, fieldExp>>
        BY <1>6, <2>1, <2>3 DEF SetEx, Goto, TypeInv, TypeOK
      <3>2. UNCHANGED UsedTokens
        BY <3>1, UsedSame
      <3>3. j \in UsedTokens
        BY DEF ListsOK, TodoOK
      <3>4. token[j] \in Token /\ dt[r] \in Nat /\ now \in Nat
        BY <3>3 DEF TypeInv, TypeOK, UsedTokens, Issued
      <3>5. BlacklistTtl(r, j) \in Nat
        BY <2>3, <3>4, WholeSecondsBounds DEF BlacklistTtl, Token
      <3>6. \A i \in UsedTokens : blacklist'[i] = blacklist[i] \/ now' < blacklist'[i]
        BY <2>1, <2>3, <3>1, <3>4, <3>5 DEF TypeInv, TypeOK, UsedTokens, Issued
      <3>7. QED
        BY <3>1, <3>2, <3>4, <3>6, LiveShrinks
    <2>4. QED
      BY <2>2, <2>3
  <1>7. ASSUME NEW r \in Requests, HDel(r)
        PROVE  [Abstract!Next]_(Abstract!vars)
    <2>1. /\ pc[r] = "hdel" /\ pc'[r] = "revoke"
          /\ \A q \in Requests \ {r} : pc'[q] = pc[q] /\ cur'[q] = cur[q]
          /\ UNCHANGED <<now, token, blacklist>>
          /\ listed' \subseteq listed /\ cur[r] \notin listed'
      BY <1>7 DEF HDel, Goto, TypeInv, TypeOK
    <2>2. UNCHANGED UsedTokens
      BY <2>1, UsedSame
    <2>3. \A j \in UsedTokens : fieldExp'[j] = fieldExp[j] \/ j \notin listed'
      BY <1>7, <2>1 DEF HDel, TypeInv, TypeOK, UsedTokens, Issued
    <2>4. QED
      BY <2>1, <2>2, <2>3, LiveShrinks DEF TypeInv, TypeOK
  <1>8. ASSUME NEW r \in Requests, Revoked(r)
        PROVE  [Abstract!Next]_(Abstract!vars)
    <2>1. CASE Create(r, "access")
      BY <1>8, <2>1, CreateRefines DEF Revoked, redisVars, TokenTypes
    <2>2. CASE Goto(r, "respond") /\ UNCHANGED <<token, cur, dt>>
      BY <1>8, <2>2, QuietRefines DEF Revoked, Goto, redisVars, TypeInv, TypeOK
    <2>3. QED
      BY <1>8, <2>1, <2>2 DEF Revoked
  <1>9. ASSUME NEW r \in Requests, HExpire(r)
        PROVE  [Abstract!Next]_(Abstract!vars)
    <2>1. pc[r] = "hexpire" /\ fieldExp[cur[r]] = 0
      BY <1>9 DEF HExpire, ListsOK, PendingOK
    <2>2. \A j \in UsedTokens : fieldExp'[j] = fieldExp[j] \/ fieldExp[j] = 0
      BY <1>9, <2>1 DEF HExpire, TypeInv, TypeOK, UsedTokens, Issued
    <2>3. CASE Create(r, "refresh")
      BY <1>9, <2>1, <2>2, <2>3, CreateRefines DEF HExpire, TokenTypes
    <2>4. CASE Goto(r, "respond") /\ cur' = [cur EXCEPT ![r] = NoJti] /\ UNCHANGED <<token, dt>>
      <3>1. /\ pc'[r] = "respond"
            /\ \A q \in Requests \ {r} : pc'[q] = pc[q] /\ cur'[q] = cur[q]
            /\ UNCHANGED <<now, token, listed, blacklist>>
        BY <1>9, <2>4 DEF HExpire, Goto, TypeInv, TypeOK
      <3>2. UNCHANGED UsedTokens
        BY <2>1, <3>1, UsedSame
      <3>3. QED
        BY <2>2, <3>1, <3>2, LiveShrinks DEF TypeInv, TypeOK
    <2>5. QED
      BY <1>9, <2>3, <2>4 DEF HExpire
  <1>10. ASSUME NEW r \in Requests, Respond(r) \/ Refuse(r) \/ Abort(r)
         PROVE  [Abstract!Next]_(Abstract!vars)
    BY <1>10, EndRefines DEF Respond, Refuse, Abort, redisVars
  <1>11. QED
    BY <1>1, <1>2, <1>3, <1>4, <1>5, <1>6, <1>7, <1>8, <1>9, <1>10, HSetRefines
    DEF Next, Handle

\* The token lists implement Sessions: a token opens one session at most, of
\* one device, and a session that was revoked, signed out of or outlived
\* never comes back, whatever the requests interleave with and wherever they
\* are cut off.
THEOREM TokensImplementSessions == Spec => SessionsSpec
  <1>1. Init => Abstract!Init
    BY DEF Init, Abstract!Init, LiveTokens, ActiveList, UsedTokens, Issued
  <1>2. QED
    BY <1>1, RefinesStep, InvCorrect, PTL DEF Spec, SessionsSpec, Abstract!Spec

-----------------------------------------------------------------------------
(* What a step may do *)

\* A step of one request leaves the locals of the others alone.
LEMMA OthersKept ==
    ASSUME TypeInv, NEW q \in Requests, Handle(q), NEW r \in Requests, r # q
    PROVE  /\ pc'[r] = pc[r] /\ op'[r] = op[r] /\ need'[r] = need[r]
           /\ todo'[r] = todo[r] /\ cur'[r] = cur[r] /\ made'[r] = made[r]
           /\ dt'[r] = dt[r]
  <1>1. CASE End(q)
    BY <1>1 DEF End, Goto, TypeInv, TypeOK
  <1>2. CASE Arrive(q) \/ SignIn(q)
    BY <1>2 DEF Arrive, SignIn, Goto, TypeInv, TypeOK
  <1>3. CASE CheckBlacklist(q) \/ CheckActive(q)
    BY <1>1, <1>3 DEF CheckBlacklist, CheckActive, Goto, TypeInv, TypeOK
  <1>4. CASE TokenRefresh(q) \/ HGetAll(q) \/ HDel(q) \/ HSet(q)
    BY <1>4 DEF TokenRefresh, HGetAll, HDel, HSet, Goto, TypeInv, TypeOK
  <1>5. CASE SetEx(q)
    BY <1>1, <1>5 DEF SetEx, Goto, TypeInv, TypeOK
  <1>6. CASE Revoked(q)
    BY <1>6 DEF Revoked, Create, Goto, TypeInv, TypeOK
  <1>7. CASE HExpire(q)
    BY <1>7 DEF HExpire, Create, Goto, TypeInv, TypeOK
  <1>8. CASE Refuse(q) \/ Respond(q) \/ Abort(q)
    BY <1>1, <1>8 DEF Refuse, Respond, Abort
  <1>9. QED
    BY <1>2, <1>3, <1>4, <1>5, <1>6, <1>7, <1>8 DEF Handle

\* What no step takes back: a token that was issued, sent or blacklisted.
Grows ==
    /\ now <= now'
    /\ \A j \in Issued : j \in Issued' /\ token'[j] = token[j]
    /\ held \subseteq held'
    /\ \A j \in Jti : blacklist[j] # 0 => blacklist'[j] # 0

\* No step forgets a revocation, an answer or an expiry that has happened.
LEMMA NothingTakenBack == TypeInv /\ [Next]_vars => Grows
  <1> SUFFICES ASSUME TypeInv, [Next]_vars PROVE Grows
    OBVIOUS
  <1>1. CASE UNCHANGED vars
    BY <1>1 DEF vars, Grows, TypeInv, TypeOK, Issued
  <1>2. CASE Tick
    BY <1>2 DEF Tick, redisVars, Grows, TypeInv, TypeOK, Issued
  <1>3. ASSUME NEW r \in Requests, UNCHANGED <<now, token, blacklist>>, held \subseteq held'
        PROVE  Grows
    BY <1>3 DEF Grows, TypeInv, TypeOK, Issued
  <1>4. ASSUME NEW r \in Requests, NEW type \in TokenTypes, pc[r] \in {"revoke", "hexpire"},
               Create(r, type), UNCHANGED <<now, held, blacklist>>
        PROVE  Grows
    BY <1>4, CreateIssues DEF Grows, TypeInv, TypeOK, InFlight
  <1>5. ASSUME NEW r \in Requests, SetEx(r) PROVE Grows
    <2>1. PICK j \in todo[r] :
              IF dt[r] < token[j].exp /\ BlacklistTtl(r, j) > 0
              THEN blacklist' = [blacklist EXCEPT ![j] = now + BlacklistTtl(r, j)]
              ELSE UNCHANGED blacklist
      BY <1>5 DEF SetEx
    <2>2. j \in Issued /\ dt[r] \in Nat /\ now \in Nat
      BY DEF TypeInv, TypeOK
    <2>3. token[j].exp \in Nat
      BY <2>2 DEF TypeInv, TypeOK, Issued, Token
    <2>4. dt[r] < token[j].exp => BlacklistTtl(r, j) \in Nat
      BY <2>2, <2>3, WholeSecondsBounds DEF BlacklistTtl
    <2>5. \A i \in Jti : blacklist[i] # 0 => blacklist'[i] # 0
      BY <2>1, <2>2, <2>4 DEF TypeInv, TypeOK
    <2>6. QED
      BY <1>5, <2>2, <2>5 DEF SetEx, Grows, Issued
  <1>6. ASSUME NEW r \in Requests, Handle(r), ~SetEx(r) PROVE Grows
    <2>1. CASE Arrive(r) \/ SignIn(r) \/ Refuse(r) \/ CheckBlacklist(r) \/ CheckActive(r)
      BY <1>3, <2>1 DEF Arrive, SignIn, Refuse, CheckBlacklist, CheckActive, redisVars
    <2>2. CASE TokenRefresh(r) \/ HGetAll(r) \/ HDel(r) \/ HSet(r) \/ Respond(r) \/ Abort(r)
      BY <1>3, <2>2 DEF TokenRefresh, HGetAll, HDel, HSet, Respond, Abort, redisVars
    <2>3. CASE Revoked(r)
      BY <1>3, <1>4, <2>3 DEF Revoked, redisVars, TokenTypes
    <2>4. CASE HExpire(r)
      BY <1>3, <1>4, <2>4 DEF HExpire, TokenTypes
    <2>5. QED
      BY <1>6, <2>1, <2>2, <2>3, <2>4 DEF Handle
  <1>7. QED
    BY <1>1, <1>2, <1>5, <1>6 DEF Next

\* How a request that does not end moves on: verify_token comes first, and the
\* two reads of it decide whether it does.
LEMMA OwnStep ==
    ASSUME TypeInv, NEW r \in Requests, Handle(r), pc'[r] # "done"
    PROVE  \/ Arrive(r) \/ SignIn(r)
           \/ /\ r \in InFlight /\ op'[r] = op[r] /\ pc'[r] # "get_blacklist"
              /\ pc[r] = "get_blacklist" => ~Blacklisted(op[r].jti) /\ pc'[r] = "check_active"
              /\ pc[r] # "get_blacklist" => pc'[r] # "check_active"
              /\ pc[r] = "check_active" => op[r].jti \in ActiveList(op[r].dev)
  <1>1. CASE End(r)
    BY <1>1, EndLocals
  <1>2. CASE CheckBlacklist(r)
    BY <1>1, <1>2 DEF CheckBlacklist, Goto, InFlight, TypeInv, TypeOK
  <1>3. CASE CheckActive(r)
    BY <1>1, <1>3 DEF CheckActive, Goto, InFlight, TypeInv, TypeOK
  <1>4. CASE TokenRefresh(r) \/ HGetAll(r) \/ HDel(r) \/ HSet(r)
    BY <1>4 DEF TokenRefresh, HGetAll, HDel, HSet, Goto, InFlight, TypeInv, TypeOK
  <1>5. CASE SetEx(r)
    BY <1>1, <1>5 DEF SetEx, Goto, InFlight, TypeInv, TypeOK
  <1>6. CASE Revoked(r)
    BY <1>6 DEF Revoked, Create, Goto, InFlight, TypeInv, TypeOK
  <1>7. CASE HExpire(r)
    BY <1>7 DEF HExpire, Create, Goto, InFlight, TypeInv, TypeOK
  <1>8. CASE Refuse(r) \/ Respond(r) \/ Abort(r)
    BY <1>1, <1>8 DEF Refuse, Respond, Abort
  <1>9. QED
    BY <1>2, <1>3, <1>4, <1>5, <1>6, <1>7, <1>8 DEF Handle

-----------------------------------------------------------------------------
(* Who gets past verify_token *)

\* What a request in flight and its token have to do with one another. Between
\* the two reads it is known already that a token which was revoked before is
\* in its last second; after both, that the device is the token's.
AccessOK(r) ==
    /\ op[r].kind = "sign_in" => ~op[r].revoked
    /\ op[r].kind # "sign_in" =>
         /\ op[r].jti \in held
         /\ token[op[r].jti].type = RequiredType(op[r].kind)
         /\ op[r].revoked => /\ blacklist[op[r].jti] # 0
                             /\ pc[r] # "get_blacklist" => token[op[r].jti].exp < now + Second
         /\ Verified(r) => token[op[r].jti].dev = op[r].dev

AccessInv == \A r \in InFlight : AccessOK(r)

\* What a step of the clock or of another request does to a request.
LEMMA AccessKept ==
    ASSUME TypeInv, AccessInv, Grows, NEW r \in InFlight', now' \in Nat,
           pc'[r] = pc[r], op'[r] = op[r]
    PROVE  AccessOK(r)'
  <1>1. r \in InFlight /\ AccessOK(r) /\ r \in Requests
    BY DEF InFlight, AccessInv
  <1>2. CASE op[r].kind = "sign_in"
    BY <1>1, <1>2 DEF AccessOK
  <1>3. CASE op[r].kind # "sign_in"
    <2>1. op[r].jti \in held /\ op[r].jti \in Issued /\ op[r].jti \in Jti
      BY <1>1, <1>3 DEF AccessOK, TypeInv, TypeOK, Issued
    <2>2. token'[op[r].jti] = token[op[r].jti] /\ token[op[r].jti].exp \in Nat
      BY <2>1 DEF Grows, TypeInv, TypeOK, Issued, Token
    <2>3. op[r].jti \in held' /\ (blacklist[op[r].jti] # 0 => blacklist'[op[r].jti] # 0)
      BY <2>1 DEF Grows
    <2>4. now <= now' /\ now \in Nat
      BY DEF Grows, TypeInv, TypeOK
    <2>5. Verified(r)' => Verified(r)
      BY <1>1 DEF Verified
    <2>6. op[r].revoked /\ pc[r] # "get_blacklist" => token[op[r].jti].exp < now' + Second
      BY <1>1, <1>3, <2>2, <2>4, SecondAssumption DEF AccessOK
    <2>7. QED
      BY <1>1, <1>3, <2>2, <2>3, <2>5, <2>6 DEF AccessOK
  <1>4. QED
    BY <1>2, <1>3

\* The invariant is inductive.
LEMMA AccessStep == TypeInv /\ TypeInv' /\ ListsOK /\ AccessInv /\ [Next]_vars => AccessInv'
  <1> SUFFICES ASSUME TypeInv, TypeInv', ListsOK, AccessInv, [Next]_vars, NEW r \in InFlight'
               PROVE  AccessOK(r)'
    BY DEF AccessInv
  <1> USE NothingTakenBack
  <1>1. r \in Requests /\ now' \in Nat
    BY DEF InFlight, TypeInv, TypeOK
  <1>2. CASE UNCHANGED vars \/ Tick
    BY <1>1, <1>2, AccessKept DEF vars, Tick
  <1>3. ASSUME NEW q \in Requests, Handle(q), q # r PROVE AccessOK(r)'
    BY <1>1, <1>3, OthersKept, AccessKept
  <1>4. CASE Arrive(r)
    <2>1. PICK kind \in Kinds \ {"sign_in"}, d \in Devices, j \in held :
              /\ token[j].type = RequiredType(kind)
              /\ op' = [op EXCEPT ![r] = [kind |-> kind, dev |-> d, jti |-> j,
                                          revoked |-> blacklist[j] # 0, before |-> held]]
      BY <1>4 DEF Arrive
    <2>2. op'[r] = [kind |-> kind, dev |-> d, jti |-> j,
                    revoked |-> blacklist[j] # 0, before |-> held]
      BY <1>1, <2>1 DEF TypeInv, TypeOK
    <2>3. pc'[r] = "get_blacklist" /\ UNCHANGED <<token, held, blacklist>>
      BY <1>1, <1>4 DEF Arrive, Goto, redisVars, TypeInv, TypeOK
    <2>4. op'[r].kind # "sign_in" /\ op'[r].jti = j /\ token'[j].type = RequiredType(op'[r].kind)
      BY <2>1, <2>2, <2>3
    <2>5. j \in held' /\ (op'[r].revoked => blacklist'[j] # 0)
      <3> DEFINE was == blacklist[j] # 0
      <3>1. op'[r] = [kind |-> kind, dev |-> d, jti |-> j, revoked |-> was, before |-> held]
        BY <2>2
      <3>2. was \in BOOLEAN
        OBVIOUS
      <3> HIDE DEF was
      <3>3. op'[r].revoked = was
        BY <3>1, <3>2
      <3>4. QED
        BY <2>3, <3>3 DEF was
    <2>6. ~Verified(r)'
      BY <2>3 DEF Verified
    <2>7. QED
      BY <2>3, <2>4, <2>5, <2>6 DEF AccessOK
  <1>5. CASE SignIn(r)
    <2>1. op'[r].kind = "sign_in" /\ op'[r].revoked = FALSE
      BY <1>1, <1>5 DEF SignIn, TypeInv, TypeOK
    <2>2. QED
      BY <2>1 DEF AccessOK
  <1>6. CASE Handle(r) /\ ~Arrive(r) /\ ~SignIn(r)
    <2>1. pc'[r] # "done"
      BY DEF InFlight
    <2>2. /\ r \in InFlight /\ op'[r] = op[r] /\ pc'[r] # "get_blacklist"
          /\ pc[r] = "get_blacklist" => ~Blacklisted(op[r].jti) /\ pc'[r] = "check_active"
          /\ pc[r] # "get_blacklist" => pc'[r] # "check_active"
          /\ pc[r] = "check_active" => op[r].jti \in ActiveList(op[r].dev)
      BY <1>1, <1>6, <2>1, OwnStep
    <2>3. AccessOK(r)
      BY <2>2 DEF AccessInv
    <2>4. CASE op[r].kind = "sign_in"
      BY <2>2, <2>3, <2>4 DEF AccessOK
    <2>5. CASE op[r].kind # "sign_in"
      <3>1. op[r].jti \in held /\ op[r].jti \in Issued /\ op[r].jti \in Jti
        BY <2>3, <2>5 DEF AccessOK, TypeInv, TypeOK, Issued
      <3>2. /\ token'[op[r].jti] = token[op[r].jti]
            /\ op[r].jti \in held' /\ (blacklist[op[r].jti] # 0 => blacklist'[op[r].jti] # 0)
            /\ now <= now'
        BY <3>1 DEF Grows
      <3>3. /\ now \in Nat /\ token[op[r].jti].exp \in Nat /\ blacklist[op[r].jti] \in Nat
            /\ Second \in Nat
        BY <3>1, SecondAssumption DEF TypeInv, TypeOK, Issued, Token
      <3>4. ASSUME op[r].revoked PROVE token[op[r].jti].exp < now' + Second
        <4>1. CASE pc[r] = "get_blacklist"
          <5>1. blacklist[op[r].jti] # 0 /\ ~(now < blacklist[op[r].jti])
            BY <2>2, <2>3, <2>5, <3>4, <4>1 DEF AccessOK, Blacklisted
          <5>2. token[op[r].jti].exp < blacklist[op[r].jti] + Second
            BY <3>1, <5>1 DEF ListsOK, BlacklistOK
          <5>3. QED
            BY <1>1, <3>2, <3>3, <5>1, <5>2
        <4>2. CASE pc[r] # "get_blacklist"
          BY <1>1, <2>3, <2>5, <3>2, <3>3, <3>4, <4>2 DEF AccessOK
        <4>3. QED
          BY <4>1, <4>2
      <3>5. ASSUME Verified(r)' PROVE token[op[r].jti].dev = op[r].dev
        <4>1. CASE pc[r] = "check_active"
          BY <2>2, <4>1 DEF ActiveList
        <4>2. CASE pc[r] # "check_active"
          BY <2>2, <2>3, <2>5, <3>5, <4>2 DEF Verified, AccessOK
        <4>3. QED
          BY <4>1, <4>2
      <3>6. QED
        BY <2>2, <2>3, <2>5, <3>2, <3>4, <3>5 DEF AccessOK
    <2>6. QED
      BY <2>4, <2>5
  <1>7. QED
    BY <1>1, <1>2, <1>3, <1>4, <1>5, <1>6 DEF Next, Handle

\* The three invariants of this part hold together in every reachable state.
LEMMA AccessCorrect == Spec => [](TypeInv /\ ListsOK /\ AccessInv)
  <1>1. Init => AccessInv
    BY DEF Init, AccessInv, InFlight
  <1>2. QED
    BY <1>1, InvInit, TypeStep, ListsStep, AccessStep, PTL DEF Spec

\* verify_token reads blacklist and active list one after the other, while
\* other requests write both: still a request whose token was revoked when it
\* came gets past it in the last second of the token at most.
THEOREM RevokedGetNoAccess == Spec => []NoRevokedAccess
  <1>1. AccessInv => NoRevokedAccess
    BY DEF AccessInv, AccessOK, NoRevokedAccess, Verified
  <1>2. QED
    BY <1>1, AccessCorrect, PTL

-----------------------------------------------------------------------------
(* What a revocation has revoked *)

\* No step lists a used token again, or gives it a longer life there.
LEMMA StillListed ==
    ASSUME TypeInv, ListsOK, now <= now', now' \in Nat,
           \A j \in UsedTokens :
              /\ token'[j] = token[j]
              /\ j \in listed' => j \in listed
              /\ fieldExp'[j] = fieldExp[j] \/ fieldExp[j] = 0 \/ j \notin listed',
           NEW d, NEW j \in ActiveList(d)' \intersect UsedTokens
    PROVE  j \in ActiveList(d)
  <1>1. j \in Issued /\ j \in Jti
    BY DEF UsedTokens, Issued
  <1>2. now \in Nat /\ fieldExp[j] \in Nat
    BY <1>1 DEF TypeInv, TypeOK
  <1>3. j \in listed' /\ (fieldExp'[j] = 0 \/ now' < fieldExp'[j])
    BY DEF ActiveList, FieldLive
  <1>4. j \in listed /\ (fieldExp[j] = 0 \/ now < fieldExp[j])
    BY <1>2, <1>3
  <1>5. token[j].dev = d
    BY DEF ActiveList
  <1>6. QED
    BY <1>1, <1>4, <1>5 DEF ActiveList, FieldLive

NotRelisted ==
    /\ UsedTokens \subseteq UsedTokens'
    /\ \A d \in Devices : ActiveList(d)' \intersect UsedTokens \subseteq ActiveList(d)

\* No step puts an access token back on a list it has left.
LEMMA NothingRelisted == TypeInv /\ TypeInv' /\ ListsOK /\ [Next]_vars => NotRelisted
  <1> SUFFICES ASSUME TypeInv, TypeInv', ListsOK, [Next]_vars PROVE NotRelisted
    OBVIOUS
  <1>1. now <= now' /\ now' \in Nat /\ \A j \in Issued : token'[j] = token[j]
    BY NothingTakenBack DEF Grows, TypeInv, TypeOK
  <1>2. UsedTokens \subseteq Issued /\ UsedTokens \subseteq Jti
    BY DEF UsedTokens, Issued
  <1>3. ASSUME UsedTokens \subseteq UsedTokens',
               \A j \in UsedTokens :
                  /\ j \in listed' => j \in listed
                  /\ fieldExp'[j] = fieldExp[j] \/ fieldExp[j] = 0 \/ j \notin listed'
        PROVE  NotRelisted
    BY <1>1, <1>2, <1>3, StillListed DEF NotRelisted
  <1>4. CASE UNCHANGED vars \/ Tick
    BY <1>3, <1>4 DEF vars, Tick, redisVars, UsedTokens, Issued
  <1>5. ASSUME NEW r \in Requests, End(r), UNCHANGED <<token, listed, fieldExp>> PROVE NotRelisted
    BY <1>3, <1>5, UsedEnd DEF ListsOK
  <1>6. ASSUME NEW r \in Requests, UNCHANGED <<token, listed, fieldExp>>,
               pc[r] # "hset", pc'[r] # "hset",
               \A q \in Requests \ {r} : pc'[q] = pc[q] /\ cur'[q] = cur[q]
        PROVE  NotRelisted
    BY <1>3, <1>6, UsedSame
  <1>7. ASSUME NEW r \in Requests, Arrive(r) \/ SignIn(r) PROVE NotRelisted
    BY <1>6, <1>7 DEF Arrive, SignIn, Begins, Goto, redisVars, TypeInv, TypeOK
  <1>8. ASSUME NEW r \in Requests, CheckBlacklist(r) \/ CheckActive(r) PROVE NotRelisted
    BY <1>5, <1>6, <1>8 DEF CheckBlacklist, CheckActive, Goto, redisVars, TypeInv, TypeOK
  <1>9. ASSUME NEW r \in Requests, TokenRefresh(r) \/ HGetAll(r) PROVE NotRelisted
    BY <1>6, <1>9 DEF TokenRefresh, HGetAll, Goto, redisVars, TypeInv, TypeOK
  <1>10. ASSUME NEW r \in Requests, SetEx(r) PROVE NotRelisted
    BY <1>5, <1>6, <1>10 DEF SetEx, Goto, TypeInv, TypeOK
  <1>11. ASSUME NEW r \in Requests, HDel(r) PROVE NotRelisted
    <2>1. UsedTokens' = UsedTokens
      BY <1>11, UsedSame DEF HDel, Goto, TypeInv, TypeOK
    <2>2. \A j \in Jti : fieldExp'[j] = fieldExp[j] \/ j \notin listed'
      BY <1>11 DEF HDel, TypeInv, TypeOK
    <2>3. listed' \subseteq listed
      BY <1>11 DEF HDel
    <2>4. QED
      BY <1>2, <1>3, <2>1, <2>2, <2>3
  <1>12. ASSUME NEW r \in Requests, Revoked(r) PROVE NotRelisted
    <2>1. CASE Create(r, "access")
      <3>1. UsedTokens' = UsedTokens
        BY <1>12, <2>1, UsedCreate DEF Revoked, InFlight, TokenTypes
      <3>2. QED
        BY <1>3, <1>12, <3>1 DEF Revoked, redisVars
    <2>2. CASE Goto(r, "respond") /\ UNCHANGED <<token, cur, dt>>
      BY <1>6, <1>12, <2>2 DEF Revoked, Goto, redisVars, TypeInv, TypeOK
    <2>3. QED
      BY <1>12, <2>1, <2>2 DEF Revoked
  <1>13. ASSUME NEW r \in Requests, HSet(r) PROVE NotRelisted
    <2>1. /\ pc[r] = "hset" /\ pc'[r] = "hexpire"
          /\ \A q \in Requests \ {r} : pc'[q] = pc[q]
          /\ listed' = listed \union {cur[r]}
          /\ UNCHANGED <<token, fieldExp, cur>>
      BY <1>13 DEF HSet, Goto, TypeInv, TypeOK
    <2>2. cur[r] \notin UsedTokens /\ UsedTokens \subseteq UsedTokens'
      BY <2>1 DEF UsedTokens, Issued
    <2>3. QED
      BY <1>3, <2>1, <2>2
  <1>14. ASSUME NEW r \in Requests, HExpire(r) PROVE NotRelisted
    <2>1. pc[r] = "hexpire" /\ fieldExp[cur[r]] = 0 /\ listed' = listed
      BY <1>14 DEF HExpire, ListsOK, PendingOK
    <2>2. \A j \in Jti : fieldExp'[j] = fieldExp[j] \/ fieldExp[j] = 0
      BY <1>14, <2>1 DEF HExpire, TypeInv, TypeOK
    <2>3. CASE Create(r, "refresh")
      <3>1. UsedTokens' = UsedTokens
        BY <2>1, <2>3, UsedCreate DEF InFlight, TokenTypes
      <3>2. QED
        BY <1>2, <1>3, <2>1, <2>2, <3>1
    <2>4. CASE Goto(r, "respond") /\ cur' = [cur EXCEPT ![r] = NoJti] /\ UNCHANGED <<token, dt>>
      <3>1. UsedTokens' = UsedTokens
        BY <2>1, <2>4, UsedSame DEF Goto, TypeInv, TypeOK
      <3>2. QED
        BY <1>2, <1>3, <2>1, <2>2, <3>1
    <2>5. QED
      BY <1>14, <2>3, <2>4 DEF HExpire
  <1>15. ASSUME NEW r \in Requests, Respond(r) \/ Refuse(r) \/ Abort(r) PROVE NotRelisted
    BY <1>5, <1>15 DEF Respond, Refuse, Abort, redisVars
  <1>16. QED
    BY <1>4, <1>7, <1>8, <1>9, <1>10, <1>11, <1>12, <1>13, <1>14, <1>15 DEF Next, Handle

\* Which endpoint waits at which await, and what is left to revoke there
KindOK(r) ==
    /\ pc[r] \in {"get_blacklist", "check_active"} => op[r].kind # "sign_in"
    /\ pc[r] = "refresh" => op[r].kind = "token_refresh"
    /\ pc[r] \in {"hset", "hexpire"} => op[r].kind \in {"sign_in", "token_refresh"}
    /\ pc[r] \in {"hgetall", "revoke", "hdel"} =>
          op[r].kind \in {"sign_in", "token_refresh", "sign_out"}

\* Between HGETALL and its last iteration, the revocation has what it is still
\* to revoke in the rest of the reply; what was listed later is not used yet.
RevokingOK(r) ==
    /\ pc[r] \in {"hset", "hexpire", "respond"} /\ op[r].kind # "api" => todo[r] = {}
    /\ pc[r] \in {"revoke", "hdel", "hset", "hexpire", "respond"} /\ op[r].kind # "api" =>
          ActiveList(op[r].dev) \intersect op[r].before \subseteq Kept(r) \union todo[r]

KnownOK == held \subseteq UsedTokens /\ \A r \in Requests : made[r] \subseteq UsedTokens

RevokeInv ==
    /\ KnownOK
    /\ \A r \in InFlight : op[r].before \subseteq UsedTokens /\ KindOK(r) /\ RevokingOK(r)

\* Clients and coroutines know of used tokens only.
LEMMA KnownStep == TypeInv /\ TypeInv' /\ ListsOK /\ KnownOK /\ [Next]_vars => KnownOK'
  <1> SUFFICES ASSUME TypeInv, TypeInv', ListsOK, KnownOK, [Next]_vars PROVE KnownOK'
    OBVIOUS
  <1>1. UsedTokens \subseteq UsedTokens'
    BY NothingRelisted DEF NotRelisted
  <1>2. ASSUME held' = held, \A r \in Requests : made'[r] \subseteq UsedTokens PROVE KnownOK'
    BY <1>1, <1>2 DEF KnownOK
  <1>3. CASE UNCHANGED vars \/ Tick
    BY <1>2, <1>3 DEF vars, Tick, KnownOK
  <1>4. ASSUME NEW r \in Requests, End(r), held' = held PROVE KnownOK'
    BY <1>2, <1>4 DEF End, KnownOK, TypeInv, TypeOK
  <1>5. ASSUME NEW r \in Requests, HExpire(r) PROVE KnownOK'
    <2>1. cur[r] \in UsedTokens
      BY <1>5 DEF HExpire, UsedTokens, ListsOK, PendingOK, TypeInv, LocalsOK
    <2>2. QED
      BY <1>2, <1>5, <2>1 DEF HExpire, KnownOK, TypeInv, TypeOK
  <1>6. ASSUME NEW r \in Requests, Respond(r) PROVE KnownOK'
    BY <1>1, <1>6 DEF Respond, End, KnownOK, TypeInv, TypeOK
  <1>7. ASSUME NEW r \in Requests, Handle(r), ~HExpire(r), ~Respond(r) PROVE KnownOK'
    <2>1. CASE made' = made /\ held' = held
      BY <1>2, <2>1 DEF KnownOK
    <2>2. CASE Arrive(r) \/ SignIn(r) \/ TokenRefresh(r) \/ HGetAll(r) \/ HDel(r) \/ HSet(r)
      BY <2>1, <2>2 DEF Arrive, SignIn, TokenRefresh, HGetAll, HDel, HSet
    <2>3. CASE CheckBlacklist(r) \/ CheckActive(r) \/ Refuse(r) \/ Abort(r)
      BY <1>4, <2>1, <2>3 DEF CheckBlacklist, CheckActive, Refuse, Abort
    <2>4. CASE SetEx(r) \/ Revoked(r)
      BY <1>4, <2>1, <2>4 DEF SetEx, Revoked
    <2>5. QED
      BY <1>7, <2>2, <2>3, <2>4 DEF Handle
  <1>8. QED
    BY <1>3, <1>5, <1>6, <1>7 DEF Next

\* The step of a request itself
LEMMA RevokeOwnStep ==
    ASSUME TypeInv, TypeInv', ListsOK, RevokeInv, NotRelisted,
           NEW r \in InFlight', r \in Requests, Handle(r)
    PROVE  op'[r].before \subseteq UsedTokens /\ KindOK(r)' /\ RevokingOK(r)'
  <1>1. pc'[r] # "done" /\ pc'[r] # "new"
    BY DEF InFlight
  <1>2. CASE Arrive(r)
    <2>1. PICK kind \in Kinds \ {"sign_in"}, d \in Devices, j \in held :
              op' = [op EXCEPT ![r] = [kind |-> kind, dev |-> d, jti |-> j,
                                       revoked |-> blacklist[j] # 0, before |-> held]]
      BY <1>2 DEF Arrive
    <2>2. op'[r].kind = kind /\ op'[r].before = held /\ pc'[r] = "get_blacklist"
      BY <1>2, <2>1 DEF Arrive, Goto, TypeInv, TypeOK
    <2>3. QED
      BY <2>2 DEF KindOK, RevokingOK, RevokeInv, KnownOK
  <1>3. CASE SignIn(r)
    <2>1. op'[r].kind = "sign_in" /\ op'[r].before = held /\ pc'[r] = "hgetall"
      BY <1>3 DEF SignIn, Goto, TypeInv, TypeOK
    <2>2. QED
      BY <2>1 DEF KindOK, RevokingOK, RevokeInv, KnownOK
  <1>4. ASSUME ~Arrive(r), ~SignIn(r)
        PROVE  /\ r \in InFlight /\ op'[r] = op[r] /\ op[r] \in Op
               /\ op[r].before \subseteq UsedTokens /\ KindOK(r) /\ RevokingOK(r)
               /\ op[r].kind \in {"sign_in", "token_refresh", "sign_out", "api"}
    <2>1. r \in InFlight /\ op'[r] = op[r]
      BY <1>1, <1>4, OwnStep
    <2>2. op[r] \in Op
      BY <2>1 DEF TypeInv, LocalsOK
    <2>3. QED
      BY <2>1, <2>2, KindsAssumption DEF RevokeInv, Op
  <1>5. CASE End(r)
    BY <1>1, <1>5, EndLocals
  <1>6. CASE CheckBlacklist(r)
    BY <1>4, <1>5, <1>6 DEF CheckBlacklist, Goto, TypeInv, TypeOK, KindOK, RevokingOK, Arrive,
                            SignIn, Begins
  <1>7. CASE CheckActive(r)
    <2>1. ~Arrive(r) /\ ~SignIn(r)
      BY <1>7 DEF CheckActive, Arrive, SignIn, Begins
    <2>2. CASE op[r].kind = "sign_out"
      BY <1>4, <1>5, <1>7, <2>1, <2>2
      DEF CheckActive, Goto, TypeInv, TypeOK, KindOK, RevokingOK
    <2>3. CASE op[r].kind = "token_refresh"
      BY <1>4, <1>5, <1>7, <2>1, <2>3
      DEF CheckActive, Goto, TypeInv, TypeOK, KindOK, RevokingOK
    <2>4. CASE op[r].kind = "api"
      BY <1>4, <1>5, <1>7, <2>1, <2>4
      DEF CheckActive, Goto, TypeInv, TypeOK, KindOK, RevokingOK
    <2>5. KindOK(r) /\ pc[r] = "check_active"
      BY <1>4, <1>7, <2>1 DEF CheckActive
    <2>6. op[r].kind # "sign_in"
      BY <2>5 DEF KindOK
    <2>7. QED
      BY <1>4, <2>1, <2>2, <2>3, <2>4, <2>6
  <1>8. CASE TokenRefresh(r)
    BY <1>4, <1>8 DEF TokenRefresh, Goto, TypeInv, TypeOK, KindOK, RevokingOK, Arrive,
                      SignIn, Begins
  <1>9. CASE HGetAll(r)
    <2>1. /\ pc[r] = "hgetall" /\ pc'[r] = "revoke"
          /\ todo'[r] = ActiveList(op[r].dev) \ Kept(r)
          /\ UNCHANGED <<now, token, listed, fieldExp, op, need>>
          /\ ~Arrive(r) /\ ~SignIn(r)
      BY <1>9 DEF HGetAll, Goto, redisVars, TypeInv, TypeOK, Arrive, SignIn, Begins
    <2>2. ActiveList(op[r].dev)' = ActiveList(op[r].dev) /\ Kept(r)' = Kept(r)
      BY <2>1 DEF ActiveList, FieldLive, Issued, Kept
    <2>3. QED
      BY <1>4, <2>1, <2>2 DEF KindOK, RevokingOK
  <1>10. ASSUME pc[r] \in {"revoke", "hdel", "hset", "hexpire"}
         PROVE  /\ ~Arrive(r) /\ ~SignIn(r)
                /\ ActiveList(op[r].dev)' \intersect op[r].before
                      \subseteq ActiveList(op[r].dev) \intersect op[r].before
    <2>1. ~Arrive(r) /\ ~SignIn(r)
      BY <1>10 DEF Arrive, SignIn, Begins
    <2>2. op[r].dev \in Devices /\ op'[r].dev = op[r].dev
      BY <1>4, <2>1 DEF Op
    <2>3. QED
      BY <1>4, <2>1, <2>2 DEF NotRelisted
  <1>11. ASSUME pc[r] \in {"revoke", "hdel", "hset", "hexpire"}, need'[r] = need[r],
                todo'[r] = todo[r],
                pc'[r] \in {"revoke", "hdel", "hset", "hexpire", "respond"},
                pc'[r] \in {"hset", "hexpire", "respond"} => todo[r] = {},
                pc'[r] \in {"hset", "hexpire"} => op[r].kind \in {"sign_in", "token_refresh"}
         PROVE  KindOK(r)' /\ RevokingOK(r)' /\ op'[r].before \subseteq UsedTokens
    <2>1. Kept(r)' = Kept(r)
      BY <1>4, <1>10, <1>11 DEF Kept
    <2>2. QED
      BY <1>4, <1>10, <1>11, <2>1 DEF KindOK, RevokingOK
  <1>12. CASE SetEx(r)
    BY <1>5, <1>11, <1>12 DEF SetEx, Goto, TypeInv, TypeOK
  <1>13. CASE HDel(r)
    <2>1. /\ pc[r] = "hdel" /\ pc'[r] = "revoke" /\ need'[r] = need[r]
          /\ todo'[r] = todo[r] \ {cur[r]} /\ cur[r] \notin listed'
      BY <1>13 DEF HDel, Goto, TypeInv, TypeOK
    <2>2. cur[r] \notin ActiveList(op[r].dev)'
      BY <2>1 DEF ActiveList, FieldLive
    <2>3. Kept(r)' = Kept(r)
      BY <1>4, <1>10, <2>1 DEF Kept
    <2>4. QED
      BY <1>4, <1>10, <2>1, <2>2, <2>3 DEF KindOK, RevokingOK
  <1>14. CASE Revoked(r)
    <2>1. pc[r] = "revoke" /\ todo[r] = {} /\ need'[r] = need[r] /\ todo'[r] = todo[r]
      BY <1>14 DEF Revoked
    <2>2. CASE op[r].kind = "sign_out" /\ Goto(r, "respond")
      BY <1>11, <2>1, <2>2 DEF Goto, TypeInv, TypeOK
    <2>3. CASE op[r].kind # "sign_out" /\ Create(r, "access")
      <3>1. pc'[r] = "hset"
        BY <2>3 DEF Create, Goto, TypeInv, TypeOK
      <3>2. op[r].kind \in {"sign_in", "token_refresh"}
        BY <1>4, <1>10, <2>1, <2>3 DEF KindOK
      <3>3. QED
        BY <1>11, <2>1, <3>1, <3>2
    <2>4. QED
      BY <1>14, <2>2, <2>3 DEF Revoked
  <1>15. CASE HSet(r)
    <2>1. /\ pc[r] = "hset" /\ pc'[r] = "hexpire" /\ need'[r] = need[r] /\ todo'[r] = todo[r]
      BY <1>15 DEF HSet, Goto, TypeInv, TypeOK
    <2>2. todo[r] = {} /\ op[r].kind \in {"sign_in", "token_refresh"}
      BY <1>4, <1>10, <2>1 DEF RevokingOK, KindOK
    <2>3. QED
      BY <1>11, <2>1, <2>2
  <1>16. CASE HExpire(r)
    <2>1. /\ pc[r] = "hexpire" /\ pc'[r] \in {"hset", "respond"}
          /\ need'[r] = need[r] /\ todo'[r] = todo[r]
      BY <1>16 DEF HExpire, Create, Goto, TypeInv, TypeOK
    <2>2. todo[r] = {} /\ op[r].kind \in {"sign_in", "token_refresh"}
      BY <1>4, <1>10, <2>1 DEF RevokingOK, KindOK
    <2>3. QED
      BY <1>11, <2>1, <2>2
  <1>17. CASE Respond(r) \/ Refuse(r) \/ Abort(r)
    BY <1>5, <1>17 DEF Respond, Refuse, Abort
  <1>18. QED
    BY <1>2, <1>3, <1>6, <1>7, <1>8, <1>9, <1>12, <1>13, <1>14, <1>15, <1>16, <1>17
    DEF Handle

\* The invariant is inductive.
LEMMA RevokeStep == TypeInv /\ TypeInv' /\ ListsOK /\ RevokeInv /\ [Next]_vars => RevokeInv'
  <1> SUFFICES ASSUME TypeInv, TypeInv', ListsOK, RevokeInv, [Next]_vars PROVE RevokeInv'
    OBVIOUS
  <1>1. NotRelisted /\ KnownOK'
    BY NothingRelisted, KnownStep DEF RevokeInv
  <1>2. ASSUME NEW r \in InFlight', r \in Requests, pc'[r] = pc[r], op'[r] = op[r],
               need'[r] = need[r], todo'[r] = todo[r]
        PROVE  op'[r].before \subseteq UsedTokens /\ KindOK(r)' /\ RevokingOK(r)'
    <2>1. r \in InFlight /\ op[r].before \subseteq UsedTokens /\ KindOK(r) /\ RevokingOK(r)
      BY <1>2 DEF InFlight, RevokeInv
    <2>2. op[r].dev \in Devices /\ Kept(r)' = Kept(r)
      BY <1>2, <2>1 DEF TypeInv, LocalsOK, Op, Kept
    <2>3. ActiveList(op[r].dev)' \intersect op[r].before
             \subseteq ActiveList(op[r].dev) \intersect op[r].before
      BY <1>1, <1>2, <2>1, <2>2 DEF NotRelisted
    <2>4. KindOK(r)'
      BY <1>2, <2>1 DEF KindOK
    <2>5. RevokingOK(r)'
      BY <1>2, <2>1, <2>2, <2>3 DEF RevokingOK
    <2>6. QED
      BY <1>2, <2>1, <2>4, <2>5
  <1>3. ASSUME NEW r \in InFlight', r \in Requests
        PROVE  op'[r].before \subseteq UsedTokens /\ KindOK(r)' /\ RevokingOK(r)'
    <2>1. CASE UNCHANGED vars \/ Tick
      BY <1>2, <1>3, <2>1 DEF vars, Tick
    <2>2. ASSUME NEW q \in Requests, Handle(q), q # r
          PROVE  op'[r].before \subseteq UsedTokens /\ KindOK(r)' /\ RevokingOK(r)'
      <3>1. pc'[r] = pc[r] /\ op'[r] = op[r] /\ need'[r] = need[r] /\ todo'[r] = todo[r]
        BY <1>3, <2>2, OthersKept
      <3>2. QED
        BY <1>2, <1>3, <3>1
    <2>3. CASE Handle(r)
      BY <1>1, <1>3, <2>3, RevokeOwnStep
    <2>4. QED
      BY <2>1, <2>2, <2>3 DEF Next
  <1>4. QED
    BY <1>1, <1>3 DEF RevokeInv, NotRelisted, InFlight

\* The invariants behind the completeness of a revocation, in every reachable state.
LEMMA RevokeCorrect == Spec => [](TypeInv /\ ListsOK /\ RevokeInv)
  <1>1. Init => RevokeInv
    BY DEF Init, RevokeInv, KnownOK, InFlight
  <1>2. QED
    BY <1>1, InvInit, TypeStep, ListsStep, RevokeStep, PTL DEF Spec

\* Whatever other requests list and delete meanwhile, a revocation that is over
\* has left no token of the device in the active list that a client held when
\* it began, but the refresh token that token_refresh keeps.
THEOREM RevocationIsComplete == Spec => []RevokesAllHeldBefore
  <1>1. RevokeInv => RevokesAllHeldBefore
    <2> SUFFICES ASSUME RevokeInv, NEW r \in Requests, pc[r] \in {"hset", "hexpire", "respond"},
                        op[r].kind # "api"
                 PROVE  ActiveList(op[r].dev) \intersect op[r].before \subseteq Kept(r)
      BY DEF RevokesAllHeldBefore
    <2>1. r \in InFlight
      BY DEF InFlight
    <2>2. RevokingOK(r)
      BY <2>1 DEF RevokeInv
    <2>3. QED
      BY <2>2 DEF RevokingOK
  <1>2. QED
    BY <1>1, RevokeCorrect, PTL

-----------------------------------------------------------------------------
(* What a client holds stays in the active list until it is revoked *)

\* A token is added more than a second before it expires, so that HEXPIRE and
\* SETEX get a TTL that is not rounded down to 0.
LifeOK ==
    \A r \in Requests :
        pc[r] \in {"hset", "hexpire"} => dt[r] + Second <= token[cur[r]].exp

\* Every step keeps the lifetimes right: new tokens get theirs from the clock, old ones keep them.
LEMMA LifeStep == TypeInv /\ TypeInv' /\ LifeOK /\ [Next]_vars => LifeOK'
  <1> SUFFICES ASSUME TypeInv, TypeInv', LifeOK, [Next]_vars,
                      NEW r \in Requests, pc'[r] \in {"hset", "hexpire"}
               PROVE  dt'[r] + Second <= token'[cur'[r]].exp
    BY DEF LifeOK
  <1>1. ASSUME pc[r] \in {"hset", "hexpire"}, dt'[r] = dt[r], cur'[r] = cur[r]
        PROVE  dt'[r] + Second <= token'[cur'[r]].exp
    <2>1. cur[r] \in Issued
      BY <1>1 DEF TypeInv, LocalsOK
    <2>2. token'[cur[r]] = token[cur[r]]
      BY <2>1, NothingTakenBack DEF Grows
    <2>3. QED
      BY <1>1, <2>2 DEF LifeOK
  <1>2. CASE UNCHANGED vars \/ Tick
    BY <1>1, <1>2 DEF vars, Tick
  <1>3. ASSUME NEW q \in Requests, Handle(q), q # r
        PROVE  dt'[r] + Second <= token'[cur'[r]].exp
    BY <1>1, <1>3, OthersKept
  <1>4. CASE End(r)
    BY <1>4, EndLocals
  <1>5. ASSUME NEW type \in TokenTypes, r \in InFlight, Create(r, type)
        PROVE  dt'[r] + Second <= token'[cur'[r]].exp
    BY <1>5, CreateIssues
  <1>6. CASE HSet(r)
    BY <1>1, <1>6 DEF HSet, Goto, TypeInv, TypeOK
  <1>7. CASE Revoked(r)
    <2>1. CASE Goto(r, "respond")
      BY <2>1 DEF Goto, TypeInv, TypeOK
    <2>2. QED
      BY <1>5, <1>7, <2>1 DEF Revoked, InFlight, TokenTypes
  <1>8. CASE HExpire(r)
    <2>1. CASE Goto(r, "respond")
      BY <2>1 DEF Goto, TypeInv, TypeOK
    <2>2. QED
      BY <1>5, <1>8, <2>1 DEF HExpire, InFlight, TokenTypes
  <1>9. CASE Arrive(r) \/ SignIn(r) \/ CheckBlacklist(r) \/ CheckActive(r)
    BY <1>4, <1>9 DEF Arrive, SignIn, CheckBlacklist, CheckActive, Goto, TypeInv, TypeOK
  <1>10. CASE TokenRefresh(r) \/ HGetAll(r) \/ SetEx(r) \/ HDel(r)
    BY <1>4, <1>10 DEF TokenRefresh, HGetAll, SetEx, HDel, Goto, TypeInv, TypeOK
  <1>11. CASE Refuse(r) \/ Respond(r) \/ Abort(r)
    BY <1>4, <1>11 DEF Refuse, Respond, Abort
  <1>12. QED
    BY <1>2, <1>3, <1>6, <1>7, <1>8, <1>9, <1>10, <1>11 DEF Next, Handle

\* A field of the active list outlives its token but for less than a second.
FieldTtlOK == \A j \in listed : fieldExp[j] # 0 => token[j].exp < fieldExp[j] + Second

\* HEXPIRE rounds the rest of the life of the token down to seconds.
LEMMA FieldTtlStep == TypeInv /\ TypeInv' /\ ListsOK /\ FieldTtlOK /\ [Next]_vars => FieldTtlOK'
  <1> SUFFICES ASSUME TypeInv, TypeInv', ListsOK, FieldTtlOK, [Next]_vars,
                      NEW j \in listed', fieldExp'[j] # 0
               PROVE  token'[j].exp < fieldExp'[j] + Second
    BY DEF FieldTtlOK
  <1>1. j \in Jti
    BY DEF TypeInv, TypeOK, Issued
  <1>2. ASSUME j \in listed, fieldExp'[j] = fieldExp[j]
        PROVE  token'[j].exp < fieldExp'[j] + Second
    <2>1. token'[j] = token[j]
      BY <1>2, NothingTakenBack DEF Grows, TypeInv, TypeOK
    <2>2. QED
      BY <1>2, <2>1 DEF FieldTtlOK
  <1>3. CASE UNCHANGED vars \/ Tick
    BY <1>2, <1>3 DEF vars, Tick, redisVars
  <1>4. ASSUME NEW r \in Requests, HDel(r) PROVE token'[j].exp < fieldExp'[j] + Second
    BY <1>1, <1>2, <1>4 DEF HDel, TypeInv, TypeOK
  <1>5. ASSUME NEW r \in Requests, HSet(r) PROVE token'[j].exp < fieldExp'[j] + Second
    <2>1. pc[r] = "hset" /\ fieldExp'[j] = fieldExp[j] /\ (j \in listed \/ j = cur[r])
      BY <1>5 DEF HSet
    <2>2. cur[r] \in Jti \ UsedTokens
      BY <2>1 DEF UsedTokens, Issued, TypeInv, LocalsOK
    <2>3. fieldExp[cur[r]] = 0
      BY <2>2 DEF ListsOK, FreshOK
    <2>4. QED
      BY <1>2, <2>1, <2>3
  <1>6. ASSUME NEW r \in Requests, HExpire(r) PROVE token'[j].exp < fieldExp'[j] + Second
    <2>1. pc[r] = "hexpire" /\ j \in listed
      BY <1>6 DEF HExpire
    <2>2. CASE j = cur[r]
      <3>1. fieldExp'[j] = now + WholeSeconds(token[j].exp - dt[r])
        BY <1>1, <1>6, <2>1, <2>2 DEF HExpire, TypeInv, TypeOK
      <3>2. dt[r] <= token[j].exp /\ dt[r] <= now
        BY <2>1, <2>2 DEF TypeInv, LocalsOK, ListsOK, ClockOK
      <3>3. j \in Issued /\ token'[j] = token[j]
        BY <2>1, NothingTakenBack DEF Grows, TypeInv, TypeOK
      <3>4. now \in Nat /\ dt[r] \in Nat /\ token[j].exp \in Nat /\ Second \in Nat
        BY <3>3, SecondAssumption DEF TypeInv, TypeOK, Issued, Token
      <3>5. token[j].exp - dt[r] \in Nat
        BY <3>2, <3>4
      <3>6. /\ WholeSeconds(token[j].exp - dt[r]) \in Nat
            /\ token[j].exp - dt[r] < WholeSeconds(token[j].exp - dt[r]) + Second
        BY <3>5, WholeSecondsBounds
      <3>7. QED
        BY <3>1, <3>2, <3>3, <3>4, <3>6
    <2>3. CASE j # cur[r]
      BY <1>1, <1>2, <1>6, <2>1, <2>3 DEF HExpire, TypeInv, TypeOK
    <2>4. QED
      BY <2>2, <2>3
  <1>7. ASSUME NEW r \in Requests, Handle(r), ~HDel(r), ~HSet(r), ~HExpire(r)
        PROVE  token'[j].exp < fieldExp'[j] + Second
    <2>1. CASE Arrive(r) \/ SignIn(r) \/ Refuse(r) \/ CheckBlacklist(r) \/ CheckActive(r)
      BY <1>2, <2>1 DEF Arrive, SignIn, Refuse, CheckBlacklist, CheckActive, redisVars
    <2>2. CASE TokenRefresh(r) \/ HGetAll(r) \/ SetEx(r) \/ Revoked(r) \/ Respond(r) \/ Abort(r)
      BY <1>2, <2>2 DEF TokenRefresh, HGetAll, SetEx, Revoked, Respond, Abort, redisVars
    <2>3. QED
      BY <1>7, <2>1, <2>2 DEF Handle
  <1>8. QED
    BY <1>3, <1>4, <1>5, <1>6, <1>7 DEF Next

\* The TTL that HEXPIRE gets is not rounded down to 0.
LEMMA TtlPositive ==
    ASSUME TypeInv, LifeOK, NEW r \in Requests, pc[r] = "hexpire"
    PROVE  now + WholeSeconds(token[cur[r]].exp - dt[r]) # 0
  <1>1. dt[r] + Second <= token[cur[r]].exp
    BY DEF LifeOK
  <1>2. cur[r] \in Issued
    BY DEF TypeInv, LocalsOK
  <1>3. now \in Nat /\ dt[r] \in Nat /\ token[cur[r]].exp \in Nat /\ Second \in Nat \ {0}
    BY <1>2, SecondAssumption DEF TypeInv, TypeOK, Issued, Token
  <1>4. token[cur[r]].exp - dt[r] \in Nat /\ token[cur[r]].exp - dt[r] >= Second
    BY <1>1, <1>3
  <1>5. /\ WholeSeconds(token[cur[r]].exp - dt[r]) \in Nat
        /\ token[cur[r]].exp - dt[r] < WholeSeconds(token[cur[r]].exp - dt[r]) + Second
    BY <1>4, WholeSecondsBounds
  <1>6. QED
    BY <1>3, <1>4, <1>5

\* The token has its field with a TTL, or is revoked.
Safe(j) == blacklist[j] = 0 => j \in listed /\ fieldExp[j] # 0

\* HDEL only follows SETEX, of the same token: a field that is gone at HEXPIRE is one
\* that another request has revoked, and a token goes to the client after HEXPIRE.
HeldOK ==
    /\ \A r \in Requests :
          /\ pc[r] = "hdel" => blacklist[cur[r]] # 0
          /\ pc[r] = "hexpire" => blacklist[cur[r]] # 0 \/ cur[r] \in listed
          /\ \A j \in made[r] : Safe(j)
    /\ \A j \in held : Safe(j)

\* A field goes only when its token is blacklisted.
LEMMA ListedKept ==
    ASSUME TypeInv, HeldOK, [Next]_vars, NEW j \in Issued, j \in listed
    PROVE  blacklist'[j] # 0 \/ j \in listed'
  <1>1. j \in Jti
    BY DEF Issued
  <1>2. CASE UNCHANGED vars \/ Tick
    BY <1>2 DEF vars, Tick, redisVars
  <1>3. ASSUME NEW r \in Requests, HDel(r) PROVE blacklist'[j] # 0 \/ j \in listed'
    BY <1>3 DEF HDel, HeldOK
  <1>4. ASSUME NEW r \in Requests, HSet(r) \/ HExpire(r) PROVE j \in listed'
    BY <1>4 DEF HSet, HExpire
  <1>5. ASSUME NEW r \in Requests, Handle(r), ~HDel(r), ~HSet(r), ~HExpire(r)
        PROVE  j \in listed'
    <2>1. CASE Arrive(r) \/ SignIn(r) \/ Refuse(r) \/ CheckBlacklist(r) \/ CheckActive(r)
      BY <2>1 DEF Arrive, SignIn, Refuse, CheckBlacklist, CheckActive, redisVars
    <2>2. CASE TokenRefresh(r) \/ HGetAll(r) \/ SetEx(r) \/ Revoked(r) \/ Respond(r) \/ Abort(r)
      BY <2>2 DEF TokenRefresh, HGetAll, SetEx, Revoked, Respond, Abort, redisVars
    <2>3. QED
      BY <1>5, <2>1, <2>2 DEF Handle
  <1>6. QED
    BY <1>2, <1>3, <1>4, <1>5 DEF Next

\* Once a field has its TTL, nobody takes it back but a revocation.
LEMMA SafeKept ==
    ASSUME TypeInv, LifeOK, HeldOK, [Next]_vars, NEW j \in Issued, Safe(j)
    PROVE  Safe(j)'
  <1>1. j \in Jti
    BY DEF Issued
  <1>2. CASE blacklist'[j] # 0
    BY <1>2 DEF Safe
  <1>3. CASE blacklist'[j] = 0
    <2>1. blacklist[j] = 0
      BY <1>1, <1>3, NothingTakenBack DEF Grows
    <2>2. j \in listed /\ fieldExp[j] # 0
      BY <2>1 DEF Safe
    <2>3. j \in listed'
      BY <1>3, <2>2, ListedKept
    <2>4. SUFFICES fieldExp'[j] # 0
      BY <2>3 DEF Safe
    <2>5. CASE UNCHANGED vars \/ Tick
      BY <2>2, <2>5 DEF vars, Tick, redisVars
    <2>6. ASSUME NEW r \in Requests, HDel(r) PROVE fieldExp'[j] # 0
      <3>1. cur[r] # j
        BY <2>1, <2>6 DEF HDel, HeldOK
      <3>2. QED
        BY <1>1, <2>2, <2>6, <3>1 DEF HDel, TypeInv, TypeOK
    <2>7. ASSUME NEW r \in Requests, HExpire(r) PROVE fieldExp'[j] # 0
      <3>1. pc[r] = "hexpire"
        BY <2>7 DEF HExpire
      <3>2. CASE cur[r] = j
        BY <1>1, <2>2, <2>7, <3>1, <3>2, TtlPositive DEF HExpire, TypeInv, TypeOK
      <3>3. CASE cur[r] # j
        BY <1>1, <2>2, <2>7, <3>3 DEF HExpire, TypeInv, TypeOK
      <3>4. QED
        BY <3>2, <3>3
    <2>8. ASSUME NEW r \in Requests, Handle(r), ~HDel(r), ~HExpire(r) PROVE fieldExp'[j] # 0
      <3>1. CASE Arrive(r) \/ SignIn(r) \/ Refuse(r) \/ CheckBlacklist(r) \/ CheckActive(r)
        BY <2>2, <3>1 DEF Arrive, SignIn, Refuse, CheckBlacklist, CheckActive, redisVars
      <3>2. CASE TokenRefresh(r) \/ HGetAll(r) \/ SetEx(r) \/ Revoked(r) \/ HSet(r)
        BY <2>2, <3>2 DEF TokenRefresh, HGetAll, SetEx, Revoked, HSet, redisVars
      <3>3. CASE Respond(r) \/ Abort(r)
        BY <2>2, <3>3 DEF Respond, Abort, redisVars
      <3>4. QED
        BY <2>8, <3>1, <3>2, <3>3 DEF Handle
    <2>9. QED
      BY <2>5, <2>6, <2>7, <2>8 DEF Next
  <1>4. QED
    BY <1>2, <1>3

\* What a request has made was safe already, or is safe by the HEXPIRE that adds it.
LEMMA MadeStep ==
    ASSUME TypeInv, TypeInv', LifeOK, HeldOK, [Next]_vars, NEW r \in Requests, NEW j \in made'[r]
    PROVE  Safe(j)'
  <1>1. CASE j \in made[r]
    BY <1>1, SafeKept DEF HeldOK, TypeInv, TypeOK
  <1>2. CASE HExpire(r) /\ j = cur[r]
    <2>1. pc[r] = "hexpire" /\ j \in Issued /\ j \in Jti
      BY <1>2 DEF HExpire, TypeInv, LocalsOK, Issued
    <2>2. CASE blacklist[j] # 0
      BY <2>1, <2>2, NothingTakenBack DEF Grows, Safe
    <2>3. CASE j \in listed
      <3>1. fieldExp'[j] # 0
        BY <1>2, <2>1, <2>3, TtlPositive DEF HExpire, TypeInv, TypeOK
      <3>2. listed' = listed
        BY <1>2 DEF HExpire
      <3>3. QED
        BY <2>3, <3>1, <3>2 DEF Safe
    <2>4. QED
      BY <1>2, <2>1, <2>2, <2>3 DEF HeldOK
  <1>3. CASE UNCHANGED vars \/ Tick
    BY <1>1, <1>3 DEF vars, Tick
  <1>4. ASSUME NEW q \in Requests, Handle(q), q # r PROVE Safe(j)'
    BY <1>1, <1>4, OthersKept
  <1>5. CASE End(r)
    BY <1>5 DEF End, TypeInv, TypeOK
  <1>6. CASE HExpire(r)
    BY <1>1, <1>2, <1>6 DEF HExpire, TypeInv, TypeOK
  <1>7. CASE Handle(r) /\ ~HExpire(r)
    <2>1. CASE Arrive(r) \/ SignIn(r) \/ CheckBlacklist(r) \/ CheckActive(r) \/ TokenRefresh(r)
      BY <1>1, <1>5, <2>1 DEF Arrive, SignIn, CheckBlacklist, CheckActive, TokenRefresh
    <2>2. CASE HGetAll(r) \/ SetEx(r) \/ HDel(r) \/ Revoked(r) \/ HSet(r)
      BY <1>1, <1>5, <2>2 DEF HGetAll, SetEx, HDel, Revoked, HSet
    <2>3. CASE Refuse(r) \/ Respond(r) \/ Abort(r)
      BY <1>5, <2>3 DEF Refuse, Respond, Abort
    <2>4. QED
      BY <1>7, <2>1, <2>2, <2>3 DEF Handle
  <1>8. QED
    BY <1>3, <1>4, <1>6, <1>7 DEF Next

\* The two awaits at which the list and the blacklist disagree
LEMMA AwaitStep ==
    ASSUME TypeInv, TypeInv', ListsOK, HeldOK, [Next]_vars, NEW r \in Requests
    PROVE  /\ pc'[r] = "hdel" => blacklist'[cur'[r]] # 0
           /\ pc'[r] = "hexpire" => blacklist'[cur'[r]] # 0 \/ cur'[r] \in listed'
  <1> DEFINE Goal == /\ pc'[r] = "hdel" => blacklist'[cur'[r]] # 0
                     /\ pc'[r] = "hexpire" => blacklist'[cur'[r]] # 0 \/ cur'[r] \in listed'
  <1>1. CASE pc'[r] = pc[r] /\ cur'[r] = cur[r]
    <2>1. pc[r] \in {"hdel", "hexpire"} => cur[r] \in Issued /\ cur[r] \in Jti
      BY DEF TypeInv, LocalsOK, Issued
    <2>2. pc[r] \in {"hdel", "hexpire"} /\ blacklist[cur[r]] # 0 => blacklist'[cur[r]] # 0
      BY <2>1, NothingTakenBack DEF Grows
    <2>3. pc[r] = "hexpire" /\ cur[r] \in listed => blacklist'[cur[r]] # 0 \/ cur[r] \in listed'
      BY <2>1, ListedKept
    <2>4. QED
      BY <1>1, <2>2, <2>3 DEF HeldOK
  <1>2. CASE pc'[r] \notin {"hdel", "hexpire"}
    BY <1>2
  <1>3. CASE UNCHANGED vars \/ Tick
    BY <1>1, <1>3 DEF vars, Tick
  <1>4. ASSUME NEW q \in Requests, Handle(q), q # r PROVE Goal
    BY <1>1, <1>4, OthersKept
  <1>5. CASE End(r)
    BY <1>2, <1>5, EndLocals
  <1>6. CASE HSet(r)
    BY <1>6 DEF HSet, Goto, TypeInv, TypeOK
  <1>7. CASE SetEx(r)
    <2>1. PICK j \in todo[r] :
              IF dt[r] < token[j].exp /\ BlacklistTtl(r, j) > 0
              THEN /\ blacklist' = [blacklist EXCEPT ![j] = now + BlacklistTtl(r, j)]
                   /\ cur' = [cur EXCEPT ![r] = j]
                   /\ Goto(r, "hdel")
              ELSE End(r)
      BY <1>7 DEF SetEx
    <2>2. CASE ~(dt[r] < token[j].exp /\ BlacklistTtl(r, j) > 0)
      BY <1>5, <2>1, <2>2
    <2>3. CASE dt[r] < token[j].exp /\ BlacklistTtl(r, j) > 0
      <3>1. j \in Issued /\ j \in Jti /\ now \in Nat /\ dt[r] \in Nat
        BY DEF TypeInv, TypeOK, Issued
      <3>2. token[j].exp \in Nat
        BY <3>1 DEF TypeInv, TypeOK, Issued, Token
      <3>3. BlacklistTtl(r, j) \in Nat
        BY <2>3, <3>1, <3>2, WholeSecondsBounds DEF BlacklistTtl
      <3>4. now + BlacklistTtl(r, j) # 0
        BY <2>3, <3>1, <3>3
      <3>5. pc'[r] = "hdel" /\ cur'[r] = j
        BY <2>1, <2>3 DEF Goto, TypeInv, TypeOK
      <3>6. blacklist'[j] = now + BlacklistTtl(r, j)
        BY <2>1, <2>3, <3>1 DEF TypeInv, TypeOK
      <3>7. QED
        BY <3>4, <3>5, <3>6
    <2>4. QED
      BY <2>2, <2>3
  <1>8. CASE Handle(r) /\ ~HSet(r) /\ ~SetEx(r)
    <2>1. CASE Arrive(r) \/ SignIn(r) \/ CheckBlacklist(r) \/ CheckActive(r) \/ TokenRefresh(r)
      BY <1>2, <1>5, <2>1
      DEF Arrive, SignIn, CheckBlacklist, CheckActive, TokenRefresh, Goto, TypeInv, TypeOK
    <2>2. CASE HGetAll(r) \/ HDel(r) \/ Revoked(r) \/ HExpire(r)
      BY <1>2, <2>2 DEF HGetAll, HDel, Revoked, HExpire, Create, Goto, TypeInv, TypeOK
    <2>3. CASE Refuse(r) \/ Respond(r) \/ Abort(r)
      BY <1>5, <2>3 DEF Refuse, Respond, Abort
    <2>4. QED
      BY <1>8, <2>1, <2>2, <2>3 DEF Handle
  <1>9. QED
    BY <1>3, <1>4, <1>6, <1>7, <1>8 DEF Next

\* The invariant is inductive: a client gets what its request has made.
LEMMA HeldStep ==
    TypeInv /\ TypeInv' /\ ListsOK /\ LifeOK /\ HeldOK /\ [Next]_vars => HeldOK'
  <1> SUFFICES ASSUME TypeInv, TypeInv', ListsOK, LifeOK, HeldOK, [Next]_vars PROVE HeldOK'
    OBVIOUS
  <1>1. ASSUME NEW r \in Requests
        PROVE  /\ pc'[r] = "hdel" => blacklist'[cur'[r]] # 0
               /\ pc'[r] = "hexpire" => blacklist'[cur'[r]] # 0 \/ cur'[r] \in listed'
               /\ \A j \in made'[r] : Safe(j)'
    BY AwaitStep, MadeStep
  <1>2. ASSUME NEW j \in held' PROVE Safe(j)'
    <2>1. j \in held \/ \E r \in Requests : j \in made[r]
      <3>1. CASE UNCHANGED vars \/ Tick
        BY <3>1 DEF vars, Tick
      <3>2. ASSUME NEW r \in Requests, Respond(r) PROVE j \in held \/ j \in made[r]
        BY <1>2, <3>2 DEF Respond
      <3>3. ASSUME NEW r \in Requests, Handle(r), ~Respond(r) PROVE j \in held
        BY <1>2, <3>3 DEF Handle, Arrive, SignIn, Refuse, CheckBlacklist, CheckActive,
           TokenRefresh, HGetAll, SetEx, HDel, Revoked, HSet, HExpire, Abort
      <3>4. QED
        BY <1>2, <3>1, <3>2, <3>3 DEF Next
    <2>2. Safe(j) /\ j \in Issued
      BY <2>1 DEF HeldOK, TypeInv, TypeOK
    <2>3. QED
      BY <2>2, SafeKept
  <1>3. QED
    BY <1>1, <1>2 DEF HeldOK

\* Whoever overlaps and wherever requests are cut off, a token that a client holds
\* is in the active list, with a TTL that reaches its last second, until it is
\* revoked: what an interrupted request leaves there without a TTL is nobody's.
THEOREM HeldTokensStayListed == Spec => []HeldUntilRevoked
  <1>1. Init => LifeOK /\ FieldTtlOK /\ HeldOK
    BY DEF Init, LifeOK, FieldTtlOK, HeldOK
  <1>2. TypeInv /\ ListsOK /\ LifeOK /\ FieldTtlOK /\ HeldOK /\ [Next]_vars
            => TypeInv' /\ ListsOK' /\ LifeOK' /\ FieldTtlOK' /\ HeldOK'
    BY TypeStep, ListsStep, LifeStep, FieldTtlStep, HeldStep
  <1>3. FieldTtlOK /\ HeldOK => HeldUntilRevoked
    BY DEF FieldTtlOK, HeldOK, Safe, HeldUntilRevoked
  <1>4. QED
    BY <1>1, <1>2, <1>3, InvInit, PTL DEF Spec

-----------------------------------------------------------------------------
(* How many refresh tokens a device can have *)

\* One more element makes a finite set larger by one at most.
LEMMA AddOne ==
    ASSUME NEW S, NEW x, IsFiniteSet(S)
    PROVE  /\ IsFiniteSet(S \union {x})
           /\ Cardinality(S \union {x}) <= Cardinality(S) + 1
  <1>1. Cardinality(S) \in Nat
    BY FS_CardinalityType
  <1>2. QED
    BY <1>1, FS_AddElement

\* No more requests are in flight than the service takes at a time.
FlightOK == IsFiniteSet(InFlight) /\ Cardinality(InFlight) <= Concurrency

\* Every step keeps the number of open requests within Concurrency.
LEMMA FlightStep == TypeInv /\ FlightOK /\ [Next]_vars => FlightOK'
  <1> SUFFICES ASSUME TypeInv, FlightOK, [Next]_vars PROVE FlightOK'
    OBVIOUS
  <1>1. ASSUME InFlight' \subseteq InFlight PROVE FlightOK'
    <2>1. Cardinality(InFlight) \in Nat
      BY FS_CardinalityType DEF FlightOK
    <2>2. IsFiniteSet(InFlight') /\ Cardinality(InFlight') <= Cardinality(InFlight)
      BY <1>1, FS_Subset DEF FlightOK
    <2>3. Cardinality(InFlight') \in Nat
      BY <2>2, FS_CardinalityType
    <2>4. QED
      BY <2>1, <2>2, <2>3, BoundAssumption DEF FlightOK
  <1>2. CASE UNCHANGED vars \/ Tick
    BY <1>1, <1>2 DEF vars, Tick, InFlight
  <1>3. ASSUME NEW r \in Requests, Handle(r), ~Arrive(r), ~SignIn(r) PROVE FlightOK'
    <2>1. \A q \in Requests : q # r => pc'[q] = pc[q]
      BY <1>3, OthersKept
    <2>2. r \in InFlight' => r \in InFlight
      BY <1>3, OwnStep DEF InFlight
    <2>3. QED
      BY <1>1, <2>1, <2>2 DEF InFlight
  <1>4. ASSUME NEW r \in Requests, Arrive(r) \/ SignIn(r) PROVE FlightOK'
    <2>1. Cardinality(InFlight) < Concurrency
      BY <1>4 DEF Arrive, SignIn, Begins
    <2>2. r \notin InFlight
      BY <1>4 DEF Arrive, SignIn, Begins, InFlight
    <2>3. InFlight' = InFlight \union {r}
      BY <1>4 DEF Arrive, SignIn, Begins, Goto, InFlight, TypeInv, TypeOK
    <2>4. Cardinality(InFlight) \in Nat
      BY FS_CardinalityType DEF FlightOK
    <2>5. IsFiniteSet(InFlight') /\ Cardinality(InFlight') = Cardinality(InFlight) + 1
      BY <2>2, <2>3, FS_AddElement DEF FlightOK
    <2>6. QED
      BY <2>1, <2>4, <2>5, BoundAssumption DEF FlightOK
  <1>5. QED
    BY <1>2, <1>3, <1>4 DEF Next

\* The refresh tokens a device has in its active list
Refreshes(d) == {j \in ActiveList(d) : token[j].type = "refresh"}

\* The requests that are to add one more: they are past HGETALL
Adds(r) ==
    /\ need[r]
    /\ \/ pc[r] \in {"revoke", "hdel", "hset"}
       \/ pc[r] = "hexpire" /\ token[cur[r]].type = "access"
Adding(d) == {r \in InFlight : op[r].dev = d /\ Adds(r)}

\* What the requests R leave of them
Left(d, R) == {j \in Refreshes(d) : \A r \in R : j \notin todo[r]}

\* A new token is for the device of its request; a refresh token is only
\* created when one is needed.
AddingOK ==
    \A r \in Requests : pc[r] \in {"hset", "hexpire"} =>
        /\ token[cur[r]].dev = op[r].dev
        /\ token[cur[r]].type = "refresh" => need[r]

\* A request that is to add a refresh token revokes every one it has seen: the
\* tokens that some of these requests have not seen were added since, by
\* others of the requests that were in flight with them.
Bounded(d) ==
    /\ IsFiniteSet(Refreshes(d))
    /\ \A R \in SUBSET Adding(d) :
          Cardinality(R) + Cardinality(Left(d, R)) <= Concurrency
BoundOK == \A d \in Devices : Bounded(d)

BoundInv == FlightOK /\ AddingOK /\ BoundOK

\* The token that is created
LEMMA CreatedToken ==
    ASSUME TypeInv, NEW r \in Requests, NEW type \in TokenTypes, r \in InFlight,
           Create(r, type)
    PROVE  token'[cur'[r]].dev = op[r].dev /\ token'[cur'[r]].type = type
  <1>1. PICK j \in FreshJti :
            /\ token' = [token EXCEPT ![j] = NewToken(type, op[r].dev)]
            /\ cur' = [cur EXCEPT ![r] = j]
    BY DEF Create
  <1>2. j \in Jti
    BY DEF FreshJti
  <1>3. token'[j] = NewToken(type, op[r].dev) /\ cur'[r] = j
    BY <1>1, <1>2 DEF TypeInv, TypeOK
  <1>4. QED
    BY <1>3 DEF NewToken

\* Every step keeps what is known of a request about to add its refresh token.
LEMMA AddingStep == TypeInv /\ TypeInv' /\ AddingOK /\ [Next]_vars => AddingOK'
  <1> SUFFICES ASSUME TypeInv, TypeInv', AddingOK, [Next]_vars,
                      NEW r \in Requests, pc'[r] \in {"hset", "hexpire"}
               PROVE  /\ token'[cur'[r]].dev = op'[r].dev
                      /\ token'[cur'[r]].type = "refresh" => need'[r]
    BY DEF AddingOK
  <1> DEFINE Goal == /\ token'[cur'[r]].dev = op'[r].dev
                     /\ token'[cur'[r]].type = "refresh" => need'[r]
  <1>1. ASSUME pc[r] \in {"hset", "hexpire"}, op'[r] = op[r], need'[r] = need[r],
               cur'[r] = cur[r]
        PROVE  Goal
    <2>1. cur[r] \in Issued
      BY <1>1 DEF TypeInv, LocalsOK
    <2>2. token'[cur[r]] = token[cur[r]]
      BY <2>1, NothingTakenBack DEF Grows
    <2>3. QED
      BY <1>1, <2>2 DEF AddingOK
  <1>2. CASE UNCHANGED vars \/ Tick
    BY <1>1, <1>2 DEF vars, Tick
  <1>3. ASSUME NEW q \in Requests, Handle(q), q # r PROVE Goal
    BY <1>1, <1>3, OthersKept
  <1>4. CASE End(r)
    BY <1>4, EndLocals
  <1>5. CASE HSet(r)
    BY <1>1, <1>5 DEF HSet, Goto, TypeInv, TypeOK
  <1>6. CASE Revoked(r)
    <2>1. CASE Goto(r, "respond")
      BY <2>1 DEF Goto, TypeInv, TypeOK
    <2>2. CASE Create(r, "access")
      <3>1. token'[cur'[r]].dev = op[r].dev /\ token'[cur'[r]].type = "access"
        BY <1>6, <2>2, CreatedToken DEF Revoked, InFlight, TokenTypes
      <3>2. QED
        BY <1>6, <3>1 DEF Revoked
    <2>3. QED
      BY <1>6, <2>1, <2>2 DEF Revoked
  <1>7. CASE HExpire(r)
    <2>1. CASE Goto(r, "respond")
      BY <2>1 DEF Goto, TypeInv, TypeOK
    <2>2. CASE need[r] /\ Create(r, "refresh")
      <3>1. token'[cur'[r]].dev = op[r].dev
        BY <1>7, <2>2, CreatedToken DEF HExpire, InFlight, TokenTypes
      <3>2. QED
        BY <1>7, <2>2, <3>1 DEF HExpire
    <2>3. QED
      BY <1>7, <2>1, <2>2 DEF HExpire
  <1>8. CASE Arrive(r) \/ SignIn(r) \/ CheckBlacklist(r) \/ CheckActive(r)
    BY <1>4, <1>8 DEF Arrive, SignIn, CheckBlacklist, CheckActive, Goto, TypeInv, TypeOK
  <1>9. CASE TokenRefresh(r) \/ HGetAll(r) \/ SetEx(r) \/ HDel(r)
    BY <1>4, <1>9 DEF TokenRefresh, HGetAll, SetEx, HDel, Goto, TypeInv, TypeOK
  <1>10. CASE Refuse(r) \/ Respond(r) \/ Abort(r)
    BY <1>4, <1>10 DEF Refuse, Respond, Abort
  <1>11. QED
    BY <1>2, <1>3, <1>5, <1>6, <1>7, <1>8, <1>9, <1>10 DEF Next, Handle

\* Only HGETALL makes a request one of those that are to add a refresh token;
\* what such a request has to revoke still is revoked, or is left to it.
LEMMA AddsOwn ==
    ASSUME TypeInv, NEW r \in Requests, Handle(r), ~HGetAll(r), Adds(r)'
    PROVE  /\ r \in InFlight /\ op'[r] = op[r] /\ Adds(r)
           /\ \A j \in listed' : j \in todo[r] => j \in todo'[r]
  <1> DEFINE Goal == Adds(r) /\ \A j \in listed' : j \in todo[r] => j \in todo'[r]
  <1>1. /\ need'[r]
        /\ pc'[r] \in {"revoke", "hdel", "hset", "hexpire"}
        /\ pc'[r] = "hexpire" => token'[cur'[r]].type = "access"
    BY DEF Adds
  <1>2. ASSUME End(r) PROVE Goal
    BY <1>1, <1>2, EndLocals
  <1>3. ASSUME \/ Arrive(r) \/ SignIn(r)
               \/ CheckBlacklist(r) \/ CheckActive(r) \/ TokenRefresh(r)
        PROVE  Goal
    BY <1>1, <1>2, <1>3
    DEF Arrive, SignIn, CheckBlacklist, CheckActive, TokenRefresh, Goto, TypeInv, TypeOK
  <1>4. ASSUME need' = need, pc[r] \in {"revoke", "hdel", "hset"},
               \A j \in listed' : j \in todo[r] => j \in todo'[r]
        PROVE  Goal
    <2>1. need[r]
      BY <1>1, <1>4
    <2>2. QED
      BY <1>4, <2>1 DEF Adds
  <1>5. ASSUME SetEx(r) PROVE Goal
    BY <1>1, <1>2, <1>4, <1>5 DEF SetEx
  <1>6. ASSUME HDel(r) PROVE Goal
    BY <1>4, <1>6 DEF HDel, TypeInv, TypeOK
  <1>7. ASSUME Revoked(r) \/ HSet(r) PROVE Goal
    BY <1>4, <1>7 DEF Revoked, HSet
  <1>8. ASSUME HExpire(r) PROVE Goal
    <2>1. CASE Goto(r, "respond")
      BY <1>1, <2>1 DEF Goto, TypeInv, TypeOK
    <2>2. CASE need[r] /\ token[cur[r]].type = "access"
      <3>1. pc[r] = "hexpire" /\ todo'[r] = todo[r]
        BY <1>8 DEF HExpire
      <3>2. QED
        BY <2>2, <3>1 DEF Adds
    <2>3. QED
      BY <1>8, <2>1, <2>2 DEF HExpire
  <1>9. ASSUME Refuse(r) \/ Respond(r) \/ Abort(r) PROVE Goal
    BY <1>2, <1>9 DEF Refuse, Respond, Abort
  <1>10. Goal
    BY <1>3, <1>4, <1>5, <1>6, <1>7, <1>8, <1>9 DEF Handle
  <1>11. ~Arrive(r) /\ ~SignIn(r) /\ pc'[r] # "done"
    BY <1>1, <1>10 DEF Adds, Arrive, SignIn, Begins
  <1>12. QED
    BY <1>10, <1>11, OwnStep

\* The same of another request's step
LEMMA AddsOther ==
    ASSUME TypeInv, Grows, NEW q \in Requests, Adds(q)',
           pc'[q] = pc[q], op'[q] = op[q], need'[q] = need[q], cur'[q] = cur[q]
    PROVE  Adds(q)
  <1>1. pc[q] = "hexpire" => token'[cur[q]] = token[cur[q]]
    BY DEF TypeInv, LocalsOK, Grows
  <1>2. QED
    BY <1>1 DEF Adds

\* Only HSET lists a token.
LEMMA RefreshesShrink ==
    ASSUME TypeInv, TypeInv', ListsOK, [Next]_vars, listed' \subseteq listed, NEW d \in Devices
    PROVE  Refreshes(d)' \subseteq Refreshes(d) /\ Refreshes(d)' \subseteq listed'
  <1> SUFFICES ASSUME NEW j \in Refreshes(d)' PROVE j \in Refreshes(d) /\ j \in listed'
    OBVIOUS
  <1>1. j \in ActiveList(d)' /\ token'[j].type = "refresh"
    BY DEF Refreshes
  <1>2. j \in listed' /\ j \in Jti
    BY <1>1 DEF ActiveList, FieldLive, Issued
  <1>3. j \in UsedTokens
    BY <1>2 DEF ListsOK, FreshOK
  <1>4. j \in ActiveList(d)
    BY <1>1, <1>3, NothingRelisted DEF NotRelisted
  <1>5. token'[j] = token[j]
    BY <1>3, NothingTakenBack DEF Grows, UsedTokens
  <1>6. QED
    BY <1>1, <1>2, <1>4, <1>5 DEF Refreshes

\* Both sets that the bound counts only shrink.
LEMMA BoundKept ==
    ASSUME FlightOK, BoundOK, NEW d \in Devices, IsFiniteSet(Refreshes(d)'),
           NEW R \in SUBSET Adding(d), NEW S \in SUBSET R,
           Cardinality(S) + Cardinality(Left(d, S)') <= Cardinality(R) + Cardinality(Left(d, R))
    PROVE  Cardinality(S) + Cardinality(Left(d, S)') <= Concurrency
  <1>1. Cardinality(R) + Cardinality(Left(d, R)) <= Concurrency
    BY DEF BoundOK, Bounded
  <1>2. IsFiniteSet(R)
    BY FS_Subset DEF FlightOK, Adding
  <1>3. IsFiniteSet(S)
    BY <1>2, FS_Subset
  <1>4. IsFiniteSet(Left(d, R)) /\ IsFiniteSet(Left(d, S)')
    <2>1. Left(d, R) \subseteq Refreshes(d) /\ Left(d, S)' \subseteq Refreshes(d)'
      BY DEF Left
    <2>2. QED
      BY <2>1, FS_Subset DEF BoundOK, Bounded
  <1>5. /\ Cardinality(R) \in Nat /\ Cardinality(S) \in Nat
        /\ Cardinality(Left(d, R)) \in Nat /\ Cardinality(Left(d, S)') \in Nat
    BY <1>2, <1>3, <1>4, FS_CardinalityType
  <1>6. QED
    BY <1>1, <1>5, BoundAssumption

\* A step that lists no token and makes no request revoke
LEMMA BoundShrinks ==
    ASSUME FlightOK, BoundOK, NEW d \in Devices,
           Refreshes(d)' \subseteq Refreshes(d), Adding(d)' \subseteq Adding(d),
           \A q \in Adding(d)' : \A j \in Refreshes(d)' : j \in todo[q] => j \in todo'[q]
    PROVE  Bounded(d)'
  <1>1. IsFiniteSet(Refreshes(d)')
    BY FS_Subset DEF BoundOK, Bounded
  <1>2. ASSUME NEW R \in SUBSET Adding(d)'
        PROVE  Cardinality(R) + Cardinality(Left(d, R)') <= Concurrency
    <2>1. R \in SUBSET Adding(d)
      BY <1>2
    <2>2. Left(d, R)' \subseteq Left(d, R)
      BY <1>2 DEF Left
    <2>3. IsFiniteSet(Left(d, R))
      BY FS_Subset DEF Left, BoundOK, Bounded
    <2>4. /\ Cardinality(Left(d, R)') <= Cardinality(Left(d, R))
          /\ IsFiniteSet(Left(d, R)')
      BY <2>2, <2>3, FS_Subset
    <2>5. IsFiniteSet(R)
      BY <2>1, FS_Subset DEF FlightOK, Adding
    <2>6. /\ Cardinality(R) \in Nat /\ Cardinality(Left(d, R)) \in Nat
          /\ Cardinality(Left(d, R)') \in Nat
      BY <2>3, <2>4, <2>5, FS_CardinalityType
    <2>7. QED
      BY <1>1, <2>1, <2>4, <2>6, BoundKept
  <1>3. QED
    BY <1>1, <1>2 DEF Bounded

\* HGETALL: from now on the request is to add a refresh token, if it needs one,
\* and has every token of the device to revoke before.
LEMMA HGetAllBound ==
    ASSUME TypeInv, TypeInv', ListsOK, BoundInv, FlightOK', NEW r \in Requests, HGetAll(r),
           Grows, NEW d \in Devices
    PROVE  Bounded(d)'
  <1>1. /\ pc[r] = "hgetall" /\ pc' = [pc EXCEPT ![r] = "revoke"]
        /\ todo' = [todo EXCEPT ![r] = ActiveList(op[r].dev) \ Kept(r)]
        /\ UNCHANGED <<now, token, listed, fieldExp, op, need, cur>>
    BY DEF HGetAll, Goto, redisVars
  <1>2. Refreshes(d)' = Refreshes(d)
    BY <1>1 DEF Refreshes, ActiveList, FieldLive, Issued
  <1>3. IsFiniteSet(Refreshes(d)')
    BY <1>2 DEF BoundInv, BoundOK, Bounded
  <1>4. \A q \in Requests \ {r} : pc'[q] = pc[q] /\ todo'[q] = todo[q]
    BY <1>1 DEF TypeInv, TypeOK
  <1>5. ASSUME NEW R \in SUBSET Adding(d)', r \notin R
        PROVE  Cardinality(R) + Cardinality(Left(d, R)') <= Concurrency
    <2>1. R \in SUBSET Adding(d)
      <3> SUFFICES ASSUME NEW q \in R PROVE q \in Adding(d)
        OBVIOUS
      <3>1. q \in InFlight' /\ q \in Requests \ {r} /\ Adds(q)' /\ op'[q].dev = d
        BY <1>5 DEF Adding, InFlight
      <3>2. Adds(q) /\ q \in InFlight
        BY <1>1, <1>4, <3>1, AddsOther DEF InFlight
      <3>3. QED
        BY <1>1, <3>1, <3>2 DEF Adding
    <2>2. R \subseteq Requests \ {r}
      BY <1>5 DEF Adding, InFlight
    <2>3. Left(d, R)' = Left(d, R)
      BY <1>2, <1>4, <2>2 DEF Left
    <2>4. QED
      BY <2>1, <2>3 DEF BoundInv, BoundOK, Bounded
  <1>6. ASSUME NEW R \in SUBSET Adding(d)', r \in R
        PROVE  Cardinality(R) + Cardinality(Left(d, R)') <= Concurrency
    <2>1. op[r].dev = d /\ need'[r]
      BY <1>1, <1>6 DEF Adding, Adds
    <2>2. need[r]
      BY <1>1, <2>1
    <2>3. Kept(r) = {}
      BY <2>2 DEF Kept
    <2>4. todo'[r] = ActiveList(d)
      BY <1>1, <2>1, <2>3 DEF TypeInv, TypeOK
    <2>5. Refreshes(d)' \subseteq ActiveList(d)
      BY <1>2 DEF Refreshes
    <2>6. Left(d, R)' = {}
      BY <1>6, <2>4, <2>5 DEF Left
    <2>7. R \subseteq InFlight'
      BY <1>6 DEF Adding
    <2>8. /\ Cardinality(R) <= Cardinality(InFlight') /\ IsFiniteSet(R)
          /\ Cardinality(InFlight') \in Nat
      BY <2>7, FS_Subset, FS_CardinalityType DEF FlightOK
    <2>9. Cardinality(Left(d, R)') = 0 /\ Cardinality(R) \in Nat
      BY <2>6, <2>8, FS_EmptySet, FS_CardinalityType
    <2>10. QED
      BY <2>8, <2>9, BoundAssumption DEF FlightOK
  <1>7. QED
    BY <1>3, <1>5, <1>6 DEF Bounded

\* HSET: a request that is to add a refresh token, and has none left to revoke,
\* makes place for the token it adds.
LEMMA HSetBound ==
    ASSUME TypeInv, TypeInv', ListsOK, RevokeInv, BoundInv, NEW r \in Requests, HSet(r),
           NEW d \in Devices, Adding(d)' \subseteq Adding(d)
    PROVE  Bounded(d)'
  <1>1. /\ pc[r] = "hset" /\ pc'[r] = "hexpire"
        /\ listed' = listed \union {cur[r]}
        /\ UNCHANGED <<now, token, fieldExp, op, need, todo, cur>>
    BY DEF HSet, Goto, TypeInv, TypeOK
  <1>2. r \in InFlight /\ todo[r] = {}
    <2>1. r \in InFlight
      BY <1>1 DEF InFlight
    <2>2. KindOK(r) /\ RevokingOK(r)
      BY <2>1 DEF RevokeInv
    <2>3. op[r].kind \in {"sign_in", "token_refresh"}
      BY <1>1, <2>2 DEF KindOK
    <2>4. op[r].kind # "api"
      BY <2>3
    <2>5. QED
      BY <1>1, <2>1, <2>2, <2>4 DEF RevokingOK
  <1>3. Refreshes(d)' \subseteq Refreshes(d) \union {cur[r]}
    BY <1>1 DEF Refreshes, ActiveList, FieldLive, Issued
  <1>4. CASE cur[r] \notin Refreshes(d)'
    <2>1. Refreshes(d)' \subseteq Refreshes(d)
      BY <1>3, <1>4
    <2>2. QED
      BY <1>1, <2>1, BoundShrinks DEF BoundInv
  <1>5. CASE cur[r] \in Refreshes(d)'
    <2>1. token[cur[r]].dev = d /\ token[cur[r]].type = "refresh"
      BY <1>1, <1>5 DEF Refreshes, ActiveList
    <2>2. op[r].dev = d /\ need[r]
      BY <1>1, <2>1 DEF BoundInv, AddingOK
    <2>3. Adds(r)
      BY <1>1, <2>2 DEF Adds
    <2>4. r \in Adding(d)
      BY <1>2, <2>2, <2>3 DEF Adding
    <2>5. r \notin Adding(d)'
      <3>1. token'[cur'[r]].type # "access"
        BY <1>1, <2>1
      <3>2. ~Adds(r)'
        BY <1>1, <3>1 DEF Adds
      <3>3. QED
        BY <3>2 DEF Adding
    <2>6. IsFiniteSet(Refreshes(d))
      BY DEF BoundInv, BoundOK, Bounded
    <2>7. IsFiniteSet(Refreshes(d)')
      <3>1. IsFiniteSet(Refreshes(d) \union {cur[r]})
        BY <2>6, FS_AddElement
      <3>2. QED
        BY <1>3, <3>1, FS_Subset
    <2>8. ASSUME NEW R \in SUBSET Adding(d)'
          PROVE  Cardinality(R) + Cardinality(Left(d, R)') <= Concurrency
      <3> DEFINE RR == R \union {r}
      <3>1. RR \in SUBSET Adding(d) /\ R \in SUBSET RR /\ r \notin R
        BY <2>4, <2>5, <2>8
      <3>2. Left(d, R)' \subseteq Left(d, RR) \union {cur[r]}
        BY <1>1, <1>2, <1>3 DEF Left
      <3>3. IsFiniteSet(R)
        BY <3>1, FS_Subset DEF BoundInv, FlightOK, Adding
      <3>4. Cardinality(RR) = Cardinality(R) + 1
        BY <3>1, <3>3, FS_AddElement
      <3>5. IsFiniteSet(Left(d, RR))
        BY <2>6, FS_Subset DEF Left
      <3>6. /\ IsFiniteSet(Left(d, RR) \union {cur[r]})
            /\ Cardinality(Left(d, RR) \union {cur[r]}) <= Cardinality(Left(d, RR)) + 1
        BY <3>5, AddOne
      <3>7. /\ IsFiniteSet(Left(d, R)')
            /\ Cardinality(Left(d, R)') <= Cardinality(Left(d, RR) \union {cur[r]})
        BY <3>2, <3>6, FS_Subset
      <3>8. /\ Cardinality(R) \in Nat /\ Cardinality(Left(d, RR)) \in Nat
            /\ Cardinality(Left(d, R)') \in Nat
            /\ Cardinality(Left(d, RR) \union {cur[r]}) \in Nat
        BY <3>3, <3>5, <3>6, <3>7, FS_CardinalityType
      <3> HIDE DEF RR
      <3>9. Cardinality(R) + Cardinality(Left(d, R)') <= Cardinality(RR) + Cardinality(Left(d, RR))
        BY <3>4, <3>6, <3>7, <3>8
      <3>10. QED
        BY <2>7, <3>1, <3>9, BoundKept DEF BoundInv
    <2>9. QED
      BY <2>7, <2>8 DEF Bounded
  <1>6. QED
    BY <1>4, <1>5

\* The invariant is inductive.
LEMMA BoundStep ==
    TypeInv /\ TypeInv' /\ ListsOK /\ RevokeInv /\ BoundInv /\ [Next]_vars => BoundInv'
  <1> SUFFICES ASSUME TypeInv, TypeInv', ListsOK, RevokeInv, BoundInv, [Next]_vars
               PROVE  BoundInv'
    OBVIOUS
  <1>1. FlightOK' /\ AddingOK'
    BY FlightStep, AddingStep DEF BoundInv
  <1>2. ASSUME NEW d \in Devices PROVE Bounded(d)'
    <2>1. CASE UNCHANGED vars \/ Tick
      <3>1. listed' \subseteq listed /\ UNCHANGED <<pc, op, need, cur, todo>>
        BY <2>1 DEF vars, Tick, redisVars
      <3>2. Refreshes(d)' \subseteq Refreshes(d)
        BY <3>1, RefreshesShrink
      <3>3. Adding(d)' \subseteq Adding(d)
        BY <3>1, NothingTakenBack, AddsOther DEF Adding, InFlight
      <3>4. QED
        BY <3>1, <3>2, <3>3, BoundShrinks DEF BoundInv
    <2>2. ASSUME NEW r \in Requests, HGetAll(r) PROVE Bounded(d)'
      BY <1>1, <2>2, NothingTakenBack, HGetAllBound
    <2>3. ASSUME NEW r \in Requests, Handle(r), ~HGetAll(r) PROVE Bounded(d)'
      <3>1. \A q \in Requests \ {r} :
                pc'[q] = pc[q] /\ op'[q] = op[q] /\ need'[q] = need[q]
                /\ cur'[q] = cur[q] /\ todo'[q] = todo[q]
        BY <2>3, OthersKept
      <3>2. Adding(d)' \subseteq Adding(d)
        <4> SUFFICES ASSUME NEW q \in Adding(d)' PROVE q \in Adding(d)
          OBVIOUS
        <4>1. q \in InFlight' /\ q \in Requests /\ op'[q].dev = d /\ Adds(q)'
          BY DEF Adding, InFlight
        <4>2. CASE q = r
          BY <2>3, <4>1, <4>2, AddsOwn DEF Adding
        <4>3. CASE q # r
          <5>1. Adds(q)
            BY <3>1, <4>1, <4>3, NothingTakenBack, AddsOther
          <5>2. QED
            BY <3>1, <4>1, <4>3, <5>1 DEF Adding, InFlight
        <4>4. QED
          BY <4>2, <4>3
      <3>3. CASE HSet(r)
        BY <3>2, <3>3, HSetBound
      <3>4. CASE ~HSet(r)
        <4>1. listed' \subseteq listed
          <5>1. CASE Arrive(r) \/ SignIn(r) \/ Refuse(r) \/ CheckBlacklist(r) \/ CheckActive(r)
            BY <5>1 DEF Arrive, SignIn, Refuse, CheckBlacklist, CheckActive, redisVars
          <5>2. CASE TokenRefresh(r) \/ SetEx(r) \/ HDel(r) \/ Revoked(r) \/ HExpire(r)
            BY <5>2 DEF TokenRefresh, SetEx, HDel, Revoked, HExpire, redisVars
          <5>3. CASE Respond(r) \/ Abort(r)
            BY <5>3 DEF Respond, Abort, redisVars
          <5>4. QED
            BY <2>3, <3>4, <5>1, <5>2, <5>3 DEF Handle
        <4>2. Refreshes(d)' \subseteq Refreshes(d) /\ Refreshes(d)' \subseteq listed'
          BY <4>1, RefreshesShrink
        <4>3. \A q \in Adding(d)' : \A j \in Refreshes(d)' : j \in todo[q] => j \in todo'[q]
          <5> SUFFICES ASSUME NEW q \in Adding(d)', NEW j \in Refreshes(d)', j \in todo[q]
                       PROVE  j \in todo'[q]
            OBVIOUS
          <5>1. q \in Requests /\ Adds(q)' /\ j \in listed'
            BY <4>2 DEF Adding, InFlight
          <5>2. CASE q = r
            BY <2>3, <5>1, <5>2, AddsOwn
          <5>3. CASE q # r
            BY <3>1, <5>1, <5>3
          <5>4. QED
            BY <5>2, <5>3
        <4>4. QED
          BY <3>2, <4>2, <4>3, BoundShrinks DEF BoundInv
      <3>5. QED
        BY <3>3, <3>4
    <2>4. QED
      BY <2>1, <2>2, <2>3 DEF Next
  <1>3. QED
    BY <1>1, <1>2 DEF BoundInv, BoundOK

\* Concurrent requests do not see the tokens the others are about to add: a
\* device may have several usable refresh tokens at a time, but never more than
\* requests are in flight at one time.
THEOREM RefreshTokensAreBounded == Spec => []LiveRefreshBound
  <1>1. Init => BoundInv
    <2> SUFFICES ASSUME Init PROVE BoundInv
      OBVIOUS
    <2>1. InFlight = {} /\ AddingOK /\ \A d : Refreshes(d) = {}
      BY DEF Init, InFlight, AddingOK, Refreshes, ActiveList, FieldLive
    <2>2. \A d : \A R : Adding(d) = {} /\ Left(d, R) = {}
      BY <2>1 DEF Adding, Left
    <2>3. FlightOK
      BY <2>1, FS_EmptySet, BoundAssumption DEF FlightOK
    <2>4. BoundOK
      BY <2>1, <2>2, FS_EmptySet, BoundAssumption DEF BoundOK, Bounded
    <2>5. QED
      BY <2>1, <2>3, <2>4 DEF BoundInv
  <1>2. BoundInv => LiveRefreshBound
    <2> SUFFICES ASSUME BoundInv, NEW d \in Devices
                 PROVE  Cardinality({j \in ActiveList(d) : token[j].type = "refresh" /\ Usable(j)})
                            <= Concurrency
      BY DEF LiveRefreshBound
    <2> DEFINE Live == {j \in ActiveList(d) : token[j].type = "refresh" /\ Usable(j)}
    <2>1. Left(d, {}) = Refreshes(d) /\ {} \in SUBSET Adding(d)
      BY DEF Left
    <2>2. IsFiniteSet(Refreshes(d)) /\ Cardinality({}) + Cardinality(Refreshes(d)) <= Concurrency
      BY <2>1 DEF BoundInv, BoundOK, Bounded
    <2>3. Live \subseteq Refreshes(d)
      BY DEF Refreshes
    <2>4. Cardinality(Live) <= Cardinality(Refreshes(d)) /\ IsFiniteSet(Live)
      BY <2>2, <2>3, FS_Subset
    <2>5. Cardinality({}) = 0 /\ Cardinality(Live) \in Nat /\ Cardinality(Refreshes(d)) \in Nat
      BY <2>2, <2>4, FS_EmptySet, FS_CardinalityType
    <2> HIDE DEF Live
    <2>6. Cardinality(Live) <= Concurrency
      BY <2>2, <2>4, <2>5, BoundAssumption
    <2>7. QED
      BY <2>6 DEF Live
  <1>3. TypeInv /\ ListsOK /\ RevokeInv /\ BoundInv /\ [Next]_vars
            => TypeInv' /\ ListsOK' /\ RevokeInv' /\ BoundInv'
    BY TypeStep, ListsStep, RevokeStep, BoundStep
  <1>4. Init => RevokeInv
    BY DEF Init, RevokeInv, KnownOK, InFlight
  <1>5. QED
    BY <1>1, <1>2, <1>3, <1>4, InvInit, PTL DEF Spec

-----------------------------------------------------------------------------
(* What a client has when its sign_in or token_refresh succeeds, if requests *)
(* come one at a time                                                        *)

\* One at a time: whoever is in flight is the one that takes the step.
LEMMA Alone ==
    ASSUME Concurrency = 1, FlightOK, NEW r \in InFlight, NEW q \in Requests, Handle(q)
    PROVE  q = r
  <1>1. Cardinality(InFlight) \in Nat /\ Cardinality(InFlight) # 0
    BY FS_CardinalityType, FS_EmptySet DEF FlightOK
  <1>2. ~Begins(q)
    BY <1>1 DEF Begins
  <1>3. q \in InFlight
    BY <1>2 DEF Handle, Arrive, SignIn, Refuse, CheckBlacklist, CheckActive, TokenRefresh,
                HGetAll, SetEx, HDel, Revoked, HSet, HExpire, Respond, Abort, InFlight
  <1>4. SUFFICES ASSUME q # r PROVE FALSE
    OBVIOUS
  <1>5. IsFiniteSet(InFlight \ {r}) /\ Cardinality(InFlight \ {r}) = Cardinality(InFlight) - 1
    BY FS_RemoveElement DEF FlightOK
  <1>6. Cardinality(InFlight \ {r}) = 0
    BY <1>1, <1>5 DEF FlightOK
  <1>7. InFlight \ {r} = {}
    BY <1>5, <1>6, FS_EmptySet
  <1>8. QED
    BY <1>3, <1>4, <1>7

\* A request has neither revoked nor created anything before HGETALL.
UntouchedOK ==
    \A r \in Requests :
        pc[r] \in {"new", "get_blacklist", "check_active", "refresh", "hgetall"} =>
            todo[r] = {} /\ made[r] = {}

\* Every step keeps the entries of a session just made out of reach of the others.
LEMMA UntouchedStep == TypeInv /\ UntouchedOK /\ [Next]_vars => UntouchedOK'
  <1> SUFFICES ASSUME TypeInv, UntouchedOK, [Next]_vars, NEW r \in Requests,
                      pc'[r] \in {"new", "get_blacklist", "check_active", "refresh", "hgetall"}
               PROVE  todo'[r] = {} /\ made'[r] = {}
    BY DEF UntouchedOK
  <1>1. CASE UNCHANGED vars \/ Tick
    BY <1>1 DEF vars, Tick, UntouchedOK
  <1>2. ASSUME NEW q \in Requests, Handle(q), q # r PROVE todo'[r] = {} /\ made'[r] = {}
    BY <1>2, OthersKept DEF UntouchedOK
  <1>3. CASE End(r)
    BY <1>3, EndLocals
  <1>4. CASE Arrive(r) \/ SignIn(r) \/ CheckBlacklist(r) \/ CheckActive(r) \/ TokenRefresh(r)
    BY <1>3, <1>4 DEF Arrive, SignIn, Begins, CheckBlacklist, CheckActive, TokenRefresh,
                      UntouchedOK
  <1>5. CASE HGetAll(r) \/ SetEx(r) \/ HDel(r) \/ HSet(r)
    BY <1>3, <1>5 DEF HGetAll, SetEx, HDel, HSet, Goto, TypeInv, TypeOK
  <1>6. CASE Revoked(r) \/ HExpire(r)
    BY <1>6 DEF Revoked, HExpire, Create, Goto, TypeInv, TypeOK
  <1>7. CASE Refuse(r) \/ Respond(r) \/ Abort(r)
    BY <1>3, <1>7 DEF Refuse, Respond, Abort
  <1>8. QED
    BY <1>1, <1>2, <1>4, <1>5, <1>6, <1>7 DEF Next, Handle

\* What a request has created so far is in the active list and not blacklisted:
\* the access token first, then the refresh token if one is required.
CreatedOK(r) ==
    /\ \A j \in made[r] : j \in listed /\ blacklist[j] = 0
    /\ pc[r] \in {"hset", "hexpire"} =>
         /\ blacklist[cur[r]] = 0
         /\ pc[r] = "hexpire" => cur[r] \in listed
         /\ token[cur[r]].type = "access" => made[r] = {}
         /\ token[cur[r]].type # "access" => need[r] /\ made[r] # {}
         /\ \A j \in made[r] : token[j].type = "access"
    /\ pc[r] = "respond" /\ op[r].kind \in {"sign_in", "token_refresh"} =>
         {token[j].type : j \in made[r]} = IF need[r] THEN TokenTypes ELSE {"access"}

MadeOK(r) ==
    /\ op[r].kind = "sign_in" => need[r]
    /\ pc[r] \in {"revoke", "hdel"} => made[r] = {}
    /\ CreatedOK(r)

\* The presented refresh token is usable until a request that replaces it
\* revokes it.
KeptOK(r) ==
    /\ ~need[r] => (op[r].kind = "token_refresh" => op[r].jti \notin todo[r])
    /\ /\ op[r].kind = "token_refresh"
       /\ pc[r] \in {"check_active", "refresh", "hgetall"}
          \/ (~need[r] /\ pc[r] \in {"revoke", "hdel", "hset", "hexpire", "respond"})
       => /\ ~Blacklisted(op[r].jti)
          /\ pc[r] # "check_active" => op[r].jti \in listed

SessionInv == \A r \in InFlight : MadeOK(r) /\ KeptOK(r)

\* How a request creates its tokens
LEMMA MadeOwn ==
    ASSUME TypeInv, TypeInv', ListsOK, RevokeInv, RevokeInv', UntouchedOK, UntouchedOK',
           Grows, NEW r \in InFlight', r \in Requests, Handle(r),
           r \in InFlight => MadeOK(r)
    PROVE  MadeOK(r)'
  <1>1. pc'[r] \notin {"done", "new"}
    BY DEF InFlight
  <1>2. CASE Arrive(r)
    <2>1. pc'[r] = "get_blacklist"
      BY <1>2 DEF Arrive, Goto, TypeInv, TypeOK
    <2>2. made'[r] = {} /\ op'[r].kind # "sign_in"
      <3>1. KindOK(r)' /\ made'[r] = {}
        BY <2>1 DEF RevokeInv, UntouchedOK
      <3>2. QED
        BY <2>1, <3>1 DEF KindOK
    <2>3. QED
      BY <2>1, <2>2 DEF MadeOK, CreatedOK
  <1>3. CASE SignIn(r)
    <2>1. pc'[r] = "hgetall" /\ need'[r] = TRUE
      BY <1>3 DEF SignIn, Goto, TypeInv, TypeOK
    <2>2. made'[r] = {}
      BY <2>1 DEF UntouchedOK
    <2>3. QED
      BY <2>1, <2>2 DEF MadeOK, CreatedOK
  <1>4. ASSUME ~Arrive(r), ~SignIn(r)
        PROVE  /\ r \in InFlight /\ op'[r] = op[r] /\ KindOK(r) /\ MadeOK(r)
               /\ op[r].kind = "sign_in" => need[r]
    <2>1. r \in InFlight /\ op'[r] = op[r]
      BY <1>1, <1>4, OwnStep
    <2>2. MadeOK(r) /\ KindOK(r)
      BY <2>1 DEF RevokeInv
    <2>3. QED
      BY <2>1, <2>2 DEF MadeOK
  <1>5. CASE End(r)
    BY <1>1, <1>5, EndLocals
  <1>6. ASSUME pc'[r] \in {"get_blacklist", "check_active", "refresh", "hgetall", "revoke",
                           "hdel"}
                \/ (pc'[r] = "respond" /\ op[r].kind \notin {"sign_in", "token_refresh"}),
               ~Arrive(r), ~SignIn(r), need'[r] = need[r], made'[r] = {}
        PROVE  MadeOK(r)'
    <2>1. op'[r].kind = "sign_in" => need'[r]
      BY <1>4, <1>6
    <2>2. QED
      BY <1>4, <1>6, <2>1 DEF MadeOK, CreatedOK
  <1>7. CASE CheckBlacklist(r)
    <2>1. CASE ~End(r)
      <3>1. /\ pc[r] = "get_blacklist" /\ pc'[r] = "check_active"
            /\ need'[r] = need[r] /\ made'[r] = made[r]
        BY <1>7, <2>1 DEF CheckBlacklist, Goto, TypeInv, TypeOK
      <3>2. made[r] = {} /\ ~Arrive(r) /\ ~SignIn(r)
        BY <3>1 DEF UntouchedOK, Arrive, SignIn, Begins
      <3>3. QED
        BY <1>6, <3>1, <3>2
    <2>2. QED
      BY <1>5, <2>1
  <1>8. CASE CheckActive(r)
    <2>1. CASE ~End(r)
      <3>1. /\ pc[r] = "check_active" /\ need'[r] = need[r] /\ made'[r] = made[r]
            /\ Goto(r, CASE op[r].kind = "sign_out" -> "hgetall"
                         [] op[r].kind = "token_refresh" -> "refresh"
                         [] OTHER -> "respond")
        BY <1>8, <2>1 DEF CheckActive
      <3>2. made[r] = {} /\ ~Arrive(r) /\ ~SignIn(r)
        BY <3>1 DEF UntouchedOK, Arrive, SignIn, Begins
      <3>3. op[r].kind # "sign_in"
        BY <1>4, <3>1, <3>2 DEF KindOK
      <3>4. pc'[r] \in {"refresh", "hgetall"}
            \/ (pc'[r] = "respond" /\ op[r].kind \notin {"sign_in", "token_refresh"})
        BY <3>1, <3>3 DEF Goto, TypeInv, TypeOK
      <3>5. QED
        BY <1>6, <3>1, <3>2, <3>4
    <2>2. QED
      BY <1>5, <2>1
  <1>9. CASE TokenRefresh(r)
    <2>1. pc[r] = "refresh" /\ pc'[r] = "hgetall" /\ made'[r] = made[r]
          /\ ~Arrive(r) /\ ~SignIn(r)
      BY <1>9 DEF TokenRefresh, Goto, TypeInv, TypeOK, Arrive, SignIn, Begins
    <2>2. made[r] = {} /\ op'[r].kind # "sign_in"
      BY <1>4, <2>1 DEF UntouchedOK, KindOK
    <2>3. QED
      BY <2>1, <2>2 DEF MadeOK, CreatedOK
  <1>10. CASE HGetAll(r)
    <2>1. /\ pc[r] = "hgetall" /\ pc'[r] = "revoke" /\ need'[r] = need[r] /\ made'[r] = made[r]
          /\ ~Arrive(r) /\ ~SignIn(r)
      BY <1>10 DEF HGetAll, Goto, TypeInv, TypeOK, Arrive, SignIn, Begins
    <2>2. made[r] = {}
      BY <2>1 DEF UntouchedOK
    <2>3. QED
      BY <1>6, <2>1, <2>2
  <1>11. CASE SetEx(r) \/ HDel(r)
    <2>1. CASE ~End(r)
      <3>1. /\ pc[r] \in {"revoke", "hdel"} /\ pc'[r] \in {"revoke", "hdel"}
            /\ need'[r] = need[r] /\ made'[r] = made[r]
            /\ ~Arrive(r) /\ ~SignIn(r)
        BY <1>11, <2>1 DEF SetEx, HDel, Goto, TypeInv, TypeOK, Arrive, SignIn, Begins
      <3>2. made[r] = {}
        BY <1>4, <3>1 DEF MadeOK
      <3>3. QED
        BY <1>6, <3>1, <3>2
    <2>2. QED
      BY <1>5, <2>1
  <1>12. CASE Revoked(r)
    <2>1. /\ pc[r] = "revoke" /\ need'[r] = need[r] /\ made'[r] = made[r]
          /\ blacklist' = blacklist /\ ~Arrive(r) /\ ~SignIn(r)
      BY <1>12 DEF Revoked, redisVars, Arrive, SignIn, Begins
    <2>2. made[r] = {}
      BY <1>4, <2>1 DEF MadeOK
    <2>3. CASE op[r].kind = "sign_out" /\ Goto(r, "respond")
      <3>1. pc'[r] = "respond"
        BY <2>3 DEF Goto, TypeInv, TypeOK
      <3>2. QED
        BY <1>6, <2>1, <2>2, <2>3, <3>1
    <2>4. CASE Create(r, "access")
      <3>1. r \in InFlight /\ "access" \in TokenTypes
        BY <2>1 DEF InFlight, TokenTypes
      <3>2. /\ cur'[r] \in Issued' /\ cur'[r] \notin Issued /\ pc'[r] = "hset"
            /\ token'[cur'[r]].type = "access"
        BY <2>4, <3>1, CreateIssues, CreatedToken DEF TypeInv, TypeOK
      <3>3. blacklist'[cur'[r]] = 0
        BY <2>1, <3>2 DEF ListsOK, FreshOK, UsedTokens, Issued
      <3>4. op'[r].kind = "sign_in" => need'[r]
        BY <1>4, <2>1
      <3>5. QED
        BY <2>1, <2>2, <3>2, <3>3, <3>4 DEF MadeOK, CreatedOK
    <2>5. QED
      BY <1>12, <2>3, <2>4 DEF Revoked
  <1>13. CASE HSet(r)
    <2>1. /\ pc[r] = "hset" /\ pc'[r] = "hexpire" /\ need'[r] = need[r] /\ made'[r] = made[r]
          /\ listed' = listed \union {cur[r]} /\ cur'[r] = cur[r]
          /\ blacklist' = blacklist /\ token' = token /\ ~Arrive(r) /\ ~SignIn(r)
      BY <1>13 DEF HSet, Goto, TypeInv, TypeOK, Arrive, SignIn, Begins
    <2>2. CreatedOK(r)
      BY <1>4, <2>1 DEF MadeOK
    <2>3. token[cur[r]].type # "access" => need'[r]
      BY <2>1, <2>2 DEF CreatedOK
    <2>4. op'[r].kind = "sign_in" => need'[r]
      BY <1>4, <2>1
    <2>5. CreatedOK(r)'
      BY <2>1, <2>2, <2>3 DEF CreatedOK
    <2>6. QED
      BY <2>1, <2>4, <2>5 DEF MadeOK
  <1>14. CASE HExpire(r)
    <2>1. /\ pc[r] = "hexpire" /\ need'[r] = need[r] /\ made'[r] = made[r] \union {cur[r]}
          /\ listed' = listed /\ blacklist' = blacklist /\ ~Arrive(r) /\ ~SignIn(r)
      BY <1>14 DEF HExpire, TypeInv, TypeOK, Arrive, SignIn, Begins
    <2>2. CreatedOK(r)
      BY <1>4, <2>1 DEF MadeOK
    <2>3. op'[r].kind = "sign_in" => need'[r]
      BY <1>4, <2>1
    <2>4. /\ cur[r] \in Issued /\ token[cur[r]].type \in TokenTypes /\ made[r] \subseteq Issued
          /\ \A j \in made'[r] : token'[j] = token[j]
      <3>1. cur[r] \in Issued /\ made[r] \subseteq Issued
        BY <2>1 DEF TypeInv, TypeOK, LocalsOK
      <3>2. token[cur[r]].type \in TokenTypes
        BY <3>1 DEF TypeInv, TypeOK, Issued, Token
      <3>3. QED
        BY <2>1, <3>1, <3>2 DEF Grows
    <2>5. \A j \in made'[r] : j \in listed' /\ blacklist'[j] = 0
      BY <2>1, <2>2 DEF CreatedOK
    <2>6. CASE need[r] /\ token[cur[r]].type = "access" /\ Create(r, "refresh")
      <3>1. r \in InFlight /\ "refresh" \in TokenTypes
        BY <2>1 DEF InFlight, TokenTypes
      <3>2. /\ cur'[r] \in Issued' /\ cur'[r] \notin Issued /\ pc'[r] = "hset"
            /\ token'[cur'[r]].type = "refresh"
        BY <2>6, <3>1, CreateIssues, CreatedToken DEF TypeInv, TypeOK
      <3>3. blacklist'[cur'[r]] = 0
        BY <2>1, <3>2 DEF ListsOK, FreshOK, UsedTokens, Issued
      <3>4. need'[r] /\ made'[r] # {} /\ \A j \in made'[r] : token'[j].type = "access"
        BY <2>1, <2>2, <2>4, <2>6 DEF CreatedOK
      <3>5. CreatedOK(r)'
        BY <2>5, <3>2, <3>3, <3>4 DEF CreatedOK
      <3>6. QED
        BY <2>3, <3>2, <3>5 DEF MadeOK
    <2>7. CASE ~(need[r] /\ token[cur[r]].type = "access") /\ Goto(r, "respond")
      <3>1. pc'[r] = "respond"
        BY <2>7 DEF Goto, TypeInv, TypeOK
      <3>2. CASE token[cur[r]].type = "access"
        <4>1. ~need'[r] /\ {token'[j].type : j \in made'[r]} = {"access"}
          BY <2>1, <2>2, <2>4, <2>7, <3>2 DEF CreatedOK
        <4>2. CreatedOK(r)'
          BY <2>5, <3>1, <4>1 DEF CreatedOK
        <4>3. QED
          BY <2>3, <3>1, <4>2 DEF MadeOK
      <3>3. CASE token[cur[r]].type # "access"
        <4>1. need'[r] /\ made[r] # {} /\ token[cur[r]].type = "refresh"
              /\ \A j \in made[r] : token[j].type = "access"
          BY <2>1, <2>2, <2>4, <3>3 DEF CreatedOK, TokenTypes
        <4>2. {token'[j].type : j \in made'[r]} = TokenTypes
          BY <2>1, <2>4, <4>1 DEF TokenTypes
        <4>3. CreatedOK(r)'
          BY <2>5, <3>1, <4>1, <4>2 DEF CreatedOK
        <4>4. QED
          BY <2>3, <3>1, <4>3 DEF MadeOK
      <3>4. QED
        BY <3>2, <3>3
    <2>8. QED
      BY <1>14, <2>6, <2>7 DEF HExpire
  <1>15. CASE Refuse(r) \/ Respond(r) \/ Abort(r)
    BY <1>5, <1>15 DEF Refuse, Respond, Abort
  <1>16. QED
    BY <1>2, <1>3, <1>7, <1>8, <1>9, <1>10, <1>11, <1>12, <1>13, <1>14, <1>15 DEF Handle

\* What becomes of the presented refresh token
LEMMA KeptOwn ==
    ASSUME TypeInv, TypeInv', ListsOK, RevokeInv, RevokeInv', UntouchedOK, UntouchedOK',
           NEW r \in InFlight', r \in Requests, Handle(r),
           r \in InFlight => KeptOK(r)
    PROVE  KeptOK(r)'
  <1>1. pc'[r] \notin {"done", "new"}
    BY DEF InFlight
  <1>2. ASSUME todo'[r] = {},
               op'[r].kind # "token_refresh" \/ pc'[r] = "get_blacklist"
        PROVE  KeptOK(r)'
    BY <1>2 DEF KeptOK
  <1>3. CASE Arrive(r)
    <2>1. pc'[r] = "get_blacklist"
      BY <1>3 DEF Arrive, Goto, TypeInv, TypeOK
    <2>2. QED
      BY <1>2, <2>1 DEF UntouchedOK
  <1>4. CASE SignIn(r)
    <2>1. pc'[r] = "hgetall" /\ op'[r].kind = "sign_in"
      BY <1>4 DEF SignIn, Goto, TypeInv, TypeOK
    <2>2. op'[r].kind # "token_refresh" /\ todo'[r] = {}
      BY <2>1 DEF UntouchedOK
    <2>3. QED
      BY <1>2, <2>2
  <1>5. CASE End(r)
    BY <1>1, <1>5, EndLocals
  <1>6. ASSUME ~Arrive(r), ~SignIn(r)
        PROVE  r \in InFlight /\ op'[r] = op[r] /\ KindOK(r) /\ KeptOK(r)
    <2>1. r \in InFlight /\ op'[r] = op[r]
      BY <1>1, <1>6, OwnStep
    <2>2. QED
      BY <2>1 DEF RevokeInv
  <1>7. CASE CheckBlacklist(r)
    <2>1. CASE ~End(r)
      <3>1. /\ pc[r] = "get_blacklist" /\ pc'[r] = "check_active" /\ todo'[r] = todo[r]
            /\ ~Blacklisted(op[r].jti) /\ UNCHANGED <<now, blacklist, op>>
        BY <1>7, <2>1 DEF CheckBlacklist, Goto, redisVars, TypeInv, TypeOK
      <3>2. todo'[r] = {}
        BY <3>1 DEF UntouchedOK
      <3>3. QED
        BY <3>1, <3>2 DEF KeptOK, Blacklisted
    <2>2. QED
      BY <1>5, <2>1
  <1>8. CASE CheckActive(r)
    <2>1. CASE ~End(r)
      <3>1. /\ pc[r] = "check_active" /\ todo'[r] = todo[r]
            /\ op[r].jti \in ActiveList(op[r].dev)
            /\ UNCHANGED <<now, blacklist, listed, op, need>>
            /\ ~Arrive(r) /\ ~SignIn(r)
        BY <1>8, <2>1 DEF CheckActive, redisVars, Arrive, SignIn, Begins
      <3>2. todo'[r] = {} /\ op[r].jti \in listed /\ KeptOK(r)
        BY <1>6, <3>1 DEF UntouchedOK, ActiveList, FieldLive
      <3>3. op[r].kind = "token_refresh" => ~Blacklisted(op[r].jti)
        BY <3>1, <3>2 DEF KeptOK
      <3>4. QED
        BY <3>1, <3>2, <3>3 DEF KeptOK, Blacklisted
    <2>2. QED
      BY <1>5, <2>1
  <1>9. CASE TokenRefresh(r)
    <2>1. /\ pc[r] = "refresh" /\ pc'[r] = "hgetall" /\ todo'[r] = todo[r]
          /\ UNCHANGED <<now, blacklist, listed, op>>
          /\ ~Arrive(r) /\ ~SignIn(r)
      BY <1>9 DEF TokenRefresh, Goto, redisVars, TypeInv, TypeOK, Arrive, SignIn, Begins
    <2>2. todo'[r] = {} /\ KeptOK(r)
      BY <1>6, <2>1 DEF UntouchedOK
    <2>3. op[r].kind = "token_refresh" => ~Blacklisted(op[r].jti) /\ op[r].jti \in listed
      BY <2>1, <2>2 DEF KeptOK
    <2>4. QED
      BY <2>1, <2>2, <2>3 DEF KeptOK, Blacklisted
  <1>10. CASE HGetAll(r)
    <2>1. /\ pc[r] = "hgetall" /\ pc'[r] = "revoke"
          /\ todo'[r] = ActiveList(op[r].dev) \ Kept(r)
          /\ UNCHANGED <<now, blacklist, listed, op, need>>
          /\ ~Arrive(r) /\ ~SignIn(r)
      BY <1>10 DEF HGetAll, Goto, redisVars, TypeInv, TypeOK, Arrive, SignIn, Begins
    <2>2. KeptOK(r)
      BY <1>6, <2>1
    <2>3. op[r].kind = "token_refresh" => ~Blacklisted(op[r].jti) /\ op[r].jti \in listed
      BY <2>1, <2>2 DEF KeptOK
    <2>4. ~need'[r] => (op[r].kind = "token_refresh" => op[r].jti \notin todo'[r])
      BY <2>1 DEF Kept
    <2>5. QED
      BY <2>1, <2>3, <2>4 DEF KeptOK, Blacklisted
  <1>11. ASSUME pc[r] \in {"revoke", "hdel", "hset", "hexpire"},
                pc'[r] \in {"revoke", "hdel", "hset", "hexpire", "respond"},
                need' = need, now' = now,
                todo'[r] \subseteq todo[r],
                op[r].kind = "token_refresh" /\ ~need[r] =>
                    /\ blacklist'[op[r].jti] = blacklist[op[r].jti]
                    /\ op[r].jti \in listed => op[r].jti \in listed'
         PROVE  KeptOK(r)'
    <2>1. KeptOK(r) /\ op'[r] = op[r]
      BY <1>6, <1>11 DEF Arrive, SignIn, Begins
    <2>2. CASE need[r] \/ op[r].kind # "token_refresh"
      <3>1. need'[r] \/ op[r].kind # "token_refresh"
        BY <1>11, <2>2
      <3>2. QED
        BY <1>11, <2>1, <3>1 DEF KeptOK
    <2>3. CASE ~need[r] /\ op[r].kind = "token_refresh"
      <3>1. op[r].jti \notin todo[r] /\ op[r].jti \in listed /\ ~Blacklisted(op[r].jti)
        BY <1>11, <2>1, <2>3 DEF KeptOK
      <3>2. op[r].jti \notin todo'[r] /\ op[r].jti \in listed' /\ ~Blacklisted(op[r].jti)'
        BY <1>11, <2>1, <2>3, <3>1 DEF Blacklisted
      <3>3. QED
        BY <2>1, <3>2 DEF KeptOK
    <2>4. QED
      BY <2>2, <2>3
  <1>12. CASE SetEx(r)
    <2>1. CASE ~End(r)
      <3>1. PICK j \in todo[r] : blacklist' = [blacklist EXCEPT ![j] = now + BlacklistTtl(r, j)]
        BY <1>12, <2>1 DEF SetEx
      <3>2. /\ pc[r] = "revoke" /\ pc'[r] = "hdel" /\ todo'[r] = todo[r]
            /\ UNCHANGED <<now, need, listed>> /\ ~Arrive(r) /\ ~SignIn(r)
        BY <1>12, <2>1 DEF SetEx, Goto, TypeInv, TypeOK, Arrive, SignIn, Begins
      <3>3. KeptOK(r)
        BY <1>6, <3>2
      <3>4. op[r].kind = "token_refresh" /\ ~need[r] => op[r].jti # j
        BY <3>1, <3>3 DEF KeptOK
      <3>5. j \in Jti
        BY DEF TypeInv, TypeOK, Issued
      <3>6. op[r].kind = "token_refresh" /\ ~need[r] =>
                blacklist'[op[r].jti] = blacklist[op[r].jti]
        BY <3>1, <3>4, <3>5 DEF TypeInv, TypeOK
      <3>7. QED
        BY <1>11, <3>2, <3>6
    <2>2. QED
      BY <1>5, <2>1
  <1>13. CASE HDel(r)
    <2>1. /\ pc[r] = "hdel" /\ pc'[r] = "revoke" /\ todo'[r] \subseteq todo[r]
          /\ listed' = listed \ {cur[r]}
          /\ UNCHANGED <<now, need, blacklist>> /\ ~Arrive(r) /\ ~SignIn(r)
      BY <1>13 DEF HDel, Goto, TypeInv, TypeOK, Arrive, SignIn, Begins
    <2>2. KeptOK(r) /\ cur[r] \in todo[r]
      BY <1>6, <2>1 DEF ListsOK, TodoOK
    <2>3. op[r].kind = "token_refresh" /\ ~need[r] => op[r].jti # cur[r]
      BY <2>2 DEF KeptOK
    <2>4. QED
      BY <1>11, <2>1, <2>3
  <1>14. CASE Revoked(r) \/ HSet(r) \/ HExpire(r)
    <2>1. pc'[r] \in {"hset", "hexpire", "respond"}
      BY <1>14 DEF Revoked, HSet, HExpire, Create, Goto, TypeInv, TypeOK
    <2>2. QED
      BY <1>11, <1>14, <2>1 DEF Revoked, HSet, HExpire, redisVars
  <1>15. CASE Refuse(r) \/ Respond(r) \/ Abort(r)
    BY <1>5, <1>15 DEF Refuse, Respond, Abort
  <1>16. QED
    BY <1>3, <1>4, <1>7, <1>8, <1>9, <1>10, <1>12, <1>13, <1>14, <1>15 DEF Handle

\* The clock alone brings no key back.
LEMMA SessionWaits ==
    ASSUME TypeInv, AccessInv, SessionInv, NEW r \in InFlight', now' \in Nat, now <= now',
           UNCHANGED <<token, redisVars, pc, op, need, todo, cur, made>>
    PROVE  MadeOK(r)' /\ KeptOK(r)'
  <1>1. r \in InFlight /\ r \in Requests /\ MadeOK(r) /\ KeptOK(r) /\ AccessOK(r)
    BY DEF InFlight, SessionInv, AccessInv
  <1>2. op'[r].kind = "sign_in" => need'[r]
    BY <1>1 DEF MadeOK
  <1>3. CreatedOK(r)'
    BY <1>1 DEF MadeOK, CreatedOK, redisVars
  <1>4. MadeOK(r)'
    BY <1>1, <1>2, <1>3 DEF MadeOK
  <1>5. op[r].kind = "token_refresh" => op[r].jti \in Jti
    BY <1>1 DEF AccessOK, TypeInv, TypeOK, Issued
  <1>6. op[r].kind = "token_refresh" /\ ~Blacklisted(op[r].jti) => ~Blacklisted(op[r].jti)'
    BY <1>5 DEF Blacklisted, redisVars, TypeInv, TypeOK
  <1>7. ~need'[r] => ~need[r]
    OBVIOUS
  <1>8. KeptOK(r)'
    BY <1>1, <1>6, <1>7 DEF KeptOK, redisVars
  <1>9. QED
    BY <1>4, <1>8

\* The invariant of one request at a time
LEMMA SessionStep ==
    ASSUME Concurrency = 1
    PROVE  TypeInv /\ TypeInv' /\ ListsOK /\ RevokeInv /\ RevokeInv' /\ AccessInv /\ FlightOK
           /\ UntouchedOK /\ UntouchedOK' /\ SessionInv /\ [Next]_vars => SessionInv'
  <1> SUFFICES ASSUME TypeInv, TypeInv', ListsOK, RevokeInv, RevokeInv', AccessInv, FlightOK,
                      UntouchedOK, UntouchedOK', SessionInv, [Next]_vars, NEW r \in InFlight'
               PROVE  MadeOK(r)' /\ KeptOK(r)'
    BY DEF SessionInv
  <1>1. Grows /\ r \in Requests
    BY NothingTakenBack DEF InFlight
  <1>2. CASE UNCHANGED vars \/ Tick
    <2>1. now' \in Nat /\ now <= now'
      BY <1>1 DEF Grows, TypeInv, TypeOK
    <2>2. UNCHANGED <<token, redisVars, pc, op, need, todo, cur, made>>
      BY <1>2 DEF vars, Tick, redisVars
    <2>3. QED
      BY <2>1, <2>2, SessionWaits
  <1>3. ASSUME NEW q \in Requests, Handle(q) PROVE q = r
    <2>1. SUFFICES ASSUME q # r PROVE FALSE
      OBVIOUS
    <2>2. pc'[r] = pc[r]
      BY <1>1, <1>3, <2>1, OthersKept
    <2>3. r \in InFlight
      BY <2>2 DEF InFlight
    <2>4. QED
      BY <1>3, <2>1, <2>3, Alone
  <1>4. CASE Handle(r)
    BY <1>1, <1>4, MadeOwn, KeptOwn DEF SessionInv
  <1>5. QED
    BY <1>2, <1>3, <1>4 DEF Next

\* Until its last second, a listed token that is not blacklisted is usable.
LEMMA LiveField ==
    ASSUME TypeInv, FieldTtlOK, NEW j \in listed, ~Blacklisted(j), now + Second <= token[j].exp
    PROVE  Usable(j)
  <1>1. j \in Issued /\ j \in Jti
    BY DEF TypeInv, TypeOK, Issued
  <1>2. /\ now \in Nat /\ token[j].exp \in Nat /\ fieldExp[j] \in Nat /\ Second \in Nat \ {0}
    BY <1>1, SecondAssumption DEF TypeInv, TypeOK, Issued, Token
  <1>3. FieldLive(j)
    BY <1>2 DEF FieldTtlOK, FieldLive
  <1>4. now < token[j].exp
    BY <1>2
  <1>5. QED
    BY <1>1, <1>3, <1>4 DEF Usable

\* If requests come one at a time, whatever cuts them off, a sign_in or
\* token_refresh that succeeds leaves the client with an access token and a
\* refresh token that are usable until their last second.
THEOREM SuccessLeavesASession == ASSUME Concurrency = 1 PROVE Spec => []NewSessionUsable
  <1>1. Init => FlightOK
    <2>1. Init => InFlight = {}
      BY DEF Init, InFlight
    <2>2. QED
      BY <2>1, FS_EmptySet DEF FlightOK
  <1>2. Init => AccessInv /\ RevokeInv /\ UntouchedOK /\ FieldTtlOK /\ SessionInv
    BY DEF Init, AccessInv, RevokeInv, KnownOK, UntouchedOK, FieldTtlOK, SessionInv, InFlight
  <1>3. TypeInv /\ AccessInv /\ FieldTtlOK /\ SessionInv => NewSessionUsable
    <2> SUFFICES ASSUME TypeInv, AccessInv, FieldTtlOK, SessionInv, NEW r \in Requests,
                        pc[r] = "respond", op[r].kind \in {"sign_in", "token_refresh"}
                 PROVE  /\ {"access", "refresh"} = {token[j].type : j \in made[r] \union Kept(r)}
                        /\ \A j \in made[r] \union Kept(r) :
                              now + Second <= token[j].exp => Usable(j)
      BY DEF NewSessionUsable
    <2>1. MadeOK(r) /\ KeptOK(r) /\ AccessOK(r)
      BY DEF InFlight, SessionInv, AccessInv
    <2>2. CreatedOK(r)
      BY <2>1 DEF MadeOK
    <2>3. {token[j].type : j \in made[r]} = IF need[r] THEN TokenTypes ELSE {"access"}
      BY <2>2 DEF CreatedOK
    <2>4. CASE need[r]
      <3>1. Kept(r) = {}
        BY <2>4 DEF Kept
      <3>2. \A j \in made[r] : j \in listed /\ ~Blacklisted(j)
        BY <2>2 DEF CreatedOK, Blacklisted, TypeInv, TypeOK
      <3>3. QED
        BY <2>3, <2>4, <3>1, <3>2, LiveField DEF TokenTypes
    <2>5. CASE ~need[r]
      <3>1. op[r].kind = "token_refresh"
        BY <2>1, <2>5 DEF MadeOK
      <3>2. Kept(r) = {op[r].jti}
        BY <2>5, <3>1 DEF Kept
      <3>3. token[op[r].jti].type = "refresh"
        BY <2>1, <3>1 DEF AccessOK, RequiredType
      <3>4. op[r].jti \in listed /\ ~Blacklisted(op[r].jti)
        BY <2>1, <2>5, <3>1 DEF KeptOK
      <3>5. \A j \in made[r] : j \in listed /\ ~Blacklisted(j)
        BY <2>2 DEF CreatedOK, Blacklisted, TypeInv, TypeOK
      <3>6. {token[j].type : j \in made[r] \union Kept(r)}
                = {token[j].type : j \in made[r]} \union {token[op[r].jti].type}
        BY <3>2
      <3>7. QED
        BY <2>3, <2>5, <3>2, <3>3, <3>4, <3>5, <3>6, LiveField
    <2>6. QED
      BY <2>4, <2>5
  <1>4. TypeInv /\ ListsOK /\ RevokeInv /\ AccessInv /\ FlightOK /\ UntouchedOK /\ FieldTtlOK
        /\ SessionInv /\ [Next]_vars
            => /\ TypeInv' /\ ListsOK' /\ RevokeInv' /\ AccessInv' /\ FlightOK' /\ UntouchedOK'
               /\ FieldTtlOK' /\ SessionInv'
    BY TypeStep, ListsStep, RevokeStep, AccessStep, FlightStep, UntouchedStep, FieldTtlStep,
       SessionStep
  <1>5. QED
    BY <1>1, <1>2, <1>3, <1>4, InvInit, PTL DEF Spec
=============================================================================
