------------------------------- MODULE Tokens -------------------------------
(***************************************************************************)
(* The JWT sessions of app_backend: the list of active tokens and the      *)
(* blacklist that the service keeps in Redis, the verification every       *)
(* protected request goes through (main.verify_token) and the operations   *)
(* that issue and revoke tokens (UserService.sign_in, token_refresh and    *)
(* sign_out).                                                              *)
(*                                                                         *)
(* A request is a coroutine: whatever runs between two awaits is one       *)
(* action, and every await of a Redis command that reads or writes the     *)
(* token lists is the end of one, so the steps of several requests         *)
(* interleave as they do in the event loop and in the worker processes.    *)
(*                                                                         *)
(* Time is counted in ticks, Second of them to a second, because the code  *)
(* mixes microseconds (utcnow) with the whole seconds of the exp claim and *)
(* of the TTLs that redis-py passes on.                                    *)
(***************************************************************************)
EXTENDS Integers, FiniteSets

CONSTANTS
    Kinds,       \* the endpoints that are called; "api" stands for every protected
                 \* endpoint that does not touch the token lists
    Requests,    \* the requests that come: a bound on the length of a run
    Concurrency, \* how many of them are in flight at one time
    Devices,     \* user and device (device_id::user_agent) pairs, one active list each
    Jti,         \* token identifiers, numbered: a bound on the tokens issued in a run
    NoJti,       \* "no token" in a request's local variables
    Second,      \* ticks per second
    AccessLife,  \* authjwt_access_token_expires, in seconds
    RefreshLife, \* authjwt_refresh_token_expires, in seconds
    MaxTime,     \* bound on the clock, in ticks
    Faults       \* whether a request may be cut off between two awaits

ASSUME SecondAssumption == Second \in Nat \ {0}
ASSUME LifeAssumption ==
    /\ AccessLife \in Nat /\ RefreshLife \in Nat
    /\ 1 < AccessLife /\ AccessLife < RefreshLife
ASSUME KindsAssumption == Kinds \subseteq {"sign_in", "token_refresh", "sign_out", "api"}
ASSUME BoundAssumption ==
    Concurrency \in Nat /\ MaxTime \in Nat /\ Faults \in BOOLEAN
ASSUME JtiAssumption == Jti \subseteq Nat /\ NoJti \notin Jti

VARIABLES
    now,       \* the wall clock, shared by the service, Redis and the exp claims
    token,     \* token[j]: the claims of the token with identifier j
    held,      \* the tokens that were sent to a client in a cookie
    listed,    \* the fields of the active-list hashes (HSET and not HDEL)
    fieldExp,  \* fieldExp[j]: when the field expires, 0 while HEXPIRE was not run
    blacklist, \* blacklist[j]: when the blacklist key expires, 0 if never set
    pc,        \* pc[r]: the await the request is suspended at
    op,        \* op[r]: which endpoint it serves, for which device and token
    dt,        \* dt[r]: the last utcnow() the coroutine keeps
    need,      \* need[r]: is_refresh_token_required
    todo,      \* todo[r]: the rest of the HGETALL reply being iterated
    cur,       \* cur[r]: the token of the current iteration or addition
    made       \* made[r]: the tokens this request generated

vars == <<now, token, held, listed, fieldExp, blacklist,
          pc, op, dt, need, todo, cur, made>>
redisVars == <<listed, fieldExp, blacklist>>

TokenTypes == {"access", "refresh"}
NoToken == [type |-> "none"]
Token == [type : TokenTypes, dev : Devices, exp : Nat]

\* What a request is; two fields are history and steer nothing: revoked
\* (was the presented token blacklisted before the request came?) and before
\* (the tokens that clients held when the request came).
NoOp == [kind |-> "none"]
Op == [kind : Kinds, dev : Devices, jti : Jti \union {NoJti},
       revoked : BOOLEAN, before : SUBSET Jti]

Life(type) == Second * (IF type = "access" THEN AccessLife ELSE RefreshLife)

\* int(timedelta.total_seconds()) and int(timestamp) of a non-negative value
WholeSeconds(ticks) == (ticks \div Second) * Second

Issued == {j \in Jti : token[j] # NoToken}

\* The field is visible to HEXISTS and HGETALL.
FieldLive(j) == j \in listed /\ (fieldExp[j] = 0 \/ now < fieldExp[j])

\* GET of the blacklist key answers "true".
Blacklisted(j) == now < blacklist[j]

ActiveList(d) == {j \in Issued : token[j].dev = d /\ FieldLive(j)}

\* A verification whose reads all happened now would accept the token.
Usable(j) ==
    /\ j \in Issued /\ FieldLive(j) /\ ~Blacklisted(j)
    /\ now < token[j].exp

\* The type of token that an endpoint requires
RequiredType(kind) == IF kind = "token_refresh" THEN "refresh" ELSE "access"

Init ==
    /\ now = 0
    /\ token = [j \in Jti |-> NoToken]
    /\ held = {} /\ listed = {}
    /\ fieldExp = [j \in Jti |-> 0]
    /\ blacklist = [j \in Jti |-> 0]
    /\ pc = [r \in Requests |-> "new"]
    /\ op = [r \in Requests |-> NoOp]
    /\ dt = [r \in Requests |-> 0]
    /\ need = [r \in Requests |-> FALSE]
    /\ todo = [r \in Requests |-> {}]
    /\ cur = [r \in Requests |-> NoJti]
    /\ made = [r \in Requests |-> {}]

Goto(r, label) == pc' = [pc EXCEPT ![r] = label]

\* The coroutine ends and its locals are gone.
End(r) ==
    /\ Goto(r, "done")
    /\ op' = [op EXCEPT ![r] = NoOp]
    /\ dt' = [dt EXCEPT ![r] = 0]
    /\ need' = [need EXCEPT ![r] = FALSE]
    /\ todo' = [todo EXCEPT ![r] = {}]
    /\ cur' = [cur EXCEPT ![r] = NoJti]
    /\ made' = [made EXCEPT ![r] = {}]

InFlight == {r \in Requests : pc[r] \notin {"new", "done"}}

Begins(r) == pc[r] = "new" /\ Cardinality(InFlight) < Concurrency

Tick ==
    /\ now < MaxTime
    /\ now' = now + 1
    /\ UNCHANGED <<token, held, redisVars, pc, op, dt, need, todo, cur, made>>

-----------------------------------------------------------------------------
(* verify_token and the middleware that calls it *)

\* A request with a token cookie arrives. get_raw_jwt refuses a token whose
\* exp has passed and the type must be the endpoint's; a refused request has
\* no effect and is not a step. The device of the request (the claim and the
\* User-Agent header) need not be the one the token was issued for.
Arrive(r) ==
    /\ Begins(r)
    /\ \E kind \in Kinds \ {"sign_in"}, d \in Devices, j \in held :
        /\ now < token[j].exp
        /\ token[j].type = RequiredType(kind)
        /\ op' = [op EXCEPT ![r] = [kind |-> kind, dev |-> d, jti |-> j,
                                    revoked |-> blacklist[j] # 0, before |-> held]]
    /\ Goto(r, "get_blacklist")
    /\ UNCHANGED <<now, token, held, redisVars, dt, need, todo, cur, made>>

\* The cached user is missing, deleted or blocked, or (token_refresh) the
\* user, the device or their link is not in the database any more.
Refuse(r) ==
    /\ pc[r] \in {"get_blacklist", "refresh"}
    /\ End(r)
    /\ UNCHANGED <<now, token, held, redisVars>>

\* Variant with a fault: the answer of GET is not looked at
CheckBlacklistIgnored(r) ==
    /\ pc[r] = "get_blacklist"
    /\ Goto(r, "check_active")
    /\ UNCHANGED <<now, token, held, redisVars, op, dt, need, todo, cur, made>>

CheckBlacklist(r) ==
    /\ pc[r] = "get_blacklist"
    /\ IF Blacklisted(op[r].jti)
       THEN End(r)
       ELSE /\ Goto(r, "check_active")
            /\ UNCHANGED <<op, dt, need, todo, cur, made>>
    /\ UNCHANGED <<now, token, held, redisVars>>

\* HEXISTS, and then the endpoint up to its first await: sign_out calls
\* revoke_user_device_all_tokens, which reads the clock before HGETALL.
CheckActive(r) ==
    /\ pc[r] = "check_active"
    /\ IF op[r].jti \in ActiveList(op[r].dev)
       THEN /\ Goto(r, CASE op[r].kind = "sign_out" -> "hgetall"
                         [] op[r].kind = "token_refresh" -> "refresh"
                         [] OTHER -> "respond")
            /\ dt' = IF op[r].kind = "sign_out" THEN [dt EXCEPT ![r] = now] ELSE dt
            /\ UNCHANGED <<op, need, todo, cur, made>>
       ELSE End(r)
    /\ UNCHANGED <<now, token, held, redisVars>>

-----------------------------------------------------------------------------
(* sign_in, token_refresh and generate_jtw_tokens up to HGETALL *)

\* verify_confirmation_code succeeded: a new refresh token is required and no
\* token is kept. (A failed verification leaves no trace here.)
SignIn(r) ==
    /\ Begins(r)
    /\ "sign_in" \in Kinds
    /\ \E d \in Devices :
        op' = [op EXCEPT ![r] = [kind |-> "sign_in", dev |-> d, jti |-> NoJti,
                                 revoked |-> FALSE, before |-> held]]
    /\ need' = [need EXCEPT ![r] = TRUE]
    /\ dt' = [dt EXCEPT ![r] = now]
    /\ Goto(r, "hgetall")
    /\ UNCHANGED <<now, token, held, redisVars, todo, cur, made>>

\* A refresh token that would not outlive the new access token is replaced.
IsRefreshTokenRequired(j) == token[j].exp - now <= Life("access")

\* verify_token_user_and_device found its rows.
TokenRefresh(r) ==
    /\ pc[r] = "refresh"
    /\ need' = [need EXCEPT ![r] = IsRefreshTokenRequired(op[r].jti)]
    /\ dt' = [dt EXCEPT ![r] = now]
    /\ Goto(r, "hgetall")
    /\ UNCHANGED <<now, token, held, redisVars, op, todo, cur, made>>

-----------------------------------------------------------------------------
(* revoke_user_device_all_tokens *)

\* Variants with a fault: the presented refresh token is kept although it is
\* replaced; it is revoked although it is not
KeptEvenIfReplaced(r) == IF op[r].kind = "token_refresh" THEN {op[r].jti} ELSE {}
KeptNone(r) == {}

\* refresh_token_jti: the token the revocation skips
Kept(r) == IF op[r].kind = "token_refresh" /\ ~need[r] THEN {op[r].jti} ELSE {}

\* Variant with a fault: only the access tokens are revoked
HGetAllAccess(r) ==
    /\ pc[r] = "hgetall"
    /\ todo' = [todo EXCEPT ![r] = {j \in ActiveList(op[r].dev) : token[j].type = "access"}]
    /\ Goto(r, "revoke")
    /\ UNCHANGED <<now, token, held, redisVars, op, dt, need, cur, made>>

HGetAll(r) ==
    /\ pc[r] = "hgetall"
    /\ todo' = [todo EXCEPT ![r] = ActiveList(op[r].dev) \ Kept(r)]
    /\ Goto(r, "revoke")
    /\ UNCHANGED <<now, token, held, redisVars, op, dt, need, cur, made>>

\* Variants with a fault: every token is blacklisted for the life of an access
\* token; for a second less than it lives
BlacklistTtlOfAccess(r, j) == Life("access")
BlacklistTtlShort(r, j) == WholeSeconds(token[j].exp - dt[r]) - Second

\* The TTL of the blacklist key: dt_current is the time before HGETALL.
BlacklistTtl(r, j) == WholeSeconds(token[j].exp - dt[r])

\* SETEX refuses a TTL of less than a second: the request fails.
SetEx(r) ==
    /\ pc[r] = "revoke"
    /\ \E j \in todo[r] :
        IF dt[r] < token[j].exp /\ BlacklistTtl(r, j) > 0
        THEN /\ blacklist' = [blacklist EXCEPT ![j] = now + BlacklistTtl(r, j)]
             /\ cur' = [cur EXCEPT ![r] = j]
             /\ Goto(r, "hdel")
             /\ UNCHANGED <<op, dt, need, todo, made>>
        ELSE End(r) /\ UNCHANGED blacklist
    /\ UNCHANGED <<now, token, held, listed, fieldExp>>

HDel(r) ==
    /\ pc[r] = "hdel"
    /\ listed' = listed \ {cur[r]}
    /\ fieldExp' = [fieldExp EXCEPT ![cur[r]] = 0]
    /\ todo' = [todo EXCEPT ![r] = @ \ {cur[r]}]
    /\ cur' = [cur EXCEPT ![r] = NoJti]
    /\ Goto(r, "revoke")
    /\ UNCHANGED <<now, token, held, blacklist, op, dt, need, made>>

-----------------------------------------------------------------------------
(* The rest of generate_jtw_tokens, with add_jtw_token_to_active_list: the   *)
(* access token, then the refresh token                                      *)

\* Variant with a fault: the claims do not name the device
NewTokenNoDevice(type, d) ==
    [type |-> type, dev |-> "none", exp |-> WholeSeconds(now) + Life(type)]

NewToken(type, d) == [type |-> type, dev |-> d, exp |-> WholeSeconds(now) + Life(type)]

\* uuid4: never issued before; here, the least such number
FreshJti == {j \in Jti \ Issued : \A i \in Jti \ Issued : j <= i}

\* create_access_token or create_refresh_token; the token is known to the
\* coroutine only until HSET is answered.
Create(r, type) ==
    /\ \E j \in FreshJti :
        /\ token' = [token EXCEPT ![j] = NewToken(type, op[r].dev)]
        /\ cur' = [cur EXCEPT ![r] = j]
    /\ dt' = [dt EXCEPT ![r] = now]
    /\ Goto(r, "hset")

\* The loop of the revocation is over.
Revoked(r) ==
    /\ pc[r] = "revoke" /\ todo[r] = {}
    /\ \/ /\ op[r].kind = "sign_out"
          /\ Goto(r, "respond")
          /\ UNCHANGED <<token, cur, dt>>
       \/ /\ op[r].kind # "sign_out"
          /\ Create(r, "access")
    /\ UNCHANGED <<now, held, redisVars, op, need, todo, made>>

HSet(r) ==
    /\ pc[r] = "hset"
    /\ listed' = listed \union {cur[r]}
    /\ Goto(r, "hexpire")
    /\ UNCHANGED <<now, token, held, fieldExp, blacklist, op, dt, need, todo, cur, made>>

\* Variant with a fault: no HEXPIRE for the refresh token
HExpireAccess(r) ==
    /\ pc[r] = "hexpire"
    /\ fieldExp' = IF token[cur[r]].type = "access"
                   THEN [fieldExp EXCEPT ![cur[r]] =
                            now + WholeSeconds(token[cur[r]].exp - dt[r])]
                   ELSE fieldExp
    /\ made' = [made EXCEPT ![r] = @ \union {cur[r]}]
    /\ IF need[r] /\ token[cur[r]].type = "access"
       THEN Create(r, "refresh")
       ELSE /\ Goto(r, "respond")
            /\ cur' = [cur EXCEPT ![r] = NoJti]
            /\ UNCHANGED <<token, dt>>
    /\ UNCHANGED <<now, held, listed, blacklist, op, need, todo>>

\* HEXPIRE of a field that another request has deleted does nothing.
HExpire(r) ==
    /\ pc[r] = "hexpire"
    /\ fieldExp' = IF cur[r] \in listed
                   THEN [fieldExp EXCEPT ![cur[r]] =
                            now + WholeSeconds(token[cur[r]].exp - dt[r])]
                   ELSE fieldExp
    /\ made' = [made EXCEPT ![r] = @ \union {cur[r]}]
    /\ IF need[r] /\ token[cur[r]].type = "access"
       THEN Create(r, "refresh")
       ELSE /\ Goto(r, "respond")
            /\ cur' = [cur EXCEPT ![r] = NoJti]
            /\ UNCHANGED <<token, dt>>
    /\ UNCHANGED <<now, held, listed, blacklist, op, need, todo>>

\* The response carries the generated tokens in cookies.
Respond(r) ==
    /\ pc[r] = "respond"
    /\ held' = held \union made[r]
    /\ End(r)
    /\ UNCHANGED <<now, token, redisVars>>

\* The worker process dies, the client disconnects, Redis or (after the
\* tokens were generated) the database raises: the request goes no further,
\* and what it has already written to Redis stays.
Abort(r) ==
    /\ Faults
    /\ r \in InFlight
    /\ End(r)
    /\ UNCHANGED <<now, token, held, redisVars>>

Handle(r) ==
    \/ Arrive(r) \/ SignIn(r)
    \/ Refuse(r) \/ CheckBlacklist(r) \/ CheckActive(r) \/ TokenRefresh(r)
    \/ HGetAll(r) \/ SetEx(r) \/ HDel(r) \/ Revoked(r)
    \/ HSet(r) \/ HExpire(r) \/ Respond(r)
    \/ Abort(r)

Next == Tick \/ \E r \in Requests : Handle(r)

Spec == Init /\ [][Next]_vars

-----------------------------------------------------------------------------
(* Properties *)

Labels == {"new", "done", "get_blacklist", "check_active", "refresh", "hgetall", "revoke",
           "hdel", "hset", "hexpire", "respond"}

\* The request is past verify_token.
Verified(r) == r \in InFlight /\ pc[r] \notin {"get_blacklist", "check_active"}

\* Every variable has its type.
TypeOK ==
    /\ now \in Nat
    /\ token \in [Jti -> Token \union {NoToken}]
    /\ held \subseteq Issued /\ listed \subseteq Issued
    /\ fieldExp \in [Jti -> Nat]
    /\ blacklist \in [Jti -> Nat]
    /\ pc \in [Requests -> Labels]
    /\ op \in [Requests -> Op \union {NoOp}]
    /\ dt \in [Requests -> Nat]
    /\ need \in [Requests -> BOOLEAN]
    /\ todo \in [Requests -> SUBSET Issued]
    /\ cur \in [Requests -> Issued \union {NoJti}]
    /\ made \in [Requests -> SUBSET Issued]

\* SETEX and HDEL are two commands, the TTL of the blacklist key is rounded
\* down, and either command may be the last thing its request does. Still a
\* token that was blacklisted is not accepted again, except in the last second
\* before its exp, when the rounded TTL may already have run out.
RevokedUntilLastSecond ==
    \A j \in Issued :
        blacklist[j] # 0 /\ now + Second <= token[j].exp => ~Usable(j)

\* verify_token reads the blacklist and the active list in two commands, and
\* other requests revoke in between. A request that arrives with a token that
\* was already revoked does not get past it (but for that last second).
NoRevokedAccess ==
    \A r \in Requests :
        Verified(r) /\ op[r].revoked =>
            token[op[r].jti].exp < now + Second

\* Once the revocation loop of a sign_in, token_refresh or sign_out is over,
\* none of the tokens that a client held for the device when the request came
\* is in the active list, but the refresh token that token_refresh keeps.
RevokesAllHeldBefore ==
    \A r \in Requests :
        pc[r] \in {"hset", "hexpire", "respond"} /\ op[r].kind # "api" =>
            ActiveList(op[r].dev) \intersect op[r].before \subseteq Kept(r)

\* Each concurrent request can add at most one refresh token that the others
\* do not see: the usable refresh tokens of a device never outnumber the
\* requests in flight at one time. (With one at a time a device has one.)
LiveRefreshBound ==
    \A d \in Devices :
        Cardinality({j \in ActiveList(d) : token[j].type = "refresh" /\ Usable(j)})
            <= Concurrency

\* HSET and HEXPIRE are two commands, SETEX and HDEL are two more, requests that
\* overlap meet between them, and any of the four may be the last thing a request
\* does. Still a token that a client holds and nobody has revoked is in the active
\* list, with a TTL that lasts until the last second of the token: only tokens that
\* no client ever got can be left there without one.
HeldUntilRevoked ==
    \A j \in held : blacklist[j] = 0 =>
        j \in listed /\ fieldExp[j] # 0 /\ token[j].exp < fieldExp[j] + Second

\* A sign_in or token_refresh that succeeds leaves the client with a session:
\* until its last second the new access token is usable, and so is the new
\* refresh token or the one that was kept. (One request at a time:
\* otherwise a sign_out may come in between.)
NewSessionUsable ==
    \A r \in Requests :
        pc[r] = "respond" /\ op[r].kind \in {"sign_in", "token_refresh"} =>
            /\ {"access", "refresh"} = {token[j].type : j \in made[r] \union Kept(r)}
            /\ \A j \in made[r] \union Kept(r) : now + Second <= token[j].exp => Usable(j)

\* The tokens that are good until their last second
LiveTokens(d) == {j \in ActiveList(d) : ~Blacklisted(j) /\ now + Second <= token[j].exp}

\* The tokens whose HSET is still to come are not used yet.
UsedTokens == Issued \ {cur[r] : r \in {q \in Requests : pc[q] = "hset"}}

Abstract == INSTANCE Sessions WITH
    live <- [d \in Devices |-> LiveTokens(d)],
    used <- UsedTokens

\* Whatever the requests interleave with and wherever they are cut off, the
\* token lists keep the promise of Sessions: no token comes back to life.
SessionsSpec == Abstract!Spec
=============================================================================
