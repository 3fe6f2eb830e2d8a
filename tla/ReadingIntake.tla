---------------------------- MODULE ReadingIntake ----------------------------
(***************************************************************************)
(* How a reading gets into the backend, and what TelemetryPipeline leaves  *)
(* out of its processing because it is about time: the freshness check and *)
(* the replay key of RequestIntegrityService, the weather cache and its    *)
(* circuit breaker, and the cached access token of ONE Record.             *)
(*                                                                         *)
(* A client posts an event, and may post it again when it saw no answer;   *)
(* the MQTT broker delivers messages, which nothing checks.  Time passes   *)
(* between any two awaited calls.  Redis drops a key when its time to live *)
(* is over; InMemoryRedis, which is used when Redis is not there at the    *)
(* start, never does, and is empty after a restart.                        *)
(***************************************************************************)
EXTENDS Integers

CONSTANTS
    Posts,          \* HTTP requests: attempts of clients
    Messages,       \* deliveries of the MQTT broker
    Events,         \* pairs of event id and nonce: a reading sent again with
                    \* another nonce is another event
    Freshness,      \* requestFreshnessSeconds
    WeatherTtl,     \* weather.ttlSeconds
    ResetTimeout,   \* resetTimeout of the breaker
    TokenLife,      \* expires_in of an access token
    Skew,           \* tokenRefreshSkewSeconds
    Timestamps,     \* bound: the timestamps clients set
    MaxTime,        \* bound: the clock
    MaxFailures     \* bound: rejected calls and crashes

ASSUME TimesAssumption ==
    /\ {Freshness, WeatherTtl, TokenLife, MaxTime} \subseteq Nat \ {0}
    /\ {Skew, ResetTimeout, MaxFailures} \subseteq Nat
    /\ Timestamps \subseteq Nat
ASSUME AttemptsAssumption == Posts \cap Messages = {} /\ "none" \notin Events

Attempts == Posts \cup Messages
None == "none"

VARIABLES
    now,        \* Date.now(), from 1 on
    timestamp,  \* timestamp[a]: x-timestamp of the request a, by the clock of its
                \* client, who may send an event again with another
    valid,      \* valid[e]: would validateTelemetryReading accept the body?
    expires,    \* is it Redis, and not InMemoryRedis?
    pc,         \* pc[a]: the awaited call attempt a is at, or its answer
    event,      \* event[a]: the event of a, None for a message
    keys,       \* keys[e]: the last moment of the replay key of e, 0 without
    weather,    \* the last moment of the cached weather
    breaker,    \* state and reset time of the weather breaker
    token,      \* the cached token: its last moment in the cache, when the
                \* server gave it out and how much later it was cached
    issued,     \* issued[a]: when the server gave out the token a fetches
    failures,   \* rejected calls and crashes so far
    checked,    \* observation: checked[a], when a passed the freshness check,
    looked,     \* looked[a], when it found no replay key,
    earlier,    \* earlier[a], the attempts whose key it should have met,
    stored,     \* stored[a], when its key was stored, until that is lost,
    ingested,   \* the events whose reading was stored,
    spoiled,    \* the events with an attempt that stored its key and came to nothing,
    handed      \* and handed[a]: the token a was given, and when

requestVars == <<pc, event>>
integrityVars == <<keys, checked, looked, earlier, stored, spoiled>>
weatherVars == <<weather, breaker>>
tokenVars == <<token, issued, handed>>
inputVars == <<timestamp, valid, expires>>
vars == <<now, inputVars, requestVars, integrityVars, weatherVars, tokenVars,
          failures, ingested>>

\* Later than any clock of this run: a key that never expires.
Forever == MaxTime + Freshness + WeatherTtl + TokenLife

Checking == {"lookup", "store"}
Processing == {"weather", "fetch", "save"}
Answering == {"token", "issue", "keep", "patch"}
InFlight == {a \in Attempts : pc[a] \in Checking \cup Processing \cup Answering}

NoToken == [until |-> 0, since |-> 0, lag |-> 0]
NotHanded == [at |-> 0, since |-> 0, lag |-> 0]

TypeOK ==
    /\ now \in 1 .. MaxTime
    /\ timestamp \in [Posts -> Timestamps] /\ valid \in [Events -> BOOLEAN] /\ expires \in BOOLEAN
    /\ pc \in [Attempts -> Checking \cup Processing \cup Answering
                 \cup {"idle", "stale", "replay", "refused", "invalid", "deadletter",
                       "aborted", "done"}]
    /\ event \in [Attempts -> Events \cup {None}]
    /\ keys \in [Events -> 0 .. Forever]
    /\ weather \in 0 .. Forever
    /\ breaker \in [state : {"closed", "open", "trial"}, until : 0 .. MaxTime + ResetTimeout]
    /\ token \in [until : 0 .. Forever, since : 0 .. MaxTime, lag : 0 .. MaxTime]
    /\ issued \in [Attempts -> 0 .. MaxTime]
    /\ failures \in 0 .. MaxFailures
    /\ {checked, looked, stored} \subseteq [Attempts -> 0 .. MaxTime]
    /\ earlier \in [Attempts -> SUBSET Posts]
    /\ {ingested, spoiled} \subseteq SUBSET Events
    /\ handed \in [Attempts -> [at : 0 .. MaxTime, since : 0 .. MaxTime, lag : 0 .. MaxTime]]

Init ==
    /\ now = 1
    /\ timestamp \in [Posts -> Timestamps] /\ valid \in [Events -> BOOLEAN]
    /\ expires \in BOOLEAN
    /\ pc = [a \in Attempts |-> "idle"] /\ event = [a \in Attempts |-> None]
    /\ keys = [e \in Events |-> 0]
    /\ weather = 0 /\ breaker = [state |-> "closed", until |-> 0]
    /\ token = NoToken /\ issued = [a \in Attempts |-> 0]
    /\ failures = 0
    /\ checked = [a \in Attempts |-> 0] /\ looked = [a \in Attempts |-> 0]
    /\ earlier = [a \in Attempts |-> {}] /\ stored = [a \in Attempts |-> 0]
    /\ ingested = {} /\ spoiled = {}
    /\ handed = [a \in Attempts |-> NotHanded]

\* redis.setEx(key, ttl): the last moment of the key.
setEx(ttl) == IF expires THEN now + ttl ELSE Forever

GoTo(a, stage) == pc' = [pc EXCEPT ![a] = stage]

\* The observations of the check of a are of no more use.
Forget(a) ==
    /\ checked' = [checked EXCEPT ![a] = 0] /\ looked' = [looked EXCEPT ![a] = 0]
    /\ earlier' = [earlier EXCEPT ![a] = {}]

\* Time passes, and the keys whose last moment is over are gone.
Tick ==
    /\ now < MaxTime
    /\ now' = now + 1
    /\ keys' = [e \in Events |-> IF keys[e] = now THEN 0 ELSE keys[e]]
    /\ weather' = IF weather = now THEN 0 ELSE weather
    /\ token' = IF token.until = now THEN NoToken ELSE token
    /\ UNCHANGED <<inputVars, requestVars, checked, looked, earlier, stored, spoiled, breaker,
                   issued, handed, failures, ingested>>
-----------------------------------------------------------------------------
\* Mutant of Fresh: the age is taken without its absolute value.
FreshUnlessAhead(a) == timestamp[a] <= now + Freshness

\* assertTrustedRequest.  A request without its headers or with a wrong
\* signature is answered at once and changes nothing.  The timestamp is that of
\* the request; the key below is that of the event, whatever its timestamp.
Fresh(a) == timestamp[a] <= now + Freshness /\ now <= timestamp[a] + Freshness

\* Mutant of Receive: the key is stored first, whatever the timestamp is.
StoreOnReceipt(a, e) ==
    /\ pc[a] = "idle"
    /\ event' = [event EXCEPT ![a] = e]
    /\ keys' = [keys EXCEPT ![e] = IF expires THEN now + Freshness ELSE Forever]
    /\ GoTo(a, IF keys[e] # 0 THEN "replay" ELSE IF Fresh(a) THEN "weather" ELSE "stale")
    /\ UNCHANGED <<now, inputVars, checked, looked, earlier, stored, spoiled, weatherVars,
                   tokenVars, failures, ingested>>

Receive(a, e) ==
    /\ pc[a] = "idle"
    /\ event' = [event EXCEPT ![a] = e]
    /\ IF Fresh(a)
       THEN GoTo(a, "lookup") /\ checked' = [checked EXCEPT ![a] = now]
       ELSE GoTo(a, "stale") /\ UNCHANGED checked
    /\ UNCHANGED <<now, inputVars, keys, looked, earlier, stored, spoiled, weatherVars,
                   tokenVars, failures, ingested>>

LookUp(a) ==
    /\ pc[a] = "lookup"
    /\ IF keys[event[a]] # 0
       THEN GoTo(a, "replay") /\ Forget(a)
       ELSE /\ GoTo(a, "store") /\ UNCHANGED checked
            /\ looked' = [looked EXCEPT ![a] = now]
            /\ earlier' = [earlier EXCEPT ![a] =
                  {b \in Posts : event[b] = event[a] /\ stored[b] # 0}]
    /\ UNCHANGED <<now, inputVars, event, keys, stored, spoiled, weatherVars, tokenVars,
                   failures, ingested>>

\* The key is stored before the body is looked at.
StoreKey(a) ==
    /\ keys' = [keys EXCEPT ![event[a]] = setEx(Freshness)]
    /\ stored' = [stored EXCEPT ![a] = now]

Store(a) ==
    /\ pc[a] = "store"
    /\ StoreKey(a)
    /\ IF valid[event[a]]
       THEN GoTo(a, "weather") /\ UNCHANGED spoiled
       ELSE GoTo(a, "invalid") /\ spoiled' = spoiled \cup {event[a]}
    /\ Forget(a)
    /\ UNCHANGED <<now, inputVars, event, weatherVars, tokenVars, failures, ingested>>

\* Redis rejects the look-up or the store, which may have been done: 400.
RefuseOnError(a) ==
    /\ expires /\ failures < MaxFailures
    /\ failures' = failures + 1
    /\ pc[a] \in Checking
    /\ GoTo(a, "refused")
    /\ \/ UNCHANGED <<keys, stored, spoiled>>
       \/ pc[a] = "store" /\ StoreKey(a) /\ spoiled' = spoiled \cup {event[a]}
    /\ Forget(a)
    /\ UNCHANGED <<now, inputVars, event, weatherVars, tokenVars, ingested>>

\* A message that is not a reading goes to the dead letters.
ReceiveMessage(a) ==
    /\ pc[a] = "idle"
    /\ pc' \in {[pc EXCEPT ![a] = "weather"], [pc EXCEPT ![a] = "deadletter"]}
    /\ UNCHANGED <<now, inputVars, event, integrityVars, weatherVars, tokenVars, failures, ingested>>
-----------------------------------------------------------------------------
\* getWeather: the cache, then the breaker.
AskWeather(a) ==
    /\ pc[a] = "weather"
    /\ \/ weather # 0 /\ GoTo(a, "save") /\ UNCHANGED breaker
       \/ /\ weather = 0 /\ breaker.state = "closed"
          /\ GoTo(a, "fetch") /\ UNCHANGED breaker
       \/ /\ weather = 0 /\ breaker.state = "open" /\ breaker.until <= now
          /\ GoTo(a, "fetch") /\ breaker' = [breaker EXCEPT !.state = "trial"]
    /\ UNCHANGED <<now, inputVars, event, integrityVars, weather, tokenVars, failures, ingested>>

\* lookupRemote, and the weather is cached.
FetchWeather(a) ==
    /\ pc[a] = "fetch"
    /\ GoTo(a, "save")
    /\ weather' = setEx(WeatherTtl)
    /\ breaker' = IF breaker.state = "trial" THEN [breaker EXCEPT !.state = "closed"] ELSE breaker
    /\ UNCHANGED <<now, inputVars, event, integrityVars, tokenVars, failures, ingested>>

\* The process ends with every attempt in flight.  What they stored stays in
\* Redis, and goes with InMemoryRedis.
Restart ==
    /\ pc' = [a \in Attempts |-> IF a \in InFlight THEN "aborted" ELSE pc[a]]
    /\ breaker' = [state |-> "closed", until |-> 0]
    /\ spoiled' = spoiled \cup {event[a] : a \in {b \in Posts : pc[b] \in Processing}}
    /\ IF expires
       THEN UNCHANGED <<keys, stored, weather, token>>
       ELSE /\ keys' = [e \in Events |-> 0] /\ stored' = [a \in Attempts |-> 0]
            /\ weather' = 0 /\ token' = NoToken
    /\ checked' = [a \in Attempts |-> 0] /\ looked' = [a \in Attempts |-> 0]
    /\ earlier' = [a \in Attempts |-> {}]
    /\ issued' = [a \in Attempts |-> 0] /\ handed' = [a \in Attempts |-> NotHanded]

\* getWeather rejects: the consumer puts a message into the dead letters, the
\* route does not catch it.
Reject(a) ==
    IF a \in Messages
    THEN GoTo(a, "deadletter") /\ UNCHANGED <<integrityVars, weather, tokenVars>>
    ELSE Restart

\* The breaker opens when half of the calls of its window failed, or when the
\* one that was to try again did; it rejects while it is open or trying.
FailWeather(a) ==
    /\ pc[a] = "fetch" /\ failures < MaxFailures
    /\ failures' = failures + 1
    /\ Reject(a)
    /\ a \in Messages =>
          \/ /\ breaker.state # "open"
             /\ breaker' = [state |-> "open", until |-> now + ResetTimeout]
          \/ breaker.state # "trial" /\ UNCHANGED breaker
    /\ UNCHANGED <<now, inputVars, event, ingested>>

RejectWeather(a) ==
    /\ pc[a] = "weather" /\ weather = 0
    /\ breaker.state = "trial" \/ (breaker.state = "open" /\ now < breaker.until)
    /\ Reject(a)
    /\ a \in Messages => UNCHANGED breaker
    /\ UNCHANGED <<now, inputVars, event, failures, ingested>>

\* Any other call of the process that nothing catches is rejected.
Crash ==
    /\ failures < MaxFailures
    /\ failures' = failures + 1
    /\ Restart
    /\ UNCHANGED <<now, inputVars, event, ingested>>

\* The rest of process, up to the twin; getRisk falls back and never rejects.
Save(a) ==
    /\ pc[a] = "save"
    /\ GoTo(a, "token")
    /\ ingested' = IF a \in Posts THEN ingested \cup {event[a]} ELSE ingested
    /\ UNCHANGED <<now, inputVars, event, integrityVars, weatherVars, tokenVars, failures>>
-----------------------------------------------------------------------------
\* Mutant of ttl: the token is cached for its life.
wholeLife == TokenLife

\* A token is cached for less than it lives, and for a second at least.
ttl == IF TokenLife - 1 > Skew THEN TokenLife - Skew ELSE 1

\* What a request may be late by before it carries an expired token.
Slack == IF TokenLife - 1 > Skew THEN Skew ELSE TokenLife - 1

\* The patch of the twin is sent with the token.
HandOut(a, since, lag) ==
    /\ GoTo(a, "patch")
    /\ handed' = [handed EXCEPT ![a] = [at |-> now, since |-> since, lag |-> lag]]

\* getAccessToken: the cache, or the token server, whose answer is cached.
ReadToken(a) ==
    /\ pc[a] = "token"
    /\ IF token # NoToken
       THEN HandOut(a, token.since, token.lag)
       ELSE GoTo(a, "issue") /\ UNCHANGED handed
    /\ UNCHANGED <<now, inputVars, event, integrityVars, weatherVars, token, issued, failures,
                   ingested>>

IssueToken(a) ==
    /\ pc[a] = "issue"
    /\ GoTo(a, "keep")
    /\ issued' = [issued EXCEPT ![a] = now]
    /\ UNCHANGED <<now, inputVars, event, integrityVars, weatherVars, token, handed, failures,
                   ingested>>

KeepToken(a) ==
    /\ pc[a] = "keep"
    /\ token' = [until |-> setEx(ttl), since |-> issued[a], lag |-> now - issued[a]]
    /\ HandOut(a, issued[a], now - issued[a])
    /\ issued' = [issued EXCEPT ![a] = 0]
    /\ UNCHANGED <<now, inputVars, event, integrityVars, weatherVars, failures, ingested>>

\* The token server or the cache fails: the patch goes without a token.
MissToken(a) ==
    /\ pc[a] \in {"issue", "keep"} /\ failures < MaxFailures
    /\ failures' = failures + 1
    /\ GoTo(a, "patch")
    /\ issued' = [issued EXCEPT ![a] = 0]
    /\ UNCHANGED <<now, inputVars, event, integrityVars, weatherVars, token, handed, ingested>>

\* The rest of process, and the answer.
Answer(a) ==
    /\ pc[a] = "patch"
    /\ GoTo(a, "done")
    /\ handed' = [handed EXCEPT ![a] = NotHanded]
    /\ UNCHANGED <<now, inputVars, event, integrityVars, weatherVars, token, issued, failures,
                   ingested>>

IntakeStep(a) ==
    \/ LookUp(a) \/ Store(a) \/ RefuseOnError(a)
    \/ AskWeather(a) \/ FetchWeather(a) \/ FailWeather(a) \/ RejectWeather(a) \/ Save(a)
    \/ ReadToken(a) \/ IssueToken(a) \/ KeepToken(a) \/ MissToken(a) \/ Answer(a)

Next ==
    \/ \E a \in Posts, e \in Events : Receive(a, e)
    \/ \E a \in Messages : ReceiveMessage(a)
    \/ \E a \in Attempts : IntakeStep(a)
    \/ Crash
    \/ Tick

Spec == Init /\ [][Next]_vars
-----------------------------------------------------------------------------
\* A delivery of an event that was taken before is taken again only after the
\* key of the first had lived its time, and then only if it was stamped after
\* that key was stored, or its check was cut in two: between the freshness
\* check and the look-up more time passed than there was between its timestamp
\* and the store.  So a request that is repeated as it was, by a client whose
\* clock is not ahead, is not taken twice by a look-up that comes at once, while
\* an event that is stamped anew is refused for the life of the key only.
TakenTwiceNeedsStampOrLag ==
    \A a \in Posts : pc[a] = "store" =>
        \A b \in earlier[a] :
            /\ looked[a] > stored[b] + Freshness
            /\ \/ timestamp[a] > stored[b]
               \/ looked[a] - checked[a] > stored[b] - timestamp[a]

\* A reading is lost although its client retries, because the retry is refused
\* as a replay, only when an earlier delivery left its key behind: its body was
\* not valid, Redis failed it, or the process ended before it was stored.
RefusedRetryWasTaken ==
    \A a \in Posts : pc[a] = "replay" =>
        \/ event[a] \in ingested \cup spoiled
        \/ \E b \in Posts \ {a} : event[b] = event[a] /\ pc[b] \in Processing

\* A twin is patched with a token that has expired only when the answer of the
\* token server took longer than the slack of the cache, or when InMemoryRedis
\* keeps the token for good.
ExpiredTokenNeedsLag ==
    \A a \in Attempts :
        handed[a].at > handed[a].since + TokenLife => ~expires \/ handed[a].lag > Slack
=============================================================================
