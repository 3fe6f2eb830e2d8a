---------------------------- MODULE IntakeProofs ----------------------------
(***************************************************************************)
(* What the replay keys and the token cache promise about time, for any    *)
(* number of posts, messages and events, any lives of keys and tokens and  *)
(* any timestamps.                                                         *)
(***************************************************************************)
EXTENDS ReadingIntake, TLAPS

(***************************************************************************)
(* Type correctness, which needs that a post has its event and a token its *)
(* moment of issue behind it.                                              *)
(***************************************************************************)

\* Only posts are checked, and a post that was received has its event.
PostsHaveEvents ==
    /\ \A a \in Posts : pc[a] # "idle" => event[a] \in Events
    /\ \A a \in Attempts : pc[a] \in Checking => a \in Posts

\* Nothing was observed later than now.
ObservedBefore ==
    \A a \in Attempts : issued[a] <= now /\ checked[a] <= now /\ stored[a] <= now

TypeInv == TypeOK /\ PostsHaveEvents /\ ObservedBefore

LEMMA SetExType ==
    ASSUME now \in 1 .. MaxTime, expires \in BOOLEAN,
           NEW life \in {Freshness, WeatherTtl, ttl}
    PROVE  setEx(life) \in 0 .. Forever /\ setEx(life) >= now + life
  BY TimesAssumption DEF setEx, Forever, ttl

LEMMA ClockType ==
    /\ MaxTime \in Nat /\ Forever \in Nat /\ Forever > MaxTime
    /\ MaxFailures \in Nat /\ ResetTimeout \in Nat
  BY TimesAssumption DEF Forever

LEMMA RestartType ==
    ASSUME TypeInv, Restart, UNCHANGED <<now, inputVars, event, ingested>>,
           failures' \in 0 .. MaxFailures
    PROVE  TypeInv'
  <1> USE DEF TypeInv, inputVars
  <1>1. pc' \in [Attempts -> Checking \cup Processing \cup Answering
                 \cup {"idle", "stale", "replay", "refused", "invalid", "deadletter",
                       "aborted", "done"}]
    BY DEF TypeOK, Restart
  <1>2. spoiled' \in SUBSET Events
    <2>1. \A b \in Posts : pc[b] \in Processing => event[b] \in Events
      BY DEF PostsHaveEvents, Processing
    <2>2. QED
      BY <2>1 DEF TypeOK, Restart
  <1>3. /\ breaker' \in [state : {"closed", "open", "trial"}, until : 0 .. MaxTime + ResetTimeout]
        /\ NoToken \in [until : 0 .. Forever, since : 0 .. MaxTime, lag : 0 .. MaxTime]
        /\ NotHanded \in [at : 0 .. MaxTime, since : 0 .. MaxTime, lag : 0 .. MaxTime]
    BY ClockType DEF Restart, NoToken, NotHanded
  <1>4. /\ keys' \in [Events -> 0 .. Forever] /\ weather' \in 0 .. Forever
        /\ token' \in [until : 0 .. Forever, since : 0 .. MaxTime, lag : 0 .. MaxTime]
        /\ stored' \in [Attempts -> 0 .. MaxTime]
    BY <1>3, ClockType DEF TypeOK, Restart
  <1>5. TypeOK'
    BY <1>1, <1>2, <1>3, <1>4, ClockType DEF TypeOK, Restart
  <1>6. PostsHaveEvents'
    <2>1. \A a \in Attempts : \/ pc'[a] = pc[a] /\ pc[a] \notin Checking
                              \/ pc'[a] = "aborted" /\ pc[a] # "idle"
      <3> TAKE a \in Attempts
      <3>1. CASE a \in InFlight
        BY <3>1 DEF Restart, TypeOK, InFlight, Checking, Processing, Answering
      <3>2. CASE a \notin InFlight
        <4>1. pc'[a] = pc[a]
          BY <3>2 DEF Restart, TypeOK
        <4>2. pc[a] \notin Checking
          BY <3>2 DEF InFlight
        <4>3. QED
          BY <4>1, <4>2
      <3>3. QED
        BY <3>1, <3>2
    <2>2. event' = event
      OBVIOUS
    <2>3. QED
      BY <2>1, <2>2 DEF PostsHaveEvents, Attempts, Checking
  <1>7. ObservedBefore'
    BY ClockType DEF ObservedBefore, Restart, TypeOK
  <1>8. QED
    BY <1>5, <1>6, <1>7

LEMMA TypeInit == Init => TypeInv
  <1> SUFFICES ASSUME Init PROVE TypeInv
    OBVIOUS
  <1>1. 1 \in 1 .. MaxTime
    BY TimesAssumption DEF Init
  <1>2. TypeOK
    BY <1>1, ClockType DEF Init, TypeOK, NoToken, NotHanded
  <1>3. PostsHaveEvents /\ ObservedBefore
    BY DEF Init, PostsHaveEvents, ObservedBefore, Checking, Attempts
  <1>4. QED
    BY <1>2, <1>3 DEF TypeInv

LEMMA TypeStep == TypeInv /\ [Next]_vars => TypeInv'
  <1> SUFFICES ASSUME TypeInv, [Next]_vars PROVE TypeInv'
    OBVIOUS
  <1> USE ClockType DEF TypeInv, GoTo, inputVars, requestVars, integrityVars, weatherVars, tokenVars,
                        PostsHaveEvents, ObservedBefore
  <1>0. failures < MaxFailures => failures + 1 \in 0 .. MaxFailures
    BY DEF TypeOK
  <1>1. ASSUME NEW a \in Posts, NEW e \in Events, Receive(a, e) PROVE TypeInv'
    BY <1>1 DEF Receive, TypeOK, Attempts, Checking
  <1>2. ASSUME NEW a \in Messages, ReceiveMessage(a) PROVE TypeInv'
    BY <1>2, AttemptsAssumption DEF ReceiveMessage, TypeOK, Attempts, Checking, Processing
  <1>3. ASSUME NEW a \in Attempts, LookUp(a) PROVE TypeInv'
    <2> USE <1>3 DEF LookUp, Forget
    <2>1. CASE keys[event[a]] # 0
      <3>1. earlier' \in [Attempts -> SUBSET Posts]
        BY <2>1 DEF TypeOK
      <3>2. 0 \in 0 .. MaxTime /\ UNCHANGED stored
        OBVIOUS
      <3>3. /\ checked' \in [Attempts -> 0 .. MaxTime]
            /\ looked' \in [Attempts -> 0 .. MaxTime]
        BY <2>1, <3>2 DEF TypeOK
      <3>4. TypeOK'
        BY <2>1, <3>1, <3>2, <3>3 DEF TypeOK
      <3>5. PostsHaveEvents' /\ ObservedBefore'
        BY <2>1 DEF TypeOK, Attempts, Checking
      <3>6. QED
        BY <3>4, <3>5
    <2>2. CASE keys[event[a]] = 0
      <3>1. earlier' \in [Attempts -> SUBSET Posts]
        BY <2>2 DEF TypeOK
      <3>2. QED
        BY <2>2, <3>1 DEF TypeOK, Attempts, Checking
    <2>3. QED
      BY <2>1, <2>2
  <1>4. ASSUME NEW a \in Attempts, Store(a) PROVE TypeInv'
    <2>1. setEx(Freshness) \in 0 .. Forever
      BY SetExType DEF TypeOK
    <2>2. event[a] \in Events
      BY <1>4 DEF Store, Checking
    <2>3. 0 \in 0 .. MaxTime /\ now \in 0 .. MaxTime
      BY DEF TypeOK
    <2>4. /\ keys' \in [Events -> 0 .. Forever] /\ spoiled' \in SUBSET Events
          /\ stored' \in [Attempts -> 0 .. MaxTime]
      BY <1>4, <2>1, <2>2, <2>3 DEF Store, StoreKey, TypeOK
    <2>5. /\ checked' \in [Attempts -> 0 .. MaxTime] /\ looked' \in [Attempts -> 0 .. MaxTime]
          /\ earlier' \in [Attempts -> SUBSET Posts]
      BY <1>4, <2>3 DEF Store, Forget, TypeOK
    <2>6. TypeOK'
      BY <1>4, <2>4, <2>5 DEF Store, TypeOK, Processing
    <2>7. PostsHaveEvents' /\ ObservedBefore'
      BY <1>4 DEF Store, StoreKey, Forget, TypeOK, Attempts, Checking
    <2>8. QED
      BY <2>6, <2>7
  <1>5. ASSUME NEW a \in Attempts, RefuseOnError(a) PROVE TypeInv'
    <2>1. setEx(Freshness) \in 0 .. Forever
      BY SetExType DEF TypeOK
    <2>2. event[a] \in Events
      BY <1>5 DEF RefuseOnError, Checking
    <2>3. UNCHANGED <<keys, stored, spoiled>> \/ (StoreKey(a) /\ spoiled' = spoiled \cup {event[a]})
      BY <1>5 DEF RefuseOnError
    <2>4. keys' \in [Events -> 0 .. Forever] /\ spoiled' \in SUBSET Events
      BY <2>1, <2>2, <2>3 DEF StoreKey, TypeOK
    <2>5. 0 \in 0 .. MaxTime /\ now \in 0 .. MaxTime
      BY DEF TypeOK
    <2>6. stored' \in [Attempts -> 0 .. MaxTime]
      BY <2>3, <2>5 DEF StoreKey, TypeOK
    <2>7. /\ checked' \in [Attempts -> 0 .. MaxTime] /\ looked' \in [Attempts -> 0 .. MaxTime]
          /\ earlier' \in [Attempts -> SUBSET Posts]
      BY <1>5, <2>5 DEF RefuseOnError, Forget, TypeOK
    <2>8. TypeOK'
      BY <1>0, <1>5, <2>4, <2>6, <2>7 DEF RefuseOnError, TypeOK
    <2>9. PostsHaveEvents' /\ ObservedBefore'
      BY <1>5 DEF RefuseOnError, StoreKey, Forget, TypeOK, Attempts, Checking
    <2>10. QED
      BY <2>8, <2>9
  <1>6. ASSUME NEW a \in Attempts, AskWeather(a) PROVE TypeInv'
    BY <1>6 DEF AskWeather, TypeOK, Attempts, Checking, Processing
  <1>7. ASSUME NEW a \in Attempts, FetchWeather(a) PROVE TypeInv'
    BY <1>7, SetExType DEF FetchWeather, TypeOK, Attempts, Checking, Processing
  <1>8. ASSUME NEW a \in Attempts, FailWeather(a) PROVE TypeInv'
    <2>1. CASE a \in Messages
      BY <1>0, <1>8, <2>1, AttemptsAssumption DEF FailWeather, Reject, TypeOK, Attempts, Checking
    <2>2. CASE a \notin Messages
      BY <1>0, <1>8, <2>2, RestartType DEF FailWeather, Reject
    <2>3. QED
      BY <2>1, <2>2
  <1>9. ASSUME NEW a \in Attempts, RejectWeather(a) PROVE TypeInv'
    <2>1. CASE a \in Messages
      BY <1>9, <2>1, AttemptsAssumption DEF RejectWeather, Reject, TypeOK, Attempts, Checking
    <2>2. CASE a \notin Messages
      BY <1>9, <2>2, RestartType DEF RejectWeather, Reject, TypeOK
    <2>3. QED
      BY <2>1, <2>2
  <1>10. ASSUME NEW a \in Attempts, Save(a) PROVE TypeInv'
    BY <1>10 DEF Save, TypeOK, Attempts, Checking, Answering
  <1>11. ASSUME NEW a \in Attempts, ReadToken(a) PROVE TypeInv'
    BY <1>11 DEF ReadToken, HandOut, TypeOK, Attempts, Checking, Answering
  <1>12. ASSUME NEW a \in Attempts, IssueToken(a) PROVE TypeInv'
    BY <1>12 DEF IssueToken, TypeOK, Attempts, Checking, Answering
  <1>13. ASSUME NEW a \in Attempts, KeepToken(a) PROVE TypeInv'
    <2>1. setEx(ttl) \in 0 .. Forever
      BY SetExType DEF TypeOK
    <2>2. now - issued[a] \in 0 .. MaxTime
      BY DEF TypeOK
    <2>3. QED
      BY <1>13, <2>1, <2>2 DEF KeepToken, HandOut, TypeOK, Attempts, Checking, Answering
  <1>14. ASSUME NEW a \in Attempts, MissToken(a) PROVE TypeInv'
    BY <1>0, <1>14 DEF MissToken, TypeOK, Attempts, Checking, Answering
  <1>15. ASSUME NEW a \in Attempts, Answer(a) PROVE TypeInv'
    BY <1>15 DEF Answer, NotHanded, TypeOK, Attempts, Checking, Answering
  <1>16. ASSUME Crash PROVE TypeInv'
    BY <1>0, <1>16, RestartType DEF Crash
  <1>17. ASSUME Tick PROVE TypeInv'
    BY <1>17 DEF Tick, TypeOK, NoToken
  <1>18. CASE UNCHANGED vars
    BY <1>18 DEF vars, TypeOK
  <1>19. QED
    BY <1>1, <1>2, <1>3, <1>4, <1>5, <1>6, <1>7, <1>8, <1>9, <1>10, <1>11, <1>12, <1>13, <1>14,
       <1>15, <1>16, <1>17, <1>18
    DEF Next, IntakeStep

\* Every variable keeps its type: the lives of keys and tokens, and the lags
\* that are differences of two times, whatever order the calls come in.
THEOREM IntakeTypeCorrect == Spec => []TypeOK
  <1>1. TypeInv => TypeOK
    BY DEF TypeInv
  <1>2. QED
    BY <1>1, TypeInit, TypeStep, PTL DEF Spec
-----------------------------------------------------------------------------
(***************************************************************************)
(* The access token.                                                       *)
(***************************************************************************)

\* What Slack says of the life of a token.
LEMMA SlackOfTtl == ttl \in Nat /\ Slack \in Nat /\ ttl + Slack = TokenLife /\ Slack < TokenLife
  BY TimesAssumption DEF ttl, Slack

\* In Redis a token is gone ttl after it was cached, which was lag after it was
\* issued; a token handed out was there, or came from the server.
TokenInv ==
    expires =>
    /\ token # NoToken => now <= token.until /\ token.until = token.since + token.lag + ttl
    /\ \A a \in Attempts : handed[a].at <= handed[a].since + handed[a].lag + ttl

LEMMA TokenInit == Init => TokenInv
  BY SlackOfTtl DEF Init, TokenInv, NoToken, NotHanded

LEMMA TokenFrame ==
    ASSUME TypeInv, TokenInv, UNCHANGED <<expires, now>>,
           token' \in {token, NoToken},
           UNCHANGED handed \/ handed' = [a \in Attempts |-> NotHanded]
    PROVE  TokenInv'
  BY SlackOfTtl DEF TokenInv, NotHanded, TypeInv, TypeOK

LEMMA TokenStep == TypeInv /\ TokenInv /\ [Next]_vars => TokenInv'
  <1> SUFFICES ASSUME TypeInv, TokenInv, [Next]_vars PROVE TokenInv'
    OBVIOUS
  <1> USE DEF inputVars
  <1>1. ASSUME NEW a \in Attempts, ReadToken(a) PROVE TokenInv'
    <2>1. CASE token # NoToken
      <3>1. expires => now <= token.since + token.lag + ttl
        BY <2>1 DEF TokenInv
      <3>2. handed' = [handed EXCEPT ![a] = [at |-> now, since |-> token.since, lag |-> token.lag]]
        BY <1>1, <2>1 DEF ReadToken, HandOut
      <3>3. UNCHANGED <<expires, now, token>>
        BY <1>1 DEF ReadToken
      <3>4. QED
        BY <3>1, <3>2, <3>3 DEF TokenInv, TypeInv, TypeOK
    <2>2. CASE token = NoToken
      BY <1>1, <2>2, TokenFrame DEF ReadToken
    <2>3. QED
      BY <2>1, <2>2
  <1>2. ASSUME NEW a \in Attempts, KeepToken(a) PROVE TokenInv'
    <2>1. issued[a] \in Nat /\ now \in Nat /\ issued[a] <= now
      BY DEF TypeInv, TypeOK, ObservedBefore
    <2>2. handed' = [handed EXCEPT ![a] = [at |-> now, since |-> issued[a], lag |-> now - issued[a]]]
      BY <1>2 DEF KeepToken, HandOut
    <2>3. token' = [until |-> setEx(ttl), since |-> issued[a], lag |-> now - issued[a]]
      BY <1>2 DEF KeepToken
    <2>4. UNCHANGED <<expires, now>>
      BY <1>2 DEF KeepToken
    <2>5. expires => setEx(ttl) = now + ttl
      BY DEF setEx
    <2>6. expires => \A b \in Attempts :
              handed'[b].at <= handed'[b].since + handed'[b].lag + ttl
      BY <2>1, <2>2, SlackOfTtl DEF TokenInv, TypeInv, TypeOK
    <2>7. QED
      BY <2>1, <2>3, <2>4, <2>5, <2>6, SlackOfTtl DEF TokenInv
  <1>3. ASSUME NEW a \in Attempts, Answer(a) PROVE TokenInv'
    BY <1>3, SlackOfTtl DEF Answer, TokenInv, NotHanded, TypeInv, TypeOK
  <1>4. ASSUME Tick PROVE TokenInv'
    <2>1. now \in Nat /\ token.until \in Nat
      BY ClockType DEF TypeInv, TypeOK
    <2>2. CASE token.until = now
      BY <1>4, <2>2 DEF Tick, TokenInv
    <2>3. CASE token.until # now
      BY <1>4, <2>1, <2>3 DEF Tick, TokenInv
    <2>4. QED
      BY <2>2, <2>3
  <1>5. ASSUME Restart, UNCHANGED <<now, inputVars>> PROVE TokenInv'
    BY <1>5, TokenFrame DEF Restart
  <1>6. ASSUME NEW a \in Attempts, Reject(a), UNCHANGED <<now, inputVars>> PROVE TokenInv'
    BY <1>5, <1>6, TokenFrame DEF Reject, tokenVars
  <1>7. ASSUME UNCHANGED <<now, inputVars, token, handed>> PROVE TokenInv'
    BY <1>7, TokenFrame
  <1>8. QED
    BY <1>1, <1>2, <1>3, <1>4, <1>5, <1>6, <1>7
    DEF Next, IntakeStep, vars, tokenVars, Receive, ReceiveMessage, LookUp, Store, RefuseOnError,
        AskWeather, FetchWeather, FailWeather, RejectWeather, Save, IssueToken, MissToken, Crash

\* A request carries an expired token only when the answer that brought the
\* token took longer than the cache allows for, or the cache never drops it:
\* for any life, skew, number of readings and interleaving of their fetches.
THEOREM ExpiredTokenSafety == Spec => []ExpiredTokenNeedsLag
  <1>1. TypeInv /\ TokenInv => ExpiredTokenNeedsLag
    BY SlackOfTtl, TimesAssumption DEF TypeInv, TypeOK, TokenInv, ExpiredTokenNeedsLag
  <1>2. QED
    BY <1>1, TypeInit, TypeStep, TokenInit, TokenStep, PTL DEF Spec
-----------------------------------------------------------------------------
(***************************************************************************)
(* The replay key.                                                         *)
(***************************************************************************)

\* The types the times of a post have.
PostTypes ==
    /\ now \in Nat \ {0} /\ Freshness \in Nat \ {0} /\ timestamp \in [Posts -> Nat]
    /\ keys \in [Events -> Nat] /\ checked \in [Posts \cup Messages -> Nat]
    /\ looked \in [Posts \cup Messages -> Nat] /\ stored \in [Posts \cup Messages -> Nat]
    /\ earlier \in [Posts \cup Messages -> SUBSET Posts]
    /\ pc = [a \in Posts \cup Messages |-> pc[a]] /\ event = [a \in Posts \cup Messages |-> event[a]]
    /\ \A a \in Posts : pc[a] # "idle" => event[a] \in Events
    /\ \A a \in Posts : stored[a] <= now
    /\ \A a \in Posts \cup Messages : pc[a] \in {"lookup", "store"} => a \in Posts

LEMMA KeyLife ==
    TypeInv => setEx(Freshness) \in Nat /\ setEx(Freshness) >= now + Freshness
  BY TimesAssumption, SetExType, ClockType DEF TypeInv, TypeOK

LEMMA PostsTyped == TypeInv => PostTypes
  <1> SUFFICES ASSUME TypeInv PROVE PostTypes
    OBVIOUS
  <1>1. /\ now \in Nat \ {0} /\ Freshness \in Nat \ {0} /\ timestamp \in [Posts -> Nat]
        /\ keys \in [Events -> Nat]
    <2>1. now \in 1 .. MaxTime /\ timestamp \in [Posts -> Timestamps] /\ keys \in [Events -> 0 .. Forever]
      BY DEF TypeInv, TypeOK
    <2>2. 1 .. MaxTime \subseteq Nat \ {0} /\ 0 .. Forever \subseteq Nat /\ Timestamps \subseteq Nat
      BY TimesAssumption, ClockType
    <2>3. QED
      BY <2>1, <2>2, TimesAssumption
  <1>2. 0 .. MaxTime \subseteq Nat
    BY ClockType
  <1>3. checked \in [Attempts -> Nat] /\ looked \in [Attempts -> Nat] /\ stored \in [Attempts -> Nat]
    BY <1>2 DEF TypeInv, TypeOK
  <1>4. /\ earlier \in [Attempts -> SUBSET Posts]
        /\ pc = [a \in Attempts |-> pc[a]] /\ event = [a \in Attempts |-> event[a]]
    BY DEF TypeInv, TypeOK
  <1>5. /\ \A a \in Posts : pc[a] # "idle" => event[a] \in Events
        /\ \A a \in Posts : stored[a] <= now
        /\ \A a \in Attempts : pc[a] \in {"lookup", "store"} => a \in Posts
    BY DEF TypeInv, PostsHaveEvents, ObservedBefore, Attempts, Checking
  <1>6. QED
    BY <1>1, <1>3, <1>4, <1>5 DEF PostTypes, Attempts

\* A key lives for Freshness from its store, unless it is stored anew, and is
\* only there until its last moment.
KeyLives ==
    /\ \A e \in Events : keys[e] # 0 => now <= keys[e]
    /\ \A b \in Posts : stored[b] # 0 =>
          /\ pc[b] \notin Checking \cup {"idle"}
          /\ now <= stored[b] + Freshness => keys[event[b]] >= stored[b] + Freshness

\* A post between its look-up and its store found no key of those whose key
\* was stored: each had lived out its time.
LookedInVain ==
    \A a \in Posts :
        /\ pc[a] \in Checking => checked[a] <= timestamp[a] + Freshness
        /\ pc[a] = "store" => \A b \in earlier[a] :
              stored[b] # 0 /\ looked[a] > stored[b] + Freshness

ReplayInv == KeyLives /\ LookedInVain

LEMMA ReplayInit == Init => ReplayInv
  BY DEF Init, ReplayInv, KeyLives, LookedInVain, Attempts, Checking

\* A step that leaves the keys alone and does not take a post into its check.
LEMMA ReplayFrame ==
    ASSUME TypeInv, ReplayInv,
           UNCHANGED <<now, timestamp, event, keys, checked, looked, earlier, stored>>,
           \A a \in Posts : pc'[a] = pc[a] \/ (pc'[a] \notin Checking \cup {"idle"})
    PROVE  ReplayInv'
  BY DEF ReplayInv, KeyLives, LookedInVain, Checking

LEMMA ReplayStep == TypeInv /\ ReplayInv /\ [Next]_vars => ReplayInv'
  <1> SUFFICES ASSUME TypeInv, ReplayInv, [Next]_vars PROVE ReplayInv'
    OBVIOUS
  <1> USE PostsTyped DEF inputVars, GoTo
  <1>1. ASSUME NEW a \in Posts, NEW e \in Events, Receive(a, e) PROVE ReplayInv'
    BY <1>1 DEF Receive, Fresh, ReplayInv, KeyLives, LookedInVain, Checking, PostTypes, Attempts
  <1>2. ASSUME NEW a \in Attempts, LookUp(a) PROVE ReplayInv'
    <2>1. KeyLives'
      BY <1>2 DEF LookUp, Forget, ReplayInv, KeyLives, Checking, PostTypes, Attempts
    <2>2. LookedInVain'
      BY <1>2 DEF LookUp, Forget, ReplayInv, KeyLives, LookedInVain, Checking, PostTypes, Attempts
    <2>3. QED
      BY <2>1, <2>2 DEF ReplayInv
  <1>3. ASSUME NEW a \in Attempts, Store(a) PROVE ReplayInv'
    <2>1. KeyLives'
      BY <1>3, KeyLife DEF Store, StoreKey, Forget, ReplayInv, KeyLives, Checking, PostTypes, Attempts
    <2>2. LookedInVain'
      BY <1>3 DEF Store, StoreKey, Forget, ReplayInv, KeyLives, LookedInVain, Checking, PostTypes, Attempts
    <2>3. QED
      BY <2>1, <2>2 DEF ReplayInv
  <1>4. ASSUME NEW a \in Attempts, RefuseOnError(a) PROVE ReplayInv'
    <2>1. KeyLives'
      BY <1>4, KeyLife DEF RefuseOnError, StoreKey, Forget, ReplayInv, KeyLives, Checking, PostTypes, Attempts
    <2>2. LookedInVain'
      BY <1>4 DEF RefuseOnError, StoreKey, Forget, ReplayInv, KeyLives, LookedInVain, Checking, PostTypes, Attempts
    <2>3. QED
      BY <2>1, <2>2 DEF ReplayInv
  <1>5. ASSUME Restart, UNCHANGED <<now, inputVars, event>> PROVE ReplayInv'
    BY <1>5 DEF Restart, ReplayInv, KeyLives, LookedInVain, Checking, PostTypes, Attempts
  <1>6. ASSUME Tick PROVE ReplayInv'
    <2>1. KeyLives'
      <3>1. ASSUME NEW e \in Events, keys'[e] # 0 PROVE now' <= keys'[e]
        BY <1>6, <3>1 DEF Tick, ReplayInv, KeyLives, PostTypes
      <3>2. ASSUME NEW b \in Posts, stored'[b] # 0 PROVE pc'[b] \notin Checking \cup {"idle"}
        BY <1>6, <3>2 DEF Tick, ReplayInv, KeyLives, requestVars
      <3>3. ASSUME NEW b \in Posts, stored'[b] # 0, now' <= stored'[b] + Freshness
            PROVE  keys'[event'[b]] >= stored'[b] + Freshness
        <4>1. /\ stored[b] # 0 /\ event'[b] = event[b] /\ stored'[b] = stored[b] /\ now' = now + 1
              /\ keys' = [e \in Events |-> IF keys[e] = now THEN 0 ELSE keys[e]]
          BY <1>6, <3>3 DEF Tick, requestVars
        <4>2. now < stored[b] + Freshness /\ event[b] \in Events
          BY <3>3, <4>1 DEF ReplayInv, KeyLives, PostTypes, Checking
        <4>3. keys[event[b]] >= stored[b] + Freshness
          BY <4>1, <4>2 DEF ReplayInv, KeyLives, PostTypes
        <4>4. QED
          BY <4>1, <4>2, <4>3 DEF PostTypes
      <3>4. QED
        BY <3>1, <3>2, <3>3 DEF KeyLives
    <2>2. LookedInVain'
      BY <1>6 DEF Tick, requestVars, ReplayInv, LookedInVain
    <2>3. QED
      BY <2>1, <2>2 DEF ReplayInv
  <1>7. ASSUME UNCHANGED <<now, timestamp, event, integrityVars>>,
               NEW a \in Attempts, NEW stage, stage \notin Checking \cup {"idle"},
               pc' = [pc EXCEPT ![a] = stage]
        PROVE  ReplayInv'
    BY <1>7, ReplayFrame DEF integrityVars, TypeInv, TypeOK, Attempts
  <1>8. ASSUME NEW a \in Attempts, Reject(a), UNCHANGED <<now, inputVars, event>> PROVE ReplayInv'
    BY <1>5, <1>7, <1>8 DEF Reject, Checking
  <1>9. ASSUME NEW a \in Attempts, AskWeather(a) \/ FetchWeather(a) \/ Save(a) PROVE ReplayInv'
    BY <1>7, <1>9 DEF AskWeather, FetchWeather, Save, Checking
  <1>10. ASSUME NEW a \in Attempts,
                ReadToken(a) \/ IssueToken(a) \/ KeepToken(a) \/ MissToken(a) \/ Answer(a)
         PROVE  ReplayInv'
    BY <1>7, <1>10 DEF ReadToken, IssueToken, KeepToken, MissToken, Answer, HandOut, Checking
  <1>11. ASSUME NEW a \in Messages, ReceiveMessage(a) PROVE ReplayInv'
    BY <1>7, <1>11 DEF ReceiveMessage, Checking, Attempts
  <1>12. ASSUME NEW a \in Attempts, FailWeather(a) \/ RejectWeather(a) PROVE ReplayInv'
    BY <1>8, <1>12 DEF FailWeather, RejectWeather
  <1>13. CASE Crash
    BY <1>5, <1>13 DEF Crash
  <1>14. CASE UNCHANGED vars
    BY <1>14, ReplayFrame DEF vars, requestVars, integrityVars
  <1>15. QED
    BY <1>1, <1>2, <1>3, <1>4, <1>6, <1>9, <1>10, <1>11, <1>12, <1>13, <1>14 DEF Next, IntakeStep

\* An event is taken a second time only after the life of its key, and then only
\* by a request that was stamped after the store of the key, or whose check was
\* cut in two for longer than the key outlived its timestamp: for any timestamps
\* of the requests that repeat an event, the same or new ones, any lives, any
\* number of deliveries at the same time, failed calls and restarts of either
\* Redis.
THEOREM ReplaySafety == Spec => []TakenTwiceNeedsStampOrLag
  <1>1. TypeInv /\ ReplayInv => TakenTwiceNeedsStampOrLag
    <2>1. ASSUME TypeInv, ReplayInv, NEW a \in Posts, pc[a] = "store", NEW b \in earlier[a]
          PROVE  /\ looked[a] > stored[b] + Freshness
                 /\ looked[a] - checked[a] > stored[b] - timestamp[a]
      <3>1. looked[a] > stored[b] + Freshness /\ checked[a] <= timestamp[a] + Freshness
        BY <2>1 DEF ReplayInv, LookedInVain, Checking
      <3>2. /\ {looked[a], checked[a], timestamp[a], Freshness} \subseteq Nat
            /\ stored[b] \in Nat
        BY <2>1, PostsTyped DEF PostTypes
      <3>3. QED
        BY <3>1, <3>2
    <2>2. QED
      BY <2>1 DEF TakenTwiceNeedsStampOrLag
  <1>2. QED
    BY <1>1, TypeInit, TypeStep, ReplayInit, ReplayStep, PTL DEF Spec
-----------------------------------------------------------------------------
(***************************************************************************)
(* The answer to a retry.                                                  *)
(***************************************************************************)

\* The reading of e was stored, an attempt left the key of e behind, or one
\* still holds it.
Accounted(e) ==
    \/ e \in ingested \cup spoiled
    \/ \E b \in Posts : event[b] = e /\ pc[b] \in Processing

\* Every key, and every refusal for one, has its account.
AccountInv ==
    /\ \A e \in Events : keys[e] # 0 => Accounted(e)
    /\ \A a \in Posts : pc[a] = "replay" => Accounted(event[a])

LEMMA AccountInit == Init => AccountInv
  BY DEF Init, AccountInv, Attempts

\* A step that stores no key and refuses nobody, and keeps every account.
LEMMA AccountFrame ==
    ASSUME TypeInv, AccountInv, UNCHANGED event,
           \A e \in Events : keys'[e] # 0 => keys[e] # 0,
           \A a \in Posts : pc'[a] = "replay" => pc[a] = "replay",
           ingested \cup spoiled \subseteq ingested' \cup spoiled',
           \A b \in Posts : pc[b] \in Processing =>
               pc'[b] \in Processing \/ event[b] \in ingested' \cup spoiled'
    PROVE  AccountInv'
  <1>1. ASSUME NEW e, Accounted(e) PROVE Accounted(e)'
    BY <1>1 DEF Accounted
  <1>2. QED
    BY <1>1 DEF AccountInv

LEMMA AccountStep == TypeInv /\ AccountInv /\ [Next]_vars => AccountInv'
  <1> SUFFICES ASSUME TypeInv, AccountInv, [Next]_vars PROVE AccountInv'
    OBVIOUS
  <1> USE PostsTyped DEF inputVars, GoTo
  <1>1. ASSUME NEW a \in Posts, NEW e \in Events, Receive(a, e) PROVE AccountInv'
    <2>1. ASSUME NEW f, Accounted(f) PROVE Accounted(f)'
      BY <1>1, <2>1 DEF Receive, Accounted, Processing, PostTypes
    <2>2. \A b \in Posts : pc'[b] = "replay" => pc[b] = "replay" /\ event'[b] = event[b]
      BY <1>1 DEF Receive, PostTypes
    <2>3. QED
      BY <1>1, <2>1, <2>2 DEF Receive, AccountInv
  <1>2. ASSUME NEW a \in Attempts, LookUp(a) PROVE AccountInv'
    <2>1. ASSUME NEW f, Accounted(f) PROVE Accounted(f)'
      BY <1>2, <2>1 DEF LookUp, Accounted, Processing, PostTypes
    <2>2. \A b \in Posts : pc'[b] = "replay" => pc[b] = "replay" \/ (b = a /\ keys[event[a]] # 0)
      BY <1>2 DEF LookUp, PostTypes
    <2>3. a \in Posts /\ event[a] \in Events /\ event' = event /\ keys' = keys
      BY <1>2 DEF LookUp, PostTypes, Attempts
    <2>4. QED
      BY <2>1, <2>2, <2>3 DEF AccountInv
  <1>3. ASSUME NEW a \in Posts, pc[a] = "store", StoreKey(a), UNCHANGED <<event, ingested>>,
               \/ pc' = [pc EXCEPT ![a] = "weather"] /\ UNCHANGED spoiled
               \/ /\ pc' = [pc EXCEPT ![a] = "invalid"] \/ pc' = [pc EXCEPT ![a] = "refused"]
                  /\ spoiled' = spoiled \cup {event[a]}
        PROVE  AccountInv'
    <2>1. ASSUME NEW f, Accounted(f) PROVE Accounted(f)'
      BY <1>3, <2>1 DEF Accounted, Processing, PostTypes
    <2>2. Accounted(event[a])'
      BY <1>3 DEF Accounted, Processing, PostTypes
    <2>3. event[a] \in Events /\ \A f \in Events : keys'[f] # 0 => keys[f] # 0 \/ f = event[a]
      BY <1>3 DEF StoreKey, PostTypes
    <2>4. \A b \in Posts : pc'[b] = "replay" => pc[b] = "replay"
      BY <1>3 DEF PostTypes
    <2>5. QED
      BY <1>3, <2>1, <2>2, <2>3, <2>4 DEF AccountInv
  <1>4. ASSUME NEW a \in Attempts, Store(a) PROVE AccountInv'
    BY <1>3, <1>4 DEF Store, PostTypes, Attempts
  <1>5. ASSUME NEW a \in Attempts, RefuseOnError(a) PROVE AccountInv'
    <2>1. a \in Posts
      BY <1>5 DEF RefuseOnError, PostTypes, Attempts, Checking
    <2>2. CASE UNCHANGED <<keys, stored, spoiled>>
      BY <1>5, <2>2, AccountFrame DEF RefuseOnError, PostTypes, Checking, Processing
    <2>3. CASE pc[a] = "store" /\ StoreKey(a) /\ spoiled' = spoiled \cup {event[a]}
      BY <1>3, <1>5, <2>1, <2>3 DEF RefuseOnError
    <2>4. QED
      BY <1>5, <2>2, <2>3 DEF RefuseOnError
  <1>6. ASSUME Restart, UNCHANGED <<event, ingested>> PROVE AccountInv'
    <2>1. ASSUME NEW a \in Posts, pc'[a] = "replay" PROVE pc[a] = "replay"
      BY <1>6, <2>1 DEF Restart, Attempts
    <2>2. \A b \in Posts : pc[b] \in Processing => event[b] \in spoiled'
      BY <1>6 DEF Restart
    <2>3. \A e \in Events : keys'[e] # 0 => keys[e] # 0
      BY <1>6 DEF Restart
    <2>4. spoiled \subseteq spoiled'
      BY <1>6 DEF Restart
    <2>5. QED
      BY <1>6, <2>1, <2>2, <2>3, <2>4, AccountFrame
  <1>7. ASSUME UNCHANGED <<event, keys, ingested, spoiled>>,
               NEW a \in Attempts, NEW stage, stage # "replay",
               a \in Posts /\ pc[a] \in Processing => stage \in Processing,
               pc' = [pc EXCEPT ![a] = stage]
        PROVE  AccountInv'
    BY <1>7, AccountFrame DEF PostTypes, Attempts
  <1>8. ASSUME NEW a \in Attempts, Reject(a), UNCHANGED <<event, ingested>> PROVE AccountInv'
    <2>1. CASE a \in Messages
      BY <1>7, <1>8, <2>1, AttemptsAssumption DEF Reject, integrityVars
    <2>2. CASE a \notin Messages
      BY <1>6, <1>8, <2>2 DEF Reject
    <2>3. QED
      BY <2>1, <2>2
  <1>9. ASSUME NEW a \in Attempts, Save(a) PROVE AccountInv'
    BY <1>9, AccountFrame DEF Save, integrityVars, PostTypes, Processing
  <1>10. ASSUME NEW a \in Attempts, AskWeather(a) \/ FetchWeather(a) PROVE AccountInv'
    BY <1>7, <1>10 DEF AskWeather, FetchWeather, integrityVars, Processing
  <1>11. ASSUME NEW a \in Attempts,
                ReadToken(a) \/ IssueToken(a) \/ KeepToken(a) \/ MissToken(a) \/ Answer(a)
         PROVE  AccountInv'
    BY <1>7, <1>11
    DEF ReadToken, IssueToken, KeepToken, MissToken, Answer, HandOut, integrityVars, Processing
  <1>12. ASSUME NEW a \in Messages, ReceiveMessage(a) PROVE AccountInv'
    BY <1>7, <1>12, AttemptsAssumption DEF ReceiveMessage, integrityVars, Attempts
  <1>13. ASSUME NEW a \in Attempts, FailWeather(a) \/ RejectWeather(a) PROVE AccountInv'
    BY <1>8, <1>13 DEF FailWeather, RejectWeather
  <1>14. CASE Crash
    BY <1>6, <1>14 DEF Crash
  <1>15. CASE Tick
    BY <1>15, AccountFrame DEF Tick, requestVars
  <1>16. CASE UNCHANGED vars
    BY <1>16, AccountFrame DEF vars, requestVars, integrityVars
  <1>17. QED
    BY <1>1, <1>2, <1>4, <1>5, <1>9, <1>10, <1>11, <1>12, <1>13, <1>14, <1>15, <1>16
    DEF Next, IntakeStep

\* A delivery is refused as a replay only when one before it was stored, is on
\* its way to be, or left its key behind and came to nothing: no retry is lost
\* for another reason, whatever fails and however the deliveries interleave.
THEOREM RefusalSafety == Spec => []RefusedRetryWasTaken
  <1>1. TypeInv /\ AccountInv => RefusedRetryWasTaken
    BY DEF AccountInv, Accounted, RefusedRetryWasTaken, Processing
  <1>2. QED
    BY <1>1, TypeInit, TypeStep, AccountInit, AccountStep, PTL DEF Spec
=============================================================================
