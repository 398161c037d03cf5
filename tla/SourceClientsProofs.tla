------------------------- MODULE SourceClientsProofs -------------------------
(***************************************************************************)
(* Theorems about SourceClients, for every number of retries.              *)
(***************************************************************************)
EXTENDS SourceClients, FiniteSetTheorems, WellFoundedInduction, TLAPS

-----------------------------------------------------------------------------
(* Type correctness.                                                       *)

LEMMA TypeStep ==
    ASSUME TypeOK, [Next]_vars
    PROVE  TypeOK'
<1> USE RetriesAssumption DEF TypeOK, Sources, NoToken
<1>1. Credential \in Credentials
  BY DEF Credential, Credentials, ApiKey, Bearer
<1>2. \A source, tok : FirstStep(source, tok) \in {"token", "send"}
  BY DEF FirstStep
<1>3. attempt \in Nat /\ (attempt < MaxRetries => attempt + 1 \in 0..MaxRetries)
  OBVIOUS
<1>4. CASE TokenIssued
  BY <1>4 DEF TokenIssued
<1>5. CASE TokenDenied
  BY <1>5 DEF TokenDenied, CallEnds
<1>6. ASSUME Sends
      PROVE  /\ sent' \in SUBSET [source : Sources, query : BOOLEAN, credential : Credentials]
             /\ issued' \in Nat
  BY <1>1, <1>6 DEF Sends
<1>7. ASSUME NEW pause, NEW tok \in Nat, Retry(pause, tok)
      PROVE  /\ stage' = stage /\ step' \in {"token", "send"} /\ attempt' \in 0..MaxRetries
             /\ query' \in BOOLEAN /\ token' \in Nat
             /\ sourceErrors' = sourceErrors /\ answer' = answer
  BY <1>2, <1>3, <1>7 DEF Retry, QueryLeft
<1>8. ASSUME Sends, NEW failed \in BOOLEAN, FetchEnds(failed)
      PROVE  /\ stage' \in {"quickbooks", "match"} /\ step' \in {"token", "send"}
             /\ attempt' \in 0..MaxRetries /\ query' \in BOOLEAN /\ token' = token
             /\ sourceErrors' \in SUBSET Sources /\ answer' = answer
  BY <1>2, <1>8 DEF FetchEnds, Sends
<1>9. CASE Succeeds
  BY <1>6, <1>8, <1>9 DEF Succeeds
<1>10. CASE FailsForNow
  BY <1>6, <1>7, <1>8, <1>10 DEF FailsForNow
<1>11. CASE Unauthorized \/ Forbidden \/ Escapes
  <2>1. Sends /\ rejected' \in SUBSET Credentials
    BY <1>1, <1>11 DEF Unauthorized, Forbidden, Escapes
  <2>2. CASE Retry(0, NoToken)
    BY <1>6, <1>7, <2>1, <2>2
  <2>3. CASE /\ \E error \in {"unprocessable", "internal_server_error"} : CallEnds(error)
             /\ token' \in {token, NoToken}
    BY <1>6, <2>1, <2>3 DEF CallEnds
  <2>4. QED BY <1>11, <2>2, <2>3 DEF Unauthorized, Forbidden, Escapes
<1>12. CASE UNCHANGED vars
  BY <1>12 DEF vars
<1>13. QED BY <1>4, <1>5, <1>9, <1>10, <1>11, <1>12 DEF Next, Answered, Ended

(* The types of every variable hold in every reachable state: no fetch     *)
(* makes more attempts than http_max_retries allows.                       *)
THEOREM TypeCorrect == Spec => []TypeOK
<1>1. Init => TypeOK
  BY RetriesAssumption DEF Init, TypeOK, Sources, NoToken
<1>2. QED BY <1>1, TypeStep, PTL DEF Spec

-----------------------------------------------------------------------------
(* Requests carry the date range.                                          *)

(* ServiceTitan's arguments stay as they are through its whole loop.       *)
RangeKept ==
    /\ ServiceTitanKeepsTheRange
    /\ stage = "servicetitan" => query

(* No retry of a ServiceTitan fetch asks for less than its first attempt.  *)
THEOREM RangeAlwaysKept == Spec => []ServiceTitanKeepsTheRange
<1> USE DEF RangeKept, ServiceTitanKeepsTheRange
<1>1. Init => RangeKept
  BY DEF Init
<1>2. ASSUME RangeKept, [Next]_vars
      PROVE  RangeKept'
  <2>1. CASE Sends
    <3>1. ServiceTitanKeepsTheRange'
      BY <1>2, <2>1 DEF Sends
    <3>2. stage' = "servicetitan" => stage = "servicetitan" /\ query'
      BY <1>2, <2>1 DEF Sends, Next, Answered, TokenIssued, TokenDenied, Refreshing,
         Succeeds, FailsForNow, Unauthorized, Forbidden, Escapes, Ended, FetchEnds,
         Retry, QueryLeft, CallEnds, Sources, vars
    <3>3. QED BY <3>1, <3>2
  <2>2. CASE TokenIssued \/ TokenDenied \/ UNCHANGED vars
    BY <1>2, <2>2 DEF TokenIssued, TokenDenied, Refreshing, CallEnds, vars
  <2>3. QED BY <1>2, <2>1, <2>2
        DEF Next, Answered, Succeeds, FailsForNow, Unauthorized, Forbidden, Escapes, Ended
<1>3. QED BY <1>1, <1>2, PTL DEF Spec

-----------------------------------------------------------------------------
(* Tokens.                                                                 *)

(* A token is either good so far and the last one issued, or about to be   *)
(* replaced, and then every token issued was rejected.                     *)
TokenState ==
    /\ IsFiniteSet(rejected)
    /\ \A t \in Nat : Bearer(t) \in rejected => t <= issued
    /\ stage = "servicetitan" =>
          step = "send" /\ rejected = {} /\ issued = 0
    /\ stage = "quickbooks" /\ step = "send" =>
          token = issued /\ token # NoToken /\ Bearer(token) \notin rejected
    /\ stage = "quickbooks" /\ step = "token" =>
          issued <= Cardinality(rejected)
    /\ TokensAreReused

(* What an answer of an API may come to.                                   *)
TriesAgain == UNCHANGED <<stage, step, token, rejected>>
MovesOn ==
    /\ UNCHANGED rejected
    /\ \/ stage = "servicetitan" /\ stage' = "quickbooks" /\ step' = "token"
       \/ stage' = "match"
DropsToken ==
    /\ stage = "quickbooks" /\ stage' = "quickbooks" /\ step' = "token"
    /\ rejected' = rejected \cup {Bearer(token)}
GivesUp ==
    /\ stage' = "done"
    /\ \E c : rejected' \in {rejected, rejected \cup {c}}
    /\ \A t \in Nat : Bearer(t) \in rejected' \ rejected =>
          stage = "quickbooks" /\ t = token

LEMMA BearersDiffer ==
    ASSUME NEW t, NEW u
    PROVE  /\ Bearer(t) = Bearer(u) => t = u
           /\ Bearer(t) # ApiKey
BY DEF Bearer, ApiKey

LEMMA SendSteps ==
    ASSUME TypeOK, TokenState, Sends, [Next]_vars
    PROVE  issued' = issued /\ (TriesAgain \/ MovesOn \/ DropsToken \/ GivesUp)
<1>1. issued' = issued /\ step = "send"
  BY DEF Sends
<1>2. ASSUME NEW pause, Retry(pause, token), UNCHANGED rejected
      PROVE  TriesAgain
  BY <1>1, <1>2 DEF Retry, FirstStep, TriesAgain, TokenState
<1>3. ASSUME NEW failed, FetchEnds(failed), UNCHANGED rejected
      PROVE  MovesOn
  BY <1>3 DEF FetchEnds, FirstStep, MovesOn, Sends, Sources
<1>4. ASSUME NEW error, CallEnds(error), rejected' \in {rejected, rejected \cup {Credential}}
      PROVE  GivesUp
  <2>1. \A t \in Nat : Bearer(t) \in rejected' \ rejected =>
            stage = "quickbooks" /\ t = token
    BY <1>4, BearersDiffer DEF Credential, Sends, Sources
  <2>2. QED BY <1>4, <2>1 DEF CallEnds, GivesUp
<1>5. CASE Succeeds \/ FailsForNow
  BY <1>1, <1>2, <1>3, <1>5 DEF Succeeds, FailsForNow
<1>6. CASE Unauthorized
  <2>1. CASE stage = "quickbooks" /\ Retry(0, NoToken)
    BY <1>1, <1>6, <2>1 DEF Unauthorized, Retry, FirstStep, Credential, DropsToken
  <2>2. CASE CallEnds("unprocessable")
    BY <1>1, <1>4, <1>6, <2>2 DEF Unauthorized
  <2>3. QED BY <1>6, <2>1, <2>2 DEF Unauthorized
<1>7. CASE Forbidden \/ Escapes
  BY <1>1, <1>4, <1>7 DEF Forbidden, Escapes
<1>8. CASE UNCHANGED vars
  BY <1>8 DEF vars, TriesAgain
<1>9. QED BY <1>1, <1>5, <1>6, <1>7, <1>8
      DEF Next, Answered, Ended, TokenIssued, TokenDenied, Refreshing

LEMMA TokenStep ==
    ASSUME TypeOK, TokenState, [Next]_vars
    PROVE  TokenState'
<1> USE DEF TypeOK, TokenState, TokensAreReused, Sources, NoToken
<1>1. Cardinality(rejected) \in Nat
  BY FS_CardinalityType
<1>2. CASE TokenIssued
  <2>1. Bearer(issued + 1) \notin rejected
    BY DEF TypeOK
  <2>2. QED BY <1>1, <1>2, <2>1 DEF TokenIssued, Refreshing
<1>3. CASE TokenDenied
  BY <1>1, <1>3 DEF TokenDenied, CallEnds, Refreshing
<1>4. CASE Sends
  <2>1. issued' = issued /\ stage \in Sources /\ step = "send"
    BY <1>4, SendSteps DEF Sends
  <2>2. CASE TriesAgain
    BY <1>1, <2>1, <2>2 DEF TriesAgain
  <2>3. CASE MovesOn
    BY <1>1, <2>1, <2>3 DEF MovesOn
  <2>4. CASE DropsToken
    <3>1. /\ IsFiniteSet(rejected')
          /\ Cardinality(rejected') = Cardinality(rejected) + 1
      BY <2>1, <2>4, FS_AddElement DEF DropsToken
    <3>2. \A t \in Nat : Bearer(t) \in rejected' => t <= issued
      BY <2>1, <2>4, BearersDiffer DEF DropsToken
    <3>3. QED BY <1>1, <2>1, <2>4, <3>1, <3>2 DEF DropsToken
  <2>5. CASE GivesUp
    <3>1. /\ IsFiniteSet(rejected')
          /\ Cardinality(rejected') \in {Cardinality(rejected), Cardinality(rejected) + 1}
      BY <2>5, FS_AddElement DEF GivesUp
    <3>2. \A t \in Nat : Bearer(t) \in rejected' => t <= issued
      BY <2>1, <2>5 DEF GivesUp
    <3>3. QED BY <1>1, <2>1, <2>5, <3>1, <3>2 DEF GivesUp
  <2>6. QED BY <1>4, <2>2, <2>3, <2>4, <2>5, SendSteps
<1>5. CASE UNCHANGED vars
  BY <1>5 DEF vars
<1>6. QED BY <1>2, <1>3, <1>4, <1>5
      DEF Next, Answered, Ended, Succeeds, FailsForNow, Unauthorized, Forbidden, Escapes

LEMMA TokenStateAlways == Spec => []TokenState
<1>1. Init => TokenState
  BY FS_EmptySet DEF Init, TokenState, TokensAreReused, NoToken
<1>2. QED BY <1>1, TokenStep, TypeCorrect, PTL DEF Spec

(* Only a rejected token is ever refreshed.                                *)
THEOREM TokensReused == Spec => []TokensAreReused
<1>1. TokenState => TokensAreReused
  BY DEF TokenState
<1>2. QED BY <1>1, TokenStateAlways, PTL

(* No request is about to be sent with a credential that was rejected.     *)
THEOREM RefusedNotReused == Spec => []RefusedCredentialsAreNotReused
<1>1. TokenState => RefusedCredentialsAreNotReused
  BY DEF TokenState, RefusedCredentialsAreNotReused, Credential, Sources
<1>2. QED BY <1>1, TokenStateAlways, PTL

-----------------------------------------------------------------------------
(* The loops implement the fetches of ReconcileEndpoint.                   *)

(* A fetch that ends, with or without an error, is the fetch of the        *)
(* endpoint that goes on.                                                  *)
LEMMA EndIsFetch ==
    ASSUME stage \in Sources, NEW failed \in BOOLEAN, FetchEnds(failed)
    PROVE  Endpoint!Next
<1> DEFINE next == IF stage = "servicetitan" THEN "quickbooks" ELSE "match"
<1>1. stage' = next /\ answer' = answer /\ stage # "done" /\ stage' # "done"
  BY DEF FetchEnds, Sources
<1>2. Endpoint!Goto("call", next)
  BY <1>1 DEF Endpoint!Goto
<1>3. [r \in {"call"} |-> sourceErrors'] =
        (IF failed
         THEN [[r \in {"call"} |-> sourceErrors] EXCEPT !["call"] = @ \cup {stage}]
         ELSE [r \in {"call"} |-> sourceErrors])
  BY DEF FetchEnds
<1>4. Endpoint!Fetch("call", stage, next)
  <2> DEFINE outcome == IF failed THEN "error" ELSE "ok"
  <2>1. outcome \in {"ok", "error", "auth", "escape"} \cap {"ok", "malformed", "error"}
        /\ (outcome = "error" <=> failed)
    OBVIOUS
  <2>2. QED BY <1>1, <1>2, <1>3, <2>1 DEF Endpoint!Fetch
<1>5. Endpoint!HandlerStep("call")
  BY <1>4 DEF Sources, Endpoint!HandlerStep, Endpoint!FetchServiceTitan,
              Endpoint!FetchQuickBooks
<1>6. QED BY <1>5 DEF Endpoint!Next

(* A call that ends with an error is the endpoint's that raises it.        *)
LEMMA EndIsRaise ==
    ASSUME stage \in Sources,
           NEW error \in {"unprocessable", "internal_server_error"}, CallEnds(error)
    PROVE  Endpoint!Next
<1>1. stage' = "done" /\ answer' = error /\ sourceErrors' = {}
  BY DEF CallEnds
<1>2. Endpoint!Raise("call", error)
  BY <1>1 DEF Endpoint!Raise, Endpoint!Answered, Endpoint!Goto, Endpoint!LocalsDie
<1>3. \A next : Endpoint!Fetch("call", stage, next)
  <2> DEFINE outcome == IF error = "unprocessable" THEN "auth" ELSE "escape"
  <2>1. outcome \in {"ok", "error", "auth", "escape"}
    OBVIOUS
  <2>2. QED BY <1>2, <2>1 DEF Endpoint!Fetch
<1>4. Endpoint!HandlerStep("call")
  BY <1>3 DEF Sources, Endpoint!HandlerStep, Endpoint!FetchServiceTitan,
              Endpoint!FetchQuickBooks
<1>5. QED BY <1>4 DEF Endpoint!Next

(* Each answer of a remote system is a step of the endpoint or none.       *)
LEMMA EndpointStep ==
    ASSUME [Next]_vars
    PROVE  [Endpoint!Next]_(Endpoint!vars)
<1>1. ASSUME UNCHANGED <<stage, sourceErrors, answer>>
      PROVE  UNCHANGED Endpoint!vars
  BY <1>1 DEF Endpoint!vars
<1>2. CASE TokenIssued \/ UNCHANGED vars
  BY <1>1, <1>2 DEF TokenIssued, vars
<1>3. CASE TokenDenied
  BY <1>3, EndIsRaise DEF TokenDenied, Refreshing, Sources
<1>4. CASE Succeeds
  BY <1>4, EndIsFetch DEF Succeeds, Sends
<1>5. CASE FailsForNow
  BY <1>1, <1>5, EndIsFetch DEF FailsForNow, Sends, Retry
<1>6. CASE Unauthorized
  BY <1>1, <1>6, EndIsRaise DEF Unauthorized, Sends, Retry
<1>7. CASE Forbidden \/ Escapes
  BY <1>7, EndIsRaise DEF Forbidden, Escapes, Sends
<1>8. QED BY <1>2, <1>3, <1>4, <1>5, <1>6, <1>7 DEF Next, Answered, Ended

(* Whatever the remote systems answer and however often a client retries,  *)
(* a fetch comes to one of the outcomes ReconcileEndpoint allows.          *)
THEOREM ClientsImplementFetches == Spec => StepsOfEndpoint
BY EndpointStep, PTL DEF Spec, StepsOfEndpoint

-----------------------------------------------------------------------------
(* Backoff.                                                                *)

(* Every set of numbers has a least one: what takes the place of induction *)
(* below, a counterexample having a least one.                             *)
LEMMA LeastNumber ==
    ASSUME NEW some \in SUBSET Nat, some # {}
    PROVE  \E n \in some : \A m \in some : n <= m
<1> DEFINE less == {pair \in Nat \X Nat : pair[1] < pair[2]}
<1>1. IsWellFoundedOn(less, Nat)
  BY NatLessThanWellFounded DEF OpToRel
<1>2. PICK n \in some : \A m \in some : ~(<<m, n>> \in less)
  <2> HIDE DEF less
  <2>1. QED BY <1>1, WFMin
<1>3. \A m \in some : ~(m < n)
  BY <1>2
<1>4. QED BY <1>3

(* The powers of two up to the n-th, and that there is one such list.      *)
Powers(n) == {f \in [0..n -> Nat] : f[0] = 1 /\ \A i \in 1..n : f[i] = 2 * f[i - 1]}

LEMMA PowersExist == \A n \in Nat : Powers(n) # {}
<1> DEFINE missing == {n \in Nat : Powers(n) = {}}
<1>1. SUFFICES ASSUME missing # {} PROVE FALSE
  OBVIOUS
<1>2. PICK n \in missing : \A m \in missing : n <= m
  BY <1>1, LeastNumber
<1>3. CASE n = 0
  <2>1. [i \in 0..0 |-> 1] \in Powers(0)
    BY DEF Powers
  <2>2. QED BY <1>2, <1>3, <2>1
<1>4. CASE n # 0
  <2>1. n \in Nat /\ n - 1 \in Nat /\ n - 1 \notin missing
    BY <1>2, <1>4
  <2>2. PICK f \in Powers(n - 1) : TRUE
    BY <2>1
  <2> DEFINE g == [i \in 0..n |-> IF i = n THEN 2 * f[n - 1] ELSE f[i]]
  <2>3. f \in [0..(n - 1) -> Nat] /\ f[0] = 1 /\ \A i \in 1..(n - 1) : f[i] = 2 * f[i - 1]
    BY <2>2 DEF Powers
  <2>4. g \in [0..n -> Nat] /\ g[0] = 1
    BY <1>4, <2>1, <2>3
  <2>5. \A i \in 1..n : g[i] = 2 * g[i - 1]
    <3> SUFFICES ASSUME NEW i \in 1..n PROVE g[i] = 2 * g[i - 1]
      OBVIOUS
    <3>1. i - 1 \in 0..n /\ i - 1 # n /\ i \in 0..n /\ g[i - 1] = f[i - 1]
      BY <2>1
    <3>2. CASE i = n
      BY <2>1, <3>1, <3>2
    <3>3. CASE i # n
      <4>1. i \in 1..(n - 1)
        BY <2>1, <3>3
      <4>2. QED BY <2>3, <3>1, <3>3, <4>1
    <3>4. QED BY <3>2, <3>3
  <2> HIDE DEF g
  <2>6. g \in Powers(n)
    BY <2>4, <2>5 DEF Powers
  <2>7. QED BY <1>2, <2>6
<1>5. QED BY <1>3, <1>4

LEMMA PowersAgree ==
    ASSUME NEW n \in Nat, NEW m \in Nat, NEW f \in Powers(n), NEW g \in Powers(m)
    PROVE  \A i \in 0..n : i \in 0..m => f[i] = g[i]
<1> DEFINE differ == {i \in 0..n : i \in 0..m /\ f[i] # g[i]}
<1>1. SUFFICES ASSUME differ # {} PROVE FALSE
  OBVIOUS
<1>2. differ \in SUBSET Nat
  OBVIOUS
<1>3. PICK i \in differ : \A k \in differ : i <= k
  <2> HIDE DEF differ
  <2>1. QED BY <1>1, <1>2, LeastNumber
<1>4. i # 0
  BY <1>3 DEF Powers
<1>5. i \in 1..n /\ i \in 1..m /\ i - 1 \in 0..n /\ i - 1 \in 0..m /\ i - 1 \notin differ
  BY <1>3, <1>4
<1>6. f[i - 1] = g[i - 1]
  BY <1>5
<1>7. f[i] = 2 * f[i - 1] /\ g[i] = 2 * g[i - 1]
  BY <1>5 DEF Powers
<1>8. QED BY <1>3, <1>6, <1>7

(* PowerOf2 doubles.                                                       *)
LEMMA PowerDoubles ==
    /\ PowerOf2 \in [Nat -> Nat]
    /\ PowerOf2[0] = 1
    /\ \A n \in Nat : PowerOf2[n + 1] = 2 * PowerOf2[n]
<1> DEFINE list(n) == CHOOSE f \in Powers(n) : TRUE
           power == [n \in Nat |-> list(n)[n]]
<1>1. ASSUME NEW n \in Nat PROVE list(n) \in Powers(n)
  BY PowersExist
<1> HIDE DEF list
<1>2. ASSUME NEW n \in Nat
      PROVE  power[n] \in Nat /\ power[n] = IF n = 0 THEN 1 ELSE 2 * power[n - 1]
  <2>1. list(n) \in [0..n -> Nat] /\ list(n)[0] = 1
        /\ \A i \in 1..n : list(n)[i] = 2 * list(n)[i - 1]
    BY <1>1 DEF Powers
  <2>2. CASE n = 0
    BY <2>1, <2>2
  <2>3. CASE n # 0
    <3>1. n - 1 \in Nat /\ n \in 1..n /\ n - 1 \in 0..n /\ n - 1 \in 0..(n - 1)
      BY <2>3
    <3>2. list(n)[n - 1] = list(n - 1)[n - 1]
      BY <1>1, <3>1, PowersAgree
    <3>3. QED BY <2>1, <2>3, <3>1, <3>2
  <2>4. QED BY <2>2, <2>3
<1>3. power = [n \in Nat |-> IF n = 0 THEN 1 ELSE 2 * power[n - 1]]
  <2>1. \A n \in Nat : power[n] = IF n = 0 THEN 1 ELSE 2 * power[n - 1]
    BY <1>2
  <2>2. power = [n \in Nat |-> power[n]]
    OBVIOUS
  <2> HIDE DEF power
  <2>3. QED BY <2>1, <2>2
<1> HIDE DEF power
<1>4. PowerOf2 = [n \in Nat |-> IF n = 0 THEN 1 ELSE 2 * PowerOf2[n - 1]]
  BY <1>3 DEF PowerOf2
<1>5. \A n \in Nat : PowerOf2[n] \in Nat
  <2> DEFINE odd == {n \in Nat : PowerOf2[n] \notin Nat}
  <2>1. SUFFICES ASSUME odd # {} PROVE FALSE
    OBVIOUS
  <2>2. PICK n \in odd : \A m \in odd : n <= m
    BY <2>1, LeastNumber
  <2>3. CASE n = 0
    BY <1>4, <2>2, <2>3
  <2>4. CASE n # 0
    <3>1. n - 1 \in Nat /\ PowerOf2[n] = 2 * PowerOf2[n - 1]
      BY <1>4, <2>2, <2>4
    <3>2. PowerOf2[n - 1] \in Nat
      BY <2>2, <3>1
    <3>3. QED BY <2>2, <3>1, <3>2
  <2>5. QED BY <2>3, <2>4
<1>6. \A n \in Nat : PowerOf2[n + 1] = 2 * PowerOf2[n]
  <2> SUFFICES ASSUME NEW n \in Nat PROVE PowerOf2[n + 1] = 2 * PowerOf2[n]
    OBVIOUS
  <2>1. n + 1 \in Nat /\ n + 1 # 0 /\ (n + 1) - 1 = n
    OBVIOUS
  <2>2. PowerOf2[n + 1] = 2 * PowerOf2[(n + 1) - 1]
    BY <1>4, <2>1
  <2>3. QED BY <2>1, <2>2
<1>7. QED BY <1>4, <1>5, <1>6

LEMMA PowersGrow ==
    ASSUME NEW n \in Nat, NEW m \in Nat, n <= m
    PROVE  PowerOf2[n] <= PowerOf2[m]
<1> DEFINE smaller == {k \in Nat : n <= k /\ PowerOf2[k] < PowerOf2[n]}
<1>1. \A k \in Nat : PowerOf2[k] \in Nat
  BY PowerDoubles
<1>2. SUFFICES ASSUME smaller # {} PROVE FALSE
  BY <1>1
<1>3. PICK k \in smaller : \A j \in smaller : k <= j
  BY <1>2, LeastNumber
<1>4. k # n /\ k \in Nat /\ n <= k
  BY <1>1, <1>3
<1>5. PICK j \in Nat : k = j + 1
  <2>1. k - 1 \in Nat /\ k = (k - 1) + 1
    BY <1>4
  <2>2. QED BY <2>1
<1>6. n <= j /\ j \notin smaller
  BY <1>3, <1>4, <1>5
<1>7. PowerOf2[n] <= PowerOf2[j]
  BY <1>1, <1>6
<1>8. PowerOf2[k] = 2 * PowerOf2[j]
  BY <1>5, PowerDoubles
<1>9. QED BY <1>1, <1>3, <1>7, <1>8

(* Before the sleep of an attempt, the ones before it sum to less than it. *)
SleptLess == waited \in Nat /\ waited < PowerOf2[attempt]

(* However the attempts of a fetch fail, it sleeps less than               *)
(* 2^MaxRetries units in all, since the last attempt is followed by none.  *)
THEOREM BackoffBounded == Spec => []BackoffIsBounded
<1>1. Init => SleptLess
  BY PowerDoubles DEF Init, SleptLess
<1>2. ASSUME TypeOK, SleptLess, [Next]_vars
      PROVE  SleptLess'
  <2>1. attempt \in Nat /\ \A n \in Nat : PowerOf2[n] \in Nat
    BY <1>2, RetriesAssumption, PowerDoubles DEF TypeOK
  <2>2. PowerOf2[attempt + 1] = 2 * PowerOf2[attempt] /\ PowerOf2[0] = 1
    BY <2>1, PowerDoubles
  <2>3. ASSUME NEW pause \in {0, PowerOf2[attempt]}, NEW tok, Retry(pause, tok)
        PROVE  SleptLess'
    <3>1. attempt' = attempt + 1 /\ waited' = waited + pause
      BY <2>3 DEF Retry
    <3>2. waited' \in Nat /\ waited' < PowerOf2[attempt + 1]
      BY <1>2, <2>1, <2>2, <3>1 DEF SleptLess
    <3>3. QED BY <3>1, <3>2 DEF SleptLess
  <2>4. ASSUME NEW failed, FetchEnds(failed)
        PROVE  SleptLess'
    BY <2>2, <2>4 DEF FetchEnds, SleptLess
  <2>5. ASSUME NEW error, CallEnds(error)
        PROVE  SleptLess'
    BY <1>2, <2>5 DEF CallEnds, SleptLess
  <2>6. CASE TokenIssued \/ TokenDenied
    BY <1>2, <2>5, <2>6 DEF TokenIssued, TokenDenied, SleptLess
  <2>7. CASE Succeeds \/ FailsForNow \/ Unauthorized \/ Forbidden \/ Escapes
    BY <2>3, <2>4, <2>5, <2>7
       DEF Succeeds, FailsForNow, Unauthorized, Forbidden, Escapes, Backoff
  <2>8. CASE UNCHANGED vars
    BY <1>2, <2>8 DEF vars, SleptLess
  <2>9. QED BY <1>2, <2>6, <2>7, <2>8 DEF Next, Answered, Ended
<1>3. ASSUME TypeOK, SleptLess
      PROVE  BackoffIsBounded
  <2>1. attempt \in Nat /\ MaxRetries \in Nat /\ attempt <= MaxRetries
    BY <1>3, RetriesAssumption DEF TypeOK
  <2>2. PowerOf2[attempt] <= PowerOf2[MaxRetries]
    BY <2>1, PowersGrow
  <2>3. PowerOf2[attempt] \in Nat /\ PowerOf2[MaxRetries] \in Nat
    BY <2>1, PowerDoubles
  <2>4. QED BY <1>3, <2>2, <2>3 DEF SleptLess, BackoffIsBounded
<1>4. QED BY <1>1, <1>2, <1>3, TypeCorrect, PTL DEF Spec

-----------------------------------------------------------------------------
(* How many requests a reconcile call may still send.                      *)

(* Each attempt at ServiceTitan is one request, each at QuickBooks one, or *)
(* two when it needs a token first.                                        *)
RequestsLeft ==
    CASE stage = "servicetitan" -> (MaxRetries - attempt + 1) + 2 * (MaxRetries + 1)
      [] stage = "quickbooks" ->
            2 * (MaxRetries - attempt) + (IF step = "token" THEN 2 ELSE 1)
      [] OTHER -> 0

(* Every answer of a remote system, whatever it says, brings the call      *)
(* nearer to the end of its fetches.                                       *)
LEMMA AnswersCount ==
    ASSUME TypeOK, Answered
    PROVE  RequestsLeft \in Nat /\ RequestsLeft' < RequestsLeft
<1> USE RetriesAssumption DEF TypeOK, RequestsLeft, Sources
<1>1. MaxRetries \in Nat /\ attempt \in Nat /\ attempt <= MaxRetries
  OBVIOUS
<1>2. CASE TokenIssued
  BY <1>1, <1>2 DEF TokenIssued, Refreshing
<1>3. CASE TokenDenied
  BY <1>1, <1>3 DEF TokenDenied, Refreshing, CallEnds
<1>4. ASSUME Sends, NEW pause, NEW tok, Retry(pause, tok)
      PROVE  RequestsLeft \in Nat /\ RequestsLeft' < RequestsLeft
  BY <1>1, <1>4 DEF Sends, Retry
<1>5. ASSUME Sends, NEW failed, FetchEnds(failed)
      PROVE  RequestsLeft \in Nat /\ RequestsLeft' < RequestsLeft
  BY <1>1, <1>5 DEF Sends, FetchEnds
<1>6. ASSUME Sends, NEW error, CallEnds(error)
      PROVE  RequestsLeft \in Nat /\ RequestsLeft' < RequestsLeft
  BY <1>1, <1>6 DEF Sends, CallEnds
<1>7. CASE Succeeds \/ FailsForNow \/ Unauthorized \/ Forbidden \/ Escapes
  BY <1>4, <1>5, <1>6, <1>7 DEF Succeeds, FailsForNow, Unauthorized, Forbidden, Escapes
<1>8. QED BY <1>2, <1>3, <1>7 DEF Answered

(* A reconcile call sends at most 3 * (http_max_retries + 1) requests, to  *)
(* the token endpoint and the APIs together, and is then through its       *)
(* fetches: no order of errors, refusals and fresh tokens makes the two    *)
(* loops go on for longer.                                                 *)
THEOREM FetchesAreFinite ==
    Spec => /\ [](RequestsLeft \in 0..3 * (MaxRetries + 1))
            /\ [](RequestsLeft = 0 <=> stage \in {"match", "done"})
            /\ [][Answered => RequestsLeft' < RequestsLeft]_vars
<1>1. TypeOK => RequestsLeft \in 0..3 * (MaxRetries + 1)
  BY RetriesAssumption DEF TypeOK, RequestsLeft, Sources
<1>2. TypeOK => (RequestsLeft = 0 <=> stage \in {"match", "done"})
  BY RetriesAssumption DEF TypeOK, RequestsLeft, Sources
<1>3. TypeOK /\ [Next]_vars => [Answered => RequestsLeft' < RequestsLeft]_vars
  BY AnswersCount
<1>4. QED BY <1>1, <1>2, <1>3, TypeCorrect, PTL DEF Spec
=============================================================================
