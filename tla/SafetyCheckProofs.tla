------------------------- MODULE SafetyCheckProofs -------------------------
(***************************************************************************)
(* The properties of module SafetyCheck hold for any number of checks,     *)
(* tokens and retries.                                                     *)
(*                                                                         *)
(* RiskPassesOnlyUnchecked speaks of a check that has returned; what has   *)
(* to be carried through its loop is that, as long as WeChat gives no      *)
(* trouble, each attempt after the first is paid for by a token that was   *)
(* spoiled: at most one attempt is open (Paid), and none is when a check   *)
(* holds a bad token, or is about to take a bad one from the cache.        *)
(***************************************************************************)
EXTENDS SafetyCheck, TLAPS

Paid(c) ==
    /\ attempt[c] <= churn[c] + 1
    /\ pc[c] = "cached" /\ cache \notin good \cup {NoToken} => attempt[c] <= churn[c]
    /\ pc[c] \in {"put", "check"} /\ token[c] \notin good => attempt[c] <= churn[c]

CheckInv(c) ==
    pc[c] # "idle" =>
        /\ verdict[c] = "none"
        /\ trouble[c] \/ Paid(c)

LoopInv == \A c \in Checks : CheckInv(c)

RiskInv(c) ==
    configured /\ risky[c] /\ verdict[c] = "allowed" =>
        trouble[c] \/ churn[c] >= MaxRetries

-----------------------------------------------------------------------------
\* The shared tail of the steps that return: the types of pc, token and verdict.
LEMMA ReturnsTypes ==
    ASSUME TypeOK, NEW c \in Checks, NEW v \in {"allowed", "rejected"}, Returns(c, v)
    PROVE  /\ pc' \in [Checks -> {"idle", "cached", "fetch", "put", "check", "clear"}]
           /\ token' \in [Checks -> Tokens \cup {NoToken}]
           /\ verdict' \in [Checks -> {"none", "allowed", "rejected"}]
  BY DEF TypeOK, Returns

\* Counting spoiled tokens keeps within the bound, loses nothing, and counts
\* for each check in C unless the bound is reached.
LEMMA ChurnedCounts ==
    ASSUME TypeOK, NEW C, Churned(C)
    PROVE  /\ churn' \in [Checks -> 0 .. MaxRetries]
           /\ \A d \in Checks :
                /\ churn'[d] >= churn[d]
                /\ d \in C => churn'[d] = MaxRetries \/ churn'[d] = churn[d] + 1
  BY SafetyCheckAssumption DEF TypeOK, Churned

\* The variables of SafetyCheck keep their types.
LEMMA TypePreserved == TypeOK /\ [Next]_vars => TypeOK'
  <1> SUFFICES ASSUME TypeOK, [Next]_vars
               PROVE  TypeOK'
      OBVIOUS
  <1> USE SafetyCheckAssumption
  <1>1. ASSUME NEW c \in Checks, NEW r \in BOOLEAN, Begin(c, r)
        PROVE  TypeOK'
    <2>1. CASE configured
      BY <1>1, <2>1 DEF Begin, TypeOK
    <2>2. CASE ~configured
      BY <1>1, <2>2, ReturnsTypes DEF Begin, TypeOK
    <2> QED  BY <2>1, <2>2
  <1>2. ASSUME NEW c \in Checks, ReadCache(c)
        PROVE  TypeOK'
    BY <1>2 DEF ReadCache, TypeOK
  <1>3. ASSUME NEW c \in Checks, FetchToken(c)
        PROVE  TypeOK'
    <2>1. churn' \in [Checks -> 0 .. MaxRetries]
      BY <1>3, ChurnedCounts DEF FetchToken
    <2>2. good' \subseteq Tokens /\ token' \in [Checks -> Tokens \cup {NoToken}]
      BY <1>3 DEF FetchToken, TypeOK
    <2>3. pc' \in [Checks -> {"idle", "cached", "fetch", "put", "check", "clear"}]
      BY <1>3 DEF FetchToken, TypeOK
    <2> QED  BY <1>3, <2>1, <2>2, <2>3 DEF FetchToken, TypeOK
  <1>4. ASSUME NEW c \in Checks, FetchFails(c)
        PROVE  TypeOK'
    BY <1>4, ReturnsTypes DEF FetchFails, TypeOK
  <1>5. ASSUME NEW c \in Checks, PutCache(c)
        PROVE  TypeOK'
    <2>1. churn' \in [Checks -> 0 .. MaxRetries]
      BY <1>5, ChurnedCounts DEF PutCache
    <2> QED  BY <1>5, <2>1 DEF PutCache, TypeOK
  <1>6. ASSUME NEW c \in Checks, Judged(c)
        PROVE  TypeOK'
    <2>1. CASE risky[c]
      BY <1>6, <2>1, ReturnsTypes DEF Judged, TypeOK
    <2>2. CASE ~risky[c]
      BY <1>6, <2>2, ReturnsTypes DEF Judged, TypeOK
    <2> QED  BY <2>1, <2>2
  <1>7. ASSUME NEW c \in Checks, TokenRefused(c)
        PROVE  TypeOK'
    <2>1. CASE MayRetry(c)
      BY <1>7, <2>1 DEF TokenRefused, MayRetry, TypeOK
    <2>2. CASE ~MayRetry(c)
      BY <1>7, <2>2, ReturnsTypes DEF TokenRefused, TypeOK
    <2> QED  BY <2>1, <2>2
  <1>8. ASSUME NEW c \in Checks, ClearToken(c)
        PROVE  TypeOK'
    BY <1>8 DEF ClearToken, TypeOK
  <1>9. ASSUME NEW c \in Checks, Busy(c)
        PROVE  TypeOK'
    <2>1. CASE MayRetry(c)
      BY <1>9, <2>1 DEF Busy, MayRetry, TypeOK
    <2>2. CASE ~MayRetry(c)
      BY <1>9, <2>2, ReturnsTypes DEF Busy, TypeOK
    <2> QED  BY <2>1, <2>2
  <1>10. ASSUME NEW c \in Checks, CheckFails(c)
         PROVE  TypeOK'
    BY <1>10, ReturnsTypes DEF CheckFails, TypeOK
  <1>11. ASSUME NEW t \in Tokens, TokenExpires(t)
         PROVE  TypeOK'
    <2>1. churn' \in [Checks -> 0 .. MaxRetries]
      BY <1>11, ChurnedCounts DEF TokenExpires
    <2> QED  BY <1>11, <2>1 DEF TokenExpires, TypeOK
  <1>12. CASE UNCHANGED vars
    BY <1>12 DEF vars, TypeOK
  <1> QED
    BY <1>1, <1>2, <1>3, <1>4, <1>5, <1>6, <1>7, <1>8, <1>9, <1>10, <1>11, <1>12
       DEF Next, Step

LEMMA TypeInitially == Init => TypeOK
  BY SafetyCheckAssumption DEF Init, TypeOK

\* The types of SafetyCheck, for every instance.
THEOREM TypeCorrect == Spec => []TypeOK
  BY TypeInitially, TypePreserved, PTL DEF Spec

-----------------------------------------------------------------------------
\* A step of another check, or of WeChat, leaves what check d has done alone.
Untouched(d) ==
    /\ pc'[d] = pc[d] /\ attempt'[d] = attempt[d]
    /\ verdict'[d] = verdict[d] /\ trouble'[d] = trouble[d]
    /\ risky'[d] = risky[d] /\ token'[d] = token[d]
    /\ configured' = configured

\* What others do to the cache and the tokens is either harmless to check d or
\* counted for it.
LEMMA Bystander ==
    ASSUME TypeOK, TypeOK', NEW d \in Checks, Untouched(d), CheckInv(d), RiskInv(d),
           churn'[d] >= churn[d],
           \/ churn'[d] = MaxRetries \/ churn'[d] = churn[d] + 1
           \/ cache' \in {cache, NoToken} \cup good /\ good \subseteq good'
    PROVE  CheckInv(d)' /\ RiskInv(d)'
  <1> USE SafetyCheckAssumption
  <1>1. /\ attempt[d] \in 0 .. MaxRetries
        /\ churn[d] \in 0 .. MaxRetries /\ churn'[d] \in 0 .. MaxRetries
    BY DEF TypeOK
  <1>2. RiskInv(d)'
    BY <1>1 DEF RiskInv, Untouched
  <1>3. ASSUME Paid(d)
        PROVE  Paid(d)'
    BY <1>1, <1>3 DEF Paid, Untouched
  <1> QED  BY <1>2, <1>3 DEF CheckInv, Untouched

\* The steps of check c keep its invariant and its verdict honest.
LEMMA OwnStep ==
    ASSUME TypeOK, TypeOK', NEW c \in Checks, Step(c), CheckInv(c)
    PROVE  CheckInv(c)' /\ RiskInv(c)'
  <1> USE SafetyCheckAssumption
  <1>0. /\ attempt[c] \in 0 .. MaxRetries /\ attempt'[c] \in 0 .. MaxRetries
        /\ churn[c] \in 0 .. MaxRetries /\ churn'[c] \in 0 .. MaxRetries
    BY DEF TypeOK
  <1>1. CASE ReadCache(c)
    BY <1>0, <1>1 DEF ReadCache, CheckInv, RiskInv, Paid, TypeOK
  <1>2. CASE FetchToken(c)
    <2>1. PICK t \in Tokens : t \in good' /\ token' = [token EXCEPT ![c] = t]
      BY <1>2 DEF FetchToken
    <2>2. churn'[c] = churn[c]
      BY <1>2 DEF FetchToken, Churned
    <2>3. /\ pc[c] = "fetch" /\ pc'[c] = "put" /\ token'[c] \in good'
          /\ attempt' = attempt /\ verdict' = verdict /\ trouble' = trouble
      BY <1>2, <2>1 DEF FetchToken, TypeOK
    <2> QED  BY <1>0, <2>2, <2>3 DEF CheckInv, RiskInv, Paid
  <1>3. CASE FetchFails(c)
    BY <1>0, <1>3 DEF FetchFails, Returns, CheckInv, RiskInv, TypeOK
  <1>4. CASE PutCache(c)
    <2>1. churn'[c] = churn[c]
      BY <1>4 DEF PutCache, Churned
    <2>2. /\ pc[c] = "put" /\ pc'[c] = "check" /\ token' = token /\ good' = good
          /\ attempt' = attempt /\ verdict' = verdict /\ trouble' = trouble
      BY <1>4 DEF PutCache, TypeOK
    <2> QED  BY <1>0, <2>1, <2>2 DEF CheckInv, RiskInv, Paid
  <1>5. CASE Judged(c)
    <2>1. CASE risky[c]
      BY <1>5, <2>1 DEF Judged, Returns, CheckInv, RiskInv, TypeOK
    <2>2. CASE ~risky[c]
      BY <1>5, <2>2 DEF Judged, Returns, CheckInv, RiskInv, TypeOK
    <2> QED  BY <2>1, <2>2
  <1>6. CASE TokenRefused(c)
    <2>1. trouble[c] \/ attempt[c] <= churn[c]
      BY <1>6 DEF TokenRefused, CheckInv, Paid
    <2>2. CASE MayRetry(c)
      <3>1. /\ pc'[c] = "clear" /\ attempt'[c] = attempt[c] + 1
            /\ verdict' = verdict /\ trouble' = trouble /\ churn' = churn
        BY <1>6, <2>2 DEF TokenRefused, TypeOK
      <3>2. verdict[c] = "none"
        BY <1>6 DEF TokenRefused, CheckInv
      <3> QED  BY <1>0, <2>1, <3>1, <3>2 DEF CheckInv, RiskInv, Paid
    <2>3. CASE ~MayRetry(c)
      <3>1. pc'[c] = "idle" /\ trouble' = trouble /\ churn' = churn
        BY <1>6, <2>3 DEF TokenRefused, Returns, TypeOK
      <3>2. trouble[c] \/ churn[c] >= MaxRetries
        BY <1>0, <2>1, <2>3 DEF MayRetry
      <3> QED  BY <3>1, <3>2 DEF CheckInv, RiskInv
    <2> QED  BY <2>2, <2>3
  <1>7. CASE ClearToken(c)
    <2>1. /\ pc[c] = "clear" /\ pc'[c] = "cached" /\ cache' = NoToken
          /\ UNCHANGED <<attempt, verdict, trouble, churn>>
      BY <1>7 DEF ClearToken, TypeOK
    <2> QED  BY <1>0, <2>1 DEF CheckInv, RiskInv, Paid
  <1>8. CASE Busy(c)
    <2>1. trouble'[c]
      BY <1>8 DEF Busy, TypeOK
    <2>2. CASE MayRetry(c)
      BY <1>8, <2>1, <2>2 DEF Busy, CheckInv, RiskInv
    <2>3. CASE ~MayRetry(c)
      BY <1>8, <2>1, <2>3 DEF Busy, Returns, CheckInv, RiskInv, TypeOK
    <2> QED  BY <2>2, <2>3
  <1>9. CASE CheckFails(c)
    BY <1>9 DEF CheckFails, Returns, CheckInv, RiskInv, TypeOK
  <1> QED
    BY <1>1, <1>2, <1>3, <1>4, <1>5, <1>6, <1>7, <1>8, <1>9 DEF Step

\* A new check owes nothing.
LEMMA BeginsEven ==
    ASSUME TypeOK, TypeOK', NEW c \in Checks, NEW r \in BOOLEAN, Begin(c, r)
    PROVE  CheckInv(c)' /\ RiskInv(c)'
  <1> USE SafetyCheckAssumption
  <1>1. attempt'[c] = 0 /\ churn'[c] = 0 /\ configured' = configured
    BY DEF Begin, TypeOK
  <1>2. CASE configured
    <2>1. pc'[c] = "cached" /\ verdict'[c] = "none"
      BY <1>2 DEF Begin, TypeOK
    <2> QED  BY <1>1, <2>1 DEF CheckInv, RiskInv, Paid
  <1>3. CASE ~configured
    <2>1. pc'[c] = "idle"
      BY <1>3 DEF Begin, Returns, TypeOK
    <2> QED  BY <1>1, <1>3, <2>1 DEF CheckInv, RiskInv
  <1> QED  BY <1>2, <1>3

\* A step of check c leaves every other check untouched, and what it does to
\* the tokens is counted for them.
LEMMA OthersUntouched ==
    ASSUME TypeOK, NEW c \in Checks, NEW d \in Checks, c # d,
           Step(c) \/ \E r \in BOOLEAN : Begin(c, r)
    PROVE  /\ Untouched(d)
           /\ churn'[d] >= churn[d]
           /\ \/ churn'[d] = MaxRetries \/ churn'[d] = churn[d] + 1
              \/ cache' \in {cache, NoToken} \cup good /\ good \subseteq good'
  <1> USE SafetyCheckAssumption
  <1>0. churn[d] \in 0 .. MaxRetries
    BY DEF TypeOK
  <1>1. CASE FetchToken(c) \/ PutCache(c)
    <2>1. PICK C : /\ Churned(C)
                   /\ \/ C = Checks \ {c}
                      \/ cache' \in {cache} \cup good /\ good \subseteq good'
      <3>1. CASE FetchToken(c)
        BY <3>1 DEF FetchToken
      <3>2. CASE PutCache(c)
        BY <3>2 DEF PutCache
      <3> QED  BY <1>1, <3>1, <3>2
    <2>2. churn'[d] >= churn[d]
          /\ (d \in C => churn'[d] = MaxRetries \/ churn'[d] = churn[d] + 1)
      BY <2>1, ChurnedCounts
    <2>3. Untouched(d)
      BY <1>1 DEF FetchToken, PutCache, Untouched, TypeOK
    <2> QED  BY <2>1, <2>2, <2>3
  <1>2. CASE ReadCache(c) \/ ClearToken(c)
    BY <1>0, <1>2 DEF ReadCache, ClearToken, Untouched, TypeOK
  <1>3. CASE FetchFails(c) \/ Judged(c) \/ CheckFails(c)
    BY <1>0, <1>3 DEF FetchFails, Judged, CheckFails, Returns, Untouched, TypeOK
  <1>4. CASE TokenRefused(c) \/ Busy(c)
    <2>1. CASE MayRetry(c)
      BY <1>0, <1>4, <2>1 DEF TokenRefused, Busy, Untouched, TypeOK
    <2>2. CASE ~MayRetry(c)
      BY <1>0, <1>4, <2>2 DEF TokenRefused, Busy, Returns, Untouched, TypeOK
    <2> QED  BY <2>1, <2>2
  <1>5. ASSUME NEW r \in BOOLEAN, Begin(c, r)
        PROVE  Untouched(d) /\ churn'[d] = churn[d] /\ cache' = cache /\ good' = good
    <2>1. CASE configured
      BY <1>5, <2>1 DEF Begin, Untouched, TypeOK
    <2>2. CASE ~configured
      BY <1>5, <2>2 DEF Begin, Returns, Untouched, TypeOK
    <2> QED  BY <2>1, <2>2
  <1>6. CASE \E r \in BOOLEAN : Begin(c, r)
    BY <1>0, <1>5, <1>6
  <1> QED
    BY <1>1, <1>2, <1>3, <1>4, <1>6 DEF Step

\* LoopInv, with the property, is inductive.
LEMMA LoopInductive ==
    ASSUME TypeOK, TypeOK', LoopInv, RiskPassesOnlyUnchecked, [Next]_vars
    PROVE  LoopInv' /\ RiskPassesOnlyUnchecked'
  <1> USE SafetyCheckAssumption
  <1> SUFFICES ASSUME NEW d \in Checks
               PROVE  CheckInv(d)' /\ RiskInv(d)'
      BY DEF LoopInv, RiskPassesOnlyUnchecked, RiskInv
  <1>0. CheckInv(d) /\ RiskInv(d)
    BY DEF LoopInv, RiskPassesOnlyUnchecked, RiskInv
  <1>1. ASSUME NEW c \in Checks, Step(c) \/ \E r \in BOOLEAN : Begin(c, r)
        PROVE  CheckInv(d)' /\ RiskInv(d)'
    <2>1. CASE c = d
      BY <1>0, <1>1, <2>1, OwnStep, BeginsEven
    <2>2. CASE c # d
      BY <1>0, <1>1, <2>2, OthersUntouched, Bystander
    <2> QED  BY <2>1, <2>2
  <1>2. ASSUME NEW t \in Tokens, TokenExpires(t)
        PROVE  CheckInv(d)' /\ RiskInv(d)'
    <2>1. Churned(Checks) /\ Untouched(d)
      BY <1>2 DEF TokenExpires, Untouched
    <2>2. churn'[d] >= churn[d] /\ (churn'[d] = MaxRetries \/ churn'[d] = churn[d] + 1)
      BY <2>1, ChurnedCounts
    <2> QED  BY <1>0, <2>1, <2>2, Bystander
  <1>3. CASE UNCHANGED vars
    <2>1. churn[d] \in 0 .. MaxRetries
      BY DEF TypeOK
    <2> QED  BY <1>0, <1>3, <2>1, Bystander DEF vars, Untouched
  <1> QED
    BY <1>1, <1>2, <1>3 DEF Next

\* Risky text gets through only when the check could not be made, for any
\* number of checks that share the cache and any number of retries.
THEOREM RiskPassesOnlyUncheckedHolds == Spec => []RiskPassesOnlyUnchecked
  <1>1. Init => LoopInv /\ RiskPassesOnlyUnchecked
    BY DEF Init, LoopInv, CheckInv, RiskPassesOnlyUnchecked
  <1>2. TypeOK /\ TypeOK' /\ (LoopInv /\ RiskPassesOnlyUnchecked) /\ [Next]_vars
            => (LoopInv /\ RiskPassesOnlyUnchecked)'
    BY LoopInductive
  <1> QED
    BY <1>1, <1>2, TypeCorrect, PTL DEF Spec
=============================================================================
