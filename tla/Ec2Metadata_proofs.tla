------------------------- MODULE Ec2Metadata_proofs -------------------------
(***************************************************************************)
(* The token of the metadata client is never rejected before the first     *)
(* outage, for every number of monitors and every lifetime, margin, period *)
(* and latency that satisfy MetadataAssumption.                            *)
(*                                                                         *)
(* TypesKept and LockKept hold of every step.  QuietKept is the argument   *)
(* about time: tokenTTL is ahead of the token by at most the pause and the *)
(* delays since the answer it was taken from (Lag), which the margin       *)
(* outweighs when CheckToken lets a token pass.                            *)
(***************************************************************************)
EXTENDS Ec2Metadata, SequenceTheorems, TLAPS

Lives == 0 .. MaxTTL

(* The constants are numbers. *)
LEMMA Numbers ==
  /\ MaxTTL \in Nat /\ secondsBeforeTTLRefresh \in Nat /\ Period \in Nat
  /\ Latency \in Nat /\ MaxOutages \in Nat
  BY MetadataAssumption

(* A token stays a token as time passes. *)
LEMMA OlderToken ==
  ASSUME NEW t \in {NoToken} \cup Lives
  PROVE  /\ Older(t) \in {NoToken} \cup Lives
         /\ Older(t) = NoToken <=> t = NoToken
         /\ Older(t) <= t /\ t <= Older(t) + 1
         /\ t \in Lives => Older(t) \in Lives
  BY Numbers DEF Older, NoToken, Lives

(* Time passing keeps the tokens in the headers of a request tokens. *)
LEMMA OlderHeaders ==
  ASSUME NEW h \in Seq(Lives)
  PROVE  LET g == [i \in DOMAIN h |-> Older(h[i])]
         IN  /\ g \in Seq(Lives) /\ Len(g) = Len(h)
             /\ \A i \in DOMAIN h : g[i] = Older(h[i])
<1> DEFINE g == [i \in DOMAIN h |-> Older(h[i])]
<1>1. DOMAIN h = 1 .. Len(h) /\ Len(h) \in Nat /\ \A i \in DOMAIN h : h[i] \in Lives
  OBVIOUS
<1>2. \A i \in 1 .. Len(h) : Older(h[i]) \in Lives
  BY <1>1, OlderToken
<1>3. g \in [1 .. Len(h) -> Lives]
  BY <1>1, <1>2
<1>4. g \in Seq(Lives) /\ Len(g) = Len(h)
  BY <1>1, <1>3
<1> QED BY <1>4

LEMMA InitInv == Init => MetadataInv
<1> SUFFICES ASSUME Init PROVE MetadataInv
  OBVIOUS
<1>1. MetadataTypeOK
  <2>1. headers \in [Monitor -> Seq(0 .. MaxTTL)]
    <3>1. << >> \in Seq(0 .. MaxTTL)
      OBVIOUS
    <3> QED BY <3>1 DEF Init
  <2> QED BY <2>1, MetadataAssumption
          DEF Init, MetadataTypeOK, Pc, NoToken, NoTTL, Limit, tokenRetryAttempts
<1>2. LockHeld
  BY MetadataAssumption DEF Init, LockHeld
<1>3. \A m \in Monitor : TokenKnown(m)
  BY DEF Init, TokenKnown
<1> QED BY <1>1, <1>2, <1>3 DEF MetadataInv, Init

(* Every step of a call keeps the types. *)
LEMMA RequestTypes ==
  ASSUME MetadataTypeOK, NEW m \in Monitor, StartRequest(m) \/ RequestStep(m)
  PROVE  MetadataTypeOK'
<1> USE DEF Goto, cache, service, NoToken, NoTTL, tokenRetryAttempts
<1> USE Numbers
<1>0. /\ << >> \in Seq(0 .. MaxTTL)
      /\ \A n \in Monitor : clock[n] \in Nat /\ pc[n] \in Pc
  BY DEF MetadataTypeOK
<1>1. ASSUME UNCHANGED clock, pc[m] # "idle" \/ pc'[m] = "idle",
             NEW to \in Pc, pc' = [pc EXCEPT ![m] = to], to # "idle", MetadataTypeOK
      PROVE  /\ pc' \in [Monitor -> Pc] /\ clock' \in [Monitor -> Nat]
             /\ \A n \in Monitor : clock'[n] <= Limit(n)'
  BY <1>1 DEF MetadataTypeOK, Limit
<1>2. ASSUME NEW to \in Pc, pc' = [pc EXCEPT ![m] = to],
             clock' = [clock EXCEPT ![m] = 0], MetadataTypeOK
      PROVE  /\ pc' \in [Monitor -> Pc] /\ clock' \in [Monitor -> Nat]
             /\ \A n \in Monitor : clock'[n] <= Limit(n)'
  BY <1>2 DEF MetadataTypeOK, Limit
<1>3. CASE StartRequest(m)
  <2>1. /\ pc' \in [Monitor -> Pc] /\ clock' \in [Monitor -> Nat]
        /\ \A n \in Monitor : clock'[n] <= Limit(n)'
    BY <1>2, <1>3 DEF StartRequest, Pc
  <2> QED BY <1>3, <2>1 DEF MetadataTypeOK, StartRequest
<1>4. CASE NoAnswer(m) \/ StoreTTL(m)
  <2>1. /\ pc' \in [Monitor -> Pc] /\ clock' \in [Monitor -> Nat]
        /\ \A n \in Monitor : clock'[n] <= Limit(n)'
    BY <1>2, <1>4 DEF NoAnswer, StoreTTL, Returns, Pc
  <2>2. headers' \in [Monitor -> Seq(0 .. MaxTTL)]
    BY <1>0, <1>4 DEF MetadataTypeOK, NoAnswer, StoreTTL, Returns
  <2>3. tokenTTL' \in -1 .. MaxTTL
    BY <1>4 DEF MetadataTypeOK, NoAnswer, StoreTTL, Returns
  <2>4. /\ status' \in [Monitor -> {"none", "answered", "error"}]
        /\ ttl' \in [Monitor -> {NoTTL} \cup (0 .. MaxTTL)]
        /\ attempt' \in [Monitor -> 1 .. tokenRetryAttempts]
    <3>1. /\ status \in [Monitor -> {"none", "answered", "error"}]
          /\ ttl \in [Monitor -> {NoTTL} \cup (0 .. MaxTTL)]
          /\ attempt \in [Monitor -> 1 .. tokenRetryAttempts] /\ 1 \in 1 .. tokenRetryAttempts
      BY DEF MetadataTypeOK
    <3>2. PICK w \in {"none", "answered", "error"} : status' = [status EXCEPT ![m] = w]
      BY <1>4, <3>1 DEF NoAnswer, StoreTTL, Returns
    <3>3. ttl' = [ttl EXCEPT ![m] = NoTTL] /\ attempt' = [attempt EXCEPT ![m] = 1]
      BY <1>4 DEF NoAnswer, StoreTTL, Returns
    <3> HIDE DEF NoTTL, tokenRetryAttempts
    <3> QED BY <3>1, <3>2, <3>3
  <2>5. UNCHANGED <<v2Token, lock, issued, service>>
    BY <1>4 DEF NoAnswer, StoreTTL, Returns
  <2> QED BY <2>1, <2>2, <2>3, <2>4, <2>5 DEF MetadataTypeOK
<1>5. CASE AddToken(m)
  <2>1. /\ pc' \in [Monitor -> Pc] /\ clock' \in [Monitor -> Nat]
        /\ \A n \in Monitor : clock'[n] <= Limit(n)'
    BY <1>1, <1>5 DEF AddToken, Pc
  <2>2. headers' \in [Monitor -> Seq(0 .. MaxTTL)]
    <3> DEFINE t == IF v2Token = NoToken THEN 0 ELSE v2Token
    <3>1. headers[m] \in Seq(0 .. MaxTTL) /\ headers \in [Monitor -> Seq(0 .. MaxTTL)]
      BY DEF MetadataTypeOK
    <3>2. t \in 0 .. MaxTTL
      BY DEF MetadataTypeOK
    <3>3. headers' = [headers EXCEPT ![m] = Append(headers[m], t)]
      BY <1>5 DEF AddToken
    <3> HIDE DEF t
    <3>4. Append(headers[m], t) \in Seq(0 .. MaxTTL)
      BY <3>1, <3>2
    <3> QED BY <3>1, <3>3, <3>4
  <2> QED BY <1>5, <2>1, <2>2 DEF MetadataTypeOK, AddToken
<1>6. CASE Answered(m)
  <2>1. /\ pc' \in [Monitor -> Pc] /\ clock' \in [Monitor -> Nat]
        /\ \A n \in Monitor : clock'[n] <= Limit(n)'
    BY <1>1, <1>6 DEF Answered, Pc
  <2>2. headers[m] \in Seq(0 .. MaxTTL)
    BY DEF MetadataTypeOK
  <2>3. \A i \in DOMAIN headers[m] : headers[m][i] \in 0 .. MaxTTL
    BY <2>2
  <2>4. ttl' \in [Monitor -> {NoTTL} \cup (0 .. MaxTTL)]
    BY <1>6, <2>3 DEF MetadataTypeOK, Answered
  <2> QED BY <1>6, <2>1, <2>4 DEF MetadataTypeOK, Answered
<1>7. CASE \/ CheckToken(m) \/ LockToken(m) \/ TestToken(m) \/ Unauthorized(m)
           \/ ServerError(m)
  <2>1. /\ pc' \in [Monitor -> Pc] /\ clock' \in [Monitor -> Nat]
        /\ \A n \in Monitor : clock'[n] <= Limit(n)'
    BY <1>1, <1>7 DEF CheckToken, LockToken, TestToken, Unauthorized, ServerError, Pc
  <2> QED BY <1>7, <2>1
          DEF MetadataTypeOK, CheckToken, LockToken, TestToken, Unauthorized, ServerError
<1>8. CASE getV2Token(m) \/ PutToken(m) \/ NoTokenIssued(m)
  <2>1. /\ pc' \in [Monitor -> Pc] /\ clock' \in [Monitor -> Nat]
        /\ \A n \in Monitor : clock'[n] <= Limit(n)'
    BY <1>1, <1>8 DEF getV2Token, PutToken, NoTokenIssued, Pc
  <2>2. /\ v2Token' \in {NoToken} \cup (0 .. MaxTTL)
        /\ tokenTTL' \in -1 .. MaxTTL
        /\ lock' \in Monitor \cup {Nobody}
    BY <1>8 DEF MetadataTypeOK, getV2Token, PutToken, NoTokenIssued
  <2>3. issued' \in [Monitor -> {NoToken} \cup (0 .. MaxTTL)]
    <3>1. MaxTTL \in 0 .. MaxTTL /\ issued \in [Monitor -> {NoToken} \cup (0 .. MaxTTL)]
      BY DEF MetadataTypeOK
    <3>2. issued' \in {issued, [issued EXCEPT ![m] = MaxTTL], [issued EXCEPT ![m] = NoToken]}
      BY <1>8 DEF getV2Token, PutToken, NoTokenIssued
    <3> HIDE DEF NoToken
    <3> QED BY <3>1, <3>2
  <2>4. UNCHANGED <<attempt, headers, ttl, status, service>>
    BY <1>8 DEF getV2Token, PutToken, NoTokenIssued
  <2> QED BY <2>1, <2>2, <2>3, <2>4 DEF MetadataTypeOK
<1>9. CASE ClearToken(m)
  <2>1. /\ pc' \in [Monitor -> Pc] /\ clock' \in [Monitor -> Nat]
        /\ \A n \in Monitor : clock'[n] <= Limit(n)'
    BY <1>1, <1>9 DEF ClearToken, Pc
  <2>2. /\ attempt' \in [Monitor -> 1 .. tokenRetryAttempts]
        /\ status' \in [Monitor -> {"none", "answered", "error"}]
    <3>1. /\ status \in [Monitor -> {"none", "answered", "error"}]
          /\ attempt \in [Monitor -> 1 .. 2]
      BY DEF MetadataTypeOK
    <3>2. CASE attempt[m] < 2
      <4>1. attempt' = [attempt EXCEPT ![m] = attempt[m] + 1] /\ UNCHANGED status
        BY <1>9, <3>2 DEF ClearToken
      <4>2. attempt[m] + 1 \in 1 .. 2
        BY <3>1, <3>2
      <4> QED BY <3>1, <4>1, <4>2
    <3>3. CASE ~(attempt[m] < 2)
      <4>1. status' = [status EXCEPT ![m] = "error"] /\ UNCHANGED attempt
        BY <1>9, <3>3 DEF ClearToken
      <4> QED BY <3>1, <4>1
    <3> QED BY <3>2, <3>3
  <2>3. /\ v2Token' = NoToken /\ tokenTTL' = 0
        /\ UNCHANGED <<lock, issued, headers, ttl, service>>
    BY <1>9 DEF ClearToken
  <2> QED BY <2>1, <2>2, <2>3 DEF MetadataTypeOK
<1> QED BY <1>3, <1>4, <1>5, <1>6, <1>7, <1>8, <1>9 DEF RequestStep

(* Every step keeps the types. *)
LEMMA TypesKept ==
  ASSUME MetadataTypeOK, [Next]_vars
  PROVE  MetadataTypeOK'
<1> USE Numbers DEF cache, call, service, NoToken, NoTTL, tokenRetryAttempts
<1>1. CASE Tick
  <2>1. headers' \in [Monitor -> Seq(0 .. MaxTTL)]
    <3>1. \A m \in Monitor :
            [i \in DOMAIN headers[m] |-> Older(headers[m][i])] \in Seq(0 .. MaxTTL)
      BY OlderHeaders DEF MetadataTypeOK, Lives
    <3> QED BY <1>1, <3>1 DEF Tick
  <2>2. /\ v2Token' \in {NoToken} \cup (0 .. MaxTTL)
        /\ issued' \in [Monitor -> {NoToken} \cup (0 .. MaxTTL)]
    BY <1>1, OlderToken DEF Tick, Lives, MetadataTypeOK
  <2>3. /\ clock' \in [Monitor -> Nat]
        /\ \A m \in Monitor : clock'[m] <= Limit(m)'
    <3>1. ASSUME NEW m \in Monitor
          PROVE  /\ clock'[m] = clock[m] + 1 /\ clock[m] \in Nat
                 /\ clock[m] < Limit(m) /\ Limit(m)' = Limit(m) /\ Limit(m) \in Nat
      BY <1>1 DEF Tick, Limit, MetadataTypeOK
    <3> QED BY <1>1, <3>1 DEF Tick
  <2> QED BY <1>1, <2>1, <2>2, <2>3 DEF Tick, MetadataTypeOK
<1>2. CASE Crash
  <2>1. << >> \in Seq(0 .. MaxTTL)
    OBVIOUS
  <2>2. headers' \in [Monitor -> Seq(0 .. MaxTTL)]
    BY <1>2, <2>1 DEF Crash
  <2> QED BY <1>2, <2>2 DEF Crash, MetadataTypeOK, Limit, Pc
<1>3. CASE GoesDown \/ ComesBack
  <2>1. up' \in BOOLEAN /\ issues' \in BOOLEAN
    BY <1>3 DEF GoesDown, ComesBack
  <2>2. outages' \in 0 .. MaxOutages /\ UNCHANGED <<cache, call, clock, required>>
    BY <1>3 DEF GoesDown, ComesBack, MetadataTypeOK
  <2> QED BY <2>1, <2>2 DEF MetadataTypeOK, Limit
<1>4. CASE UNCHANGED vars
  BY <1>4 DEF vars, MetadataTypeOK, Limit
<1> QED BY <1>1, <1>2, <1>3, <1>4, RequestTypes DEF Next

(* The lock is held exactly from LockToken to PutToken or NoTokenIssued. *)
LEMMA LockKept ==
  ASSUME MetadataTypeOK, LockHeld, [Next]_vars
  PROVE  LockHeld'
<1> USE MetadataAssumption DEF LockHeld, cache, call, service
<1>0. pc \in [Monitor -> Pc]
  BY DEF MetadataTypeOK
<1>1. ASSUME NEW m \in Monitor, UNCHANGED lock, NEW from, NEW to,
             pc[m] = from, pc' = [pc EXCEPT ![m] = to],
             from \in {"fetch", "put"} <=> to \in {"fetch", "put"}
      PROVE  LockHeld'
  BY <1>0, <1>1
<1>2. ASSUME NEW m \in Monitor, StartRequest(m) \/ RequestStep(m)
      PROVE  LockHeld'
  <2> USE DEF Goto
  <2>1. CASE LockToken(m)
    BY <1>0, <2>1 DEF LockToken
  <2>2. CASE PutToken(m) \/ NoTokenIssued(m)
    BY <1>0, <2>2 DEF PutToken, NoTokenIssued
  <2>3. CASE \/ StartRequest(m) \/ CheckToken(m) \/ getV2Token(m) \/ TestToken(m)
             \/ AddToken(m)
    BY <1>1, <2>3 DEF StartRequest, CheckToken, getV2Token, TestToken, AddToken
  <2>4. CASE Answered(m) \/ Unauthorized(m) \/ ServerError(m) \/ ClearToken(m)
    BY <1>1, <2>4 DEF Answered, Unauthorized, ServerError, ClearToken
  <2>5. CASE NoAnswer(m) \/ StoreTTL(m)
    BY <1>1, <2>5 DEF NoAnswer, StoreTTL, Returns
  <2> QED BY <1>2, <2>1, <2>2, <2>3, <2>4, <2>5 DEF RequestStep
<1>3. CASE Crash
  BY <1>3 DEF Crash
<1>4. CASE Tick \/ GoesDown \/ ComesBack \/ UNCHANGED vars
  BY <1>4 DEF Tick, GoesDown, ComesBack, vars
<1> QED BY <1>2, <1>3, <1>4 DEF Next

(* What a monitor knows does not depend on the calls of the others. *)
LEMMA KnownFrame ==
  ASSUME NEW n \in Monitor, TokenKnown(n),
         UNCHANGED <<v2Token, tokenTTL, pc[n], clock[n], issued[n], headers[n], ttl[n]>>
  PROVE  TokenKnown(n)'
  BY DEF TokenKnown, Lag

(* Types of what the argument about time is about. *)
LEMMA Clocks ==
  ASSUME MetadataTypeOK, NEW n \in Monitor
  PROVE  /\ v2Token \in Int /\ tokenTTL \in Int /\ tokenTTL <= MaxTTL
         /\ v2Token # NoToken => v2Token >= 0
         /\ clock[n] \in Nat /\ (pc[n] = "idle" => clock[n] <= Period)
         /\ (pc[n] # "idle" => clock[n] <= Latency)
         /\ issued[n] \in Int /\ ttl[n] \in Int /\ pc[n] \in Pc
         /\ headers[n] \in Seq(Lives)
  BY Numbers DEF MetadataTypeOK, Limit, NoToken, NoTTL, Lives

(* A request with one token in its headers. *)
LEMMA OneHeader ==
  ASSUME NEW h \in Seq(Lives), Len(h) = 1
  PROVE  DOMAIN h = {1} /\ h # << >> /\ h[1] \in Lives
  OBVIOUS

(* A step of a call, while the service has always answered. *)
LEMMA QuietRequest ==
  ASSUME MetadataInv, outages = 0, NEW m \in Monitor, StartRequest(m) \/ RequestStep(m)
  PROVE  up' /\ issues' /\ \A n \in Monitor : TokenKnown(n)'
<1> USE DEF Goto, cache, service
<1>0. /\ MetadataTypeOK /\ up /\ issues /\ TokenKnown(m) /\ \A n \in Monitor : TokenKnown(n)
      /\ pc \in [Monitor -> Pc] /\ clock \in [Monitor -> Nat]
      /\ DOMAIN issued = Monitor /\ DOMAIN headers = Monitor /\ DOMAIN ttl = Monitor
  BY DEF MetadataInv, MetadataTypeOK
<1>1. up' /\ issues'
  BY <1>0 DEF StartRequest, RequestStep, CheckToken, LockToken, getV2Token, PutToken,
     NoTokenIssued, TestToken, AddToken, Answered, Unauthorized, ServerError, NoAnswer, ClearToken,
     StoreTTL, Returns
<1>2. ASSUME UNCHANGED <<v2Token, tokenTTL>>, TokenKnown(m)',
             \A n \in Monitor \ {m} :
               UNCHANGED <<pc[n], clock[n], issued[n], headers[n], ttl[n]>>
      PROVE  \A n \in Monitor : TokenKnown(n)'
  BY <1>0, <1>2, KnownFrame
<1> USE Numbers
<1>T. /\ v2Token \in Int /\ tokenTTL \in Int /\ tokenTTL <= MaxTTL
      /\ v2Token # NoToken => v2Token >= 0
      /\ clock[m] \in Nat /\ (pc[m] = "idle" => clock[m] <= Period)
      /\ (pc[m] # "idle" => clock[m] <= Latency)
      /\ issued[m] \in Int /\ ttl[m] \in Int /\ headers[m] \in Seq(Lives)
  BY <1>0, Clocks
<1>3. CASE StartRequest(m)
  <2>1. /\ pc'[m] = "check" /\ clock'[m] = 0 /\ pc[m] = "idle"
        /\ UNCHANGED <<v2Token, tokenTTL, headers, issued, ttl>>
    BY <1>T, <1>0, <1>3 DEF StartRequest
  <2>2. TokenKnown(m)'
    BY <1>T, <1>0, <2>1 DEF TokenKnown, Lag
  <2> QED BY <1>T, <1>0, <1>2, <1>3, <2>2 DEF StartRequest
<1>4. CASE CheckToken(m)
  <2>1. /\ pc[m] = "check" /\ pc'[m] \in {"lock", "read"}
        /\ pc'[m] = "read" =>
             v2Token # NoToken /\ ~(tokenTTL <= secondsBeforeTTLRefresh)
        /\ UNCHANGED <<v2Token, tokenTTL, headers, issued, ttl, clock>>
    BY <1>T, <1>0, <1>4 DEF CheckToken
  <2>2. pc'[m] = "read" => v2Token > Latency - clock[m]
    BY <1>T, <1>0, <2>1, MetadataAssumption DEF TokenKnown, Lag
  <2>3. TokenKnown(m)'
    BY <1>T, <1>0, <2>1, <2>2 DEF TokenKnown, Lag
  <2> QED BY <1>T, <1>0, <1>2, <1>4, <2>3 DEF CheckToken
<1>5. CASE LockToken(m)
  <2>1. /\ pc[m] = "lock" /\ pc'[m] = "fetch"
        /\ UNCHANGED <<v2Token, tokenTTL, headers, issued, ttl, clock>>
    BY <1>T, <1>0, <1>5 DEF LockToken
  <2>2. TokenKnown(m)'
    BY <1>T, <1>0, <2>1 DEF TokenKnown, Lag
  <2> QED BY <1>T, <1>0, <1>2, <1>5, <2>2 DEF LockToken
<1>6. CASE getV2Token(m)
  <2>1. /\ pc[m] = "fetch" /\ pc'[m] = "put" /\ issued'[m] = MaxTTL
        /\ UNCHANGED <<v2Token, tokenTTL, headers, ttl, clock>>
    BY <1>T, <1>0, <1>6 DEF getV2Token
  <2>2. v2Token <= MaxTTL
    BY <1>T, <1>0 DEF MetadataTypeOK, NoToken
  <2>3. TokenKnown(m)'
    BY <1>T, <1>0, <2>1, <2>2 DEF TokenKnown, Lag
  <2> QED BY <1>T, <1>0, <1>2, <1>6, <2>3 DEF getV2Token
<1>7. CASE PutToken(m)
  <2>1. /\ pc[m] = "put" /\ pc' = [pc EXCEPT ![m] = "read"]
        /\ v2Token' = issued[m] /\ tokenTTL' = MaxTTL
        /\ UNCHANGED <<headers, ttl, clock>>
        /\ \A n \in Monitor \ {m} : pc'[n] = pc[n] /\ issued'[n] = issued[n]
    BY <1>T, <1>0, <1>7 DEF PutToken
  <2>2. issued[m] >= v2Token /\ MaxTTL <= issued[m] + clock[m] /\ clock[m] <= Latency
    BY <1>T, <1>0, <2>1 DEF TokenKnown
  <2>3. issued[m] >= 0 /\ issued[m] > Latency - clock[m] /\ v2Token' # NoToken
    <3>1. MaxTTL > Latency
      BY MetadataAssumption
    <3> QED BY <1>T, <2>1, <2>2, <3>1 DEF NoToken
  <2>4. TokenKnown(m)'
    BY <1>T, <1>0, <2>1, <2>2, <2>3 DEF TokenKnown, Lag
  <2>5. ASSUME NEW n \in Monitor \ {m} PROVE TokenKnown(n)'
    <3>0. n \in Monitor /\ TokenKnown(n)
      BY <1>0, <2>5
    <3>1. pc[n] # "put"
      BY <2>1, <2>5 DEF MetadataInv, LockHeld
    <3>2. clock[n] \in Nat /\ ttl[n] \in Int /\ headers[n] \in Seq(Lives)
      BY <1>0, <3>0, Clocks
    <3>3. /\ pc'[n] = pc[n] /\ UNCHANGED <<clock[n], headers[n], ttl[n]>>
          /\ v2Token <= v2Token' /\ v2Token' \in Int
      BY <1>T, <2>1, <2>2, <2>5
    <3>4. tokenTTL' <= v2Token' + Lag(n)'
      <4>1. Lag(n)' \in Nat /\ Lag(n)' >= clock[n] + Latency
        BY <3>2, <3>3 DEF Lag
      <4>2. MaxTTL <= issued[m] + Latency
        BY <1>T, <2>2
      <4> QED BY <1>T, <2>1, <3>2, <4>1, <4>2
    <3>5. pc[n] \in {"read", "add"} => v2Token' > Latency - clock[n]
      BY <1>T, <3>0, <3>2, <3>3 DEF TokenKnown
    <3>6. pc[n] = "send" => Len(headers[n]) = 1 /\ headers[n][1] > Latency - clock[n]
                            /\ headers[n][1] <= v2Token'
      <4>1. Len(headers[n]) = 1 => headers[n][1] \in Int
        BY <3>2, OneHeader DEF Lives
      <4> QED BY <1>T, <3>0, <3>2, <3>3, <4>1 DEF TokenKnown
    <3>7. pc[n] = "store" => ttl[n] # NoTTL /\ ttl[n] <= v2Token' + clock[n]
      BY <1>T, <3>0, <3>2, <3>3 DEF TokenKnown
    <3>8. pc[n] # "clear" /\ (pc[n] \notin {"send", "store"} => headers[n] = << >>)
      BY <3>0 DEF TokenKnown
    <3> QED BY <2>3, <3>1, <3>3, <3>4, <3>5, <3>6, <3>7, <3>8 DEF TokenKnown
  <2> QED BY <1>1, <2>4, <2>5
<1>7a. CASE TestToken(m)
  <2>1. /\ pc[m] = "read" /\ v2Token # NoToken
        /\ UNCHANGED <<v2Token, tokenTTL, headers, issued, ttl, clock>>
    BY <1>0, <1>7a DEF TestToken, TokenKnown
  <2>2. pc'[m] = "add"
    BY <1>0, <1>7a, <2>1 DEF TestToken
  <2>3. TokenKnown(m)'
    BY <1>T, <1>0, <2>1, <2>2 DEF TokenKnown, Lag
  <2> QED BY <1>T, <1>0, <1>2, <1>7a, <2>3 DEF TestToken
<1>8. CASE AddToken(m)
  <2>1. /\ pc[m] = "add" /\ pc'[m] = "send"
        /\ UNCHANGED <<v2Token, tokenTTL, issued, ttl, clock>>
        /\ headers[m] = << >> /\ v2Token # NoToken /\ v2Token > Latency - clock[m]
    BY <1>T, <1>0, <1>8 DEF AddToken, TokenKnown
  <2>2. headers'[m] = <<v2Token>>
    BY <1>T, <1>0, <1>8, <2>1 DEF AddToken
  <2>3. TokenKnown(m)'
    BY <1>T, <1>0, <2>1, <2>2 DEF TokenKnown, Lag
  <2> QED BY <1>T, <1>0, <1>2, <1>8, <2>3 DEF AddToken
<1>9. CASE Answered(m)
  <2>1. /\ pc[m] = "send" /\ pc'[m] = "store"
        /\ UNCHANGED <<v2Token, tokenTTL, headers, issued, clock>>
    BY <1>T, <1>0, <1>9 DEF Answered
  <2>2. Len(headers[m]) = 1 /\ headers[m][1] <= v2Token /\ headers[m][1] \in Lives
    BY <1>T, <1>0, <2>1 DEF TokenKnown
  <2>3. ttl'[m] = headers[m][1]
    <3>1. DOMAIN headers[m] = {1} /\ headers[m] # << >>
      BY <1>T, <2>2, OneHeader
    <3>2. ttl' = [ttl EXCEPT ![m] = headers[m][1]]
      BY <1>9, <3>1 DEF Answered
    <3> QED BY <1>0, <3>2
  <2>4. TokenKnown(m)'
    <3>1. ttl'[m] # NoTTL /\ ttl'[m] <= v2Token' + clock'[m]
      BY <1>T, <2>1, <2>2, <2>3 DEF Lives, NoTTL
    <3>2. v2Token # NoToken /\ tokenTTL <= v2Token + Lag(m) /\ Lag(m)' = Lag(m)
      BY <1>0, <2>1 DEF TokenKnown, Lag
    <3> QED BY <2>1, <3>1, <3>2 DEF TokenKnown
  <2> QED BY <1>T, <1>0, <1>2, <1>9, <2>4 DEF Answered
<1>10. CASE Unauthorized(m)
  <2>1. pc[m] = "send"
    BY <1>10 DEF Unauthorized
  <2>2. Len(headers[m]) = 1 /\ headers[m][1] > Latency - clock[m] /\ headers[m][1] \in Int
    BY <1>T, <1>0, <2>1 DEF TokenKnown, Lives
  <2>3. headers[m] # << >> /\ DOMAIN headers[m] = {1}
    BY <1>T, <1>0, <2>2, OneHeader
  <2>4. headers[m][1] > 0
    <3>1. clock[m] \in Nat /\ clock[m] <= Latency /\ Latency \in Nat
      BY <1>T, <1>0, <2>1
    <3> QED BY <2>2, <3>1
  <2> QED BY <1>10, <2>3, <2>4 DEF Unauthorized
<1>11. CASE StoreTTL(m)
  <2>1. /\ pc[m] = "store" /\ pc'[m] = "idle" /\ clock'[m] = 0
        /\ headers'[m] = << >> /\ tokenTTL' = ttl[m] /\ UNCHANGED <<v2Token, issued>>
        /\ \A n \in Monitor \ {m} :
             UNCHANGED <<pc[n], clock[n], headers[n], ttl[n]>>
    BY <1>T, <1>0, <1>11 DEF StoreTTL, Returns, TokenKnown
  <2>2. ttl[m] <= v2Token + clock[m] /\ clock[m] <= Latency
    BY <1>T, <1>0, <2>1 DEF TokenKnown
  <2>3. TokenKnown(m)'
    BY <1>T, <1>0, <2>1, <2>2 DEF TokenKnown, Lag
  <2>4. ASSUME NEW n \in Monitor \ {m} PROVE TokenKnown(n)'
    <3>1. Lag(n)' \in Nat /\ Lag(n)' >= Latency
      <4>1. clock'[n] \in Nat /\ Latency \in Nat /\ Period \in Nat
        BY <1>0, <2>1, <2>4, Clocks
      <4>2. CASE pc'[n] = "idle"
        BY <4>1, <4>2 DEF Lag
      <4>3. CASE pc'[n] # "idle"
        BY <4>1, <4>3 DEF Lag
      <4> QED BY <4>2, <4>3
    <3>2. tokenTTL' <= v2Token' + Lag(n)'
      <4>1. ttl[m] \in Int /\ clock[m] \in Nat /\ v2Token \in Int
        BY <1>T, <1>0
      <4> QED BY <2>1, <2>2, <3>1, <4>1
    <3> QED BY <1>T, <1>0, <2>1, <2>4, <3>2 DEF TokenKnown
  <2> QED BY <1>1, <2>3, <2>4
<1>12. CASE NoTokenIssued(m) \/ ServerError(m) \/ NoAnswer(m) \/ ClearToken(m)
  BY <1>T, <1>0, <1>12 DEF NoTokenIssued, ServerError, NoAnswer, ClearToken, TokenKnown
<1> QED BY <1>1, <1>3, <1>4, <1>5, <1>6, <1>7, <1>7a, <1>8, <1>9,
           <1>10, <1>11, <1>12
        DEF RequestStep

(* The passing of time, while the service has always answered. *)
LEMMA QuietTick ==
  ASSUME MetadataInv, outages = 0, Tick
  PROVE  up' /\ issues' /\ \A n \in Monitor : TokenKnown(n)'
<1>0. MetadataTypeOK /\ up /\ issues /\ \A n \in Monitor : TokenKnown(n)
  BY DEF MetadataInv
<1>1. up' /\ issues' /\ v2Token' = Older(v2Token) /\ UNCHANGED <<tokenTTL, pc, ttl>>
  BY <1>0 DEF Tick, service
<1> SUFFICES ASSUME NEW n \in Monitor PROVE TokenKnown(n)'
  BY <1>1
<1>2. /\ TokenKnown(n) /\ clock'[n] = clock[n] + 1
      /\ issued'[n] = Older(issued[n])
      /\ headers'[n] = [i \in DOMAIN headers[n] |-> Older(headers[n][i])]
  BY <1>0 DEF Tick
<1>3. /\ v2Token' <= v2Token /\ v2Token <= v2Token' + 1 /\ v2Token' \in Int
      /\ v2Token' = NoToken <=> v2Token = NoToken
      /\ issued'[n] <= issued[n] /\ issued[n] <= issued'[n] + 1 /\ issued'[n] \in Int
  <2>1. v2Token \in {NoToken} \cup Lives /\ issued[n] \in {NoToken} \cup Lives
    BY <1>0 DEF MetadataTypeOK, Lives
  <2>2. \A t \in {NoToken} \cup Lives : t \in Int
    BY Numbers DEF NoToken, Lives
  <2>3. Older(v2Token) \in {NoToken} \cup Lives /\ Older(issued[n]) \in {NoToken} \cup Lives
    BY <2>1, OlderToken
  <2> QED BY <1>1, <1>2, <2>1, <2>2, <2>3, OlderToken
<1>4. /\ Len(headers'[n]) = Len(headers[n])
      /\ headers[n] = << >> => headers'[n] = << >>
      /\ \A i \in DOMAIN headers[n] : headers'[n][i] = Older(headers[n][i])
  <2>1. headers[n] \in Seq(Lives)
    BY <1>0, Clocks
  <2> QED BY <1>2, <2>1, OlderHeaders
<1> USE Numbers
<1>T. /\ v2Token \in Int /\ tokenTTL \in Int /\ clock[n] \in Nat
      /\ clock[n] < Limit(n) /\ issued[n] \in Int /\ ttl[n] \in Int
      /\ headers[n] \in Seq(Lives)
  BY <1>0, Clocks DEF Tick
<1>5. pc[n] = "put" => issued'[n] >= v2Token'
  BY <1>T, <1>1, <1>2, <1>3 DEF TokenKnown, Older
<1>6. pc[n] = "send" => /\ headers'[n][1] > Latency - clock'[n]
                        /\ headers'[n][1] <= v2Token'
  <2> SUFFICES ASSUME pc[n] = "send"
               PROVE  /\ headers'[n][1] > Latency - clock'[n]
                      /\ headers'[n][1] <= v2Token'
    OBVIOUS
  <2>1. /\ headers[n][1] \in Int /\ headers[n][1] > Latency - clock[n]
        /\ headers[n][1] <= v2Token /\ headers'[n][1] = Older(headers[n][1])
    BY <1>T, <1>2, <1>4 DEF TokenKnown, Lives
  <2> QED BY <1>T, <1>1, <1>2, <2>1 DEF Older
<1>7. pc[n] \in {"read", "add"} => v2Token' > Latency - clock'[n]
  BY <1>T, <1>1, <1>2 DEF TokenKnown, Older
<1>8. v2Token' # NoToken => tokenTTL' <= v2Token' + Lag(n)'
  <2>1. Lag(n) \in Nat /\ Lag(n)' = Lag(n) + 1
    <3>1. clock[n] \in Nat /\ Latency \in Nat /\ Period \in Nat
      BY <1>T
    <3>2. CASE pc[n] = "idle"
      BY <1>1, <1>2, <3>1, <3>2 DEF Lag
    <3>3. CASE pc[n] # "idle"
      BY <1>1, <1>2, <3>1, <3>3 DEF Lag
    <3> QED BY <3>2, <3>3
  <2>2. v2Token # NoToken => tokenTTL <= v2Token + Lag(n)
    BY <1>2 DEF TokenKnown
  <2>3. tokenTTL \in Int /\ v2Token \in Int
    BY <1>T
  <2> QED BY <1>1, <1>3, <2>1, <2>2, <2>3
<1>9. pc[n] = "put" => MaxTTL <= issued'[n] + clock'[n]
  BY <1>T, <1>1, <1>2, <1>3 DEF TokenKnown
<1>10. pc[n] = "store" => ttl[n] # NoTTL /\ ttl[n] <= v2Token' + clock'[n]
  BY <1>T, <1>1, <1>2, <1>3 DEF TokenKnown
<1> QED BY <1>1, <1>2, <1>3, <1>4, <1>5, <1>6, <1>7, <1>8, <1>9, <1>10 DEF TokenKnown

(* The invariant is inductive. *)
LEMMA NextInv == MetadataInv /\ [Next]_vars => MetadataInv'
<1> SUFFICES ASSUME MetadataInv, [Next]_vars PROVE MetadataInv'
  OBVIOUS
<1>1. MetadataTypeOK /\ LockHeld /\ outages \in Nat
  BY Numbers DEF MetadataInv, MetadataTypeOK
<1>2. MetadataTypeOK' /\ LockHeld'
  BY <1>1, TypesKept, LockKept
<1>3. ASSUME outages' = 0 PROVE up' /\ issues' /\ \A n \in Monitor : TokenKnown(n)'
  <2>1. ASSUME NEW m \in Monitor, StartRequest(m) \/ RequestStep(m)
        PROVE  up' /\ issues' /\ \A n \in Monitor : TokenKnown(n)'
    <3>1. outages' = outages
      BY <2>1 DEF StartRequest, RequestStep, CheckToken, LockToken, getV2Token,
         PutToken, NoTokenIssued, TestToken, AddToken, Answered, Unauthorized, ServerError,
         NoAnswer, ClearToken, StoreTTL, Returns, service
    <3> QED BY <1>3, <2>1, <3>1, QuietRequest
  <2>2. CASE Tick
    BY <1>3, <2>2, QuietTick DEF Tick, service
  <2>3. CASE Crash
    <3>1. outages = 0 /\ up' = up /\ issues' = issues
      BY <1>3, <2>3 DEF Crash, service
    <3>2. \A n \in Monitor : pc'[n] = "idle" /\ headers'[n] = << >>
      BY <2>3 DEF Crash
    <3> QED BY <2>3, <3>1, <3>2 DEF MetadataInv, TokenKnown, Crash
  <2>4. CASE GoesDown
    BY <1>1, <1>3, <2>4 DEF GoesDown
  <2>5. CASE ComesBack
    BY <1>3, <2>5 DEF ComesBack, MetadataInv
  <2>6. CASE UNCHANGED vars
    BY <1>3, <2>6, KnownFrame DEF vars, MetadataInv, service
  <2> QED BY <2>1, <2>2, <2>3, <2>4, <2>5, <2>6 DEF Next
<1> QED BY <1>2, <1>3 DEF MetadataInv

(***************************************************************************)
(* MetadataInv is an invariant of the metadata client: in particular the   *)
(* lock is held exactly while a token is fetched.                          *)
(***************************************************************************)
THEOREM Invariance == Spec => []MetadataInv
  BY InitInv, NextInv, PTL DEF Spec

(***************************************************************************)
(* Before the first outage no request is rejected with a 401, and no read  *)
(* of the token meets a write that would tear it, whatever the number of   *)
(* monitors, provided the margin covers a pause and two delays.            *)
(***************************************************************************)
THEOREM TokenValid == Spec => []TokenAlwaysValid
<1>1. MetadataInv => TokenAlwaysValid
  BY DEF MetadataInv, TokenKnown, TokenAlwaysValid, Torn
<1> QED BY <1>1, Invariance, PTL
=============================================================================
