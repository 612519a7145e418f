----------------------------- MODULE Ec2Metadata -----------------------------
(***************************************************************************)
(* The client of the instance metadata service (pkg/ec2metadata), used by  *)
(* the monitors of the IMDS mode, each a goroutine that polls it.          *)
(*                                                                         *)
(* The monitors share one IMDSv2 token and the number of seconds it is     *)
(* thought to live on.  Both are read without the client's lock and        *)
(* written under it.  A token is represented by the time for which the     *)
(* service still accepts it: it counts down as time passes, and a token    *)
(* with the value 0 has expired.  tokenTTL does not count down: only the   *)
(* answers of the service refresh it.                                      *)
(***************************************************************************)
EXTENDS Integers, Sequences, FiniteSets

CONSTANTS
  Monitor,                  \* the goroutines that call Request
  Nobody,                   \* holder of a free lock
  MaxTTL,                   \* lifetime asked for a token (the const tokenTTL)
  secondsBeforeTTLRefresh,
  Period,                   \* longest pause of a monitor between two calls
  Latency,                  \* longest duration of a call
  MaxOutages                \* bound on outages of the service

tokenRetryAttempts == 2

ASSUME MetadataAssumption ==
  /\ Nobody \notin Monitor
  /\ {MaxTTL, secondsBeforeTTLRefresh, Period, Latency, MaxOutages} \subseteq Nat
  /\ Period + 2 * Latency <= secondsBeforeTTLRefresh
  /\ secondsBeforeTTLRefresh < MaxTTL

VARIABLES
  v2Token,    \* the cached token, NoToken for the empty string
  tokenTTL,   \* the remaining seconds of the token, as far as the client knows
  lock,       \* holder of the client's RWMutex
  pc,         \* Monitor -> where it is in Request
  attempt,    \* Monitor -> the loop's counter
  issued,     \* Monitor -> the token it has got from the service, not yet cached
  headers,    \* Monitor -> the tokens in the headers of its request
  ttl,        \* Monitor -> the TTL header of the last answer
  status,     \* Monitor -> what its call has got from the service
  clock,      \* Monitor -> time since its call started, or ended
  required,   \* the service does not accept IMDSv1 requests (HttpTokens)
  up,         \* the service answers requests for metadata
  issues,     \* the service answers requests for a token
  outages     \* outages so far

service == <<required, up, issues, outages>>
cache == <<v2Token, tokenTTL, lock>>
call == <<pc, attempt, issued, headers, ttl, status>>
vars == <<v2Token, tokenTTL, lock, pc, attempt, issued, headers, ttl, status, clock,
          service>>

NoToken == -1
NoTTL == -2

Pc == {"idle", "check", "lock", "fetch", "put", "read", "add", "send", "clear", "store"}

Init ==
  /\ v2Token = NoToken
  /\ tokenTTL = 0
  /\ lock = Nobody
  /\ pc = [m \in Monitor |-> "idle"]
  /\ attempt = [m \in Monitor |-> 1]
  /\ issued = [m \in Monitor |-> NoToken]
  /\ headers = [m \in Monitor |-> <<>>]
  /\ ttl = [m \in Monitor |-> NoTTL]
  /\ status = [m \in Monitor |-> "none"]
  /\ clock = [m \in Monitor |-> 0]
  /\ required \in BOOLEAN
  /\ up = TRUE /\ issues = TRUE
  /\ outages = 0

Goto(m, from, to) == pc[m] = from /\ pc' = [pc EXCEPT ![m] = to]

-----------------------------------------------------------------------------
(* The service and the clock *)

(* One unit of time less for a token. *)
Older(t) == IF t > 0 THEN t - 1 ELSE t

(* No call takes longer than Latency, no pause longer than Period. *)
Limit(m) == IF pc[m] = "idle" THEN Period ELSE Latency

Tick ==
  /\ \A m \in Monitor : clock[m] < Limit(m)
  /\ clock' = [m \in Monitor |-> clock[m] + 1]
  /\ v2Token' = Older(v2Token)
  /\ issued' = [m \in Monitor |-> Older(issued[m])]
  /\ headers' = [m \in Monitor |-> [i \in DOMAIN headers[m] |-> Older(headers[m][i])]]
  /\ UNCHANGED <<tokenTTL, lock, pc, attempt, ttl, status, service>>

(***************************************************************************)
(* An outage, of the requests for a token alone or of both.  It may last:  *)
(* no token reaches a container if the hop limit of the service is 1.      *)
(***************************************************************************)
GoesDown ==
  /\ issues
  /\ outages < MaxOutages
  /\ up' \in BOOLEAN /\ issues' = FALSE
  /\ outages' = outages + 1
  /\ UNCHANGED <<cache, call, clock, required>>

ComesBack ==
  /\ ~issues
  /\ up' = TRUE /\ issues' = TRUE
  /\ UNCHANGED <<cache, call, clock, required, outages>>

-----------------------------------------------------------------------------
(* Request *)

(* The monitor's next poll: GetSpotITNEvent and the like call Request. *)
StartRequest(m) ==
  /\ Goto(m, "idle", "check")
  /\ attempt' = [attempt EXCEPT ![m] = 1]
  /\ clock' = [clock EXCEPT ![m] = 0]
  /\ UNCHANGED <<cache, issued, headers, ttl, status, service>>

(* The call is over, with an answer or an error; what it used is garbage. *)
Returns(m) ==
  /\ pc' = [pc EXCEPT ![m] = "idle"]
  /\ status' = [status EXCEPT ![m] = "none"]
  /\ clock' = [clock EXCEPT ![m] = 0]
  /\ headers' = [headers EXCEPT ![m] = <<>>]
  /\ ttl' = [ttl EXCEPT ![m] = NoTTL]
  /\ attempt' = [attempt EXCEPT ![m] = 1]
  /\ UNCHANGED <<issued, service>>

(* Mutant: the token is used until it is thought to have expired. *)
CheckTokenLate(m) ==
  /\ Goto(m, "check", IF v2Token = NoToken \/ tokenTTL <= 0 THEN "lock" ELSE "read")
  /\ UNCHANGED <<cache, attempt, issued, headers, ttl, status, clock, service>>

(* Read without the lock, and not read again once the lock is held. *)
CheckToken(m) ==
  /\ Goto(m, "check", IF v2Token = NoToken \/ tokenTTL <= secondsBeforeTTLRefresh
                      THEN "lock" ELSE "read")
  /\ UNCHANGED <<cache, attempt, issued, headers, ttl, status, clock, service>>

LockToken(m) ==
  /\ Goto(m, "lock", "fetch")
  /\ lock = Nobody
  /\ lock' = m
  /\ UNCHANGED <<v2Token, tokenTTL, attempt, issued, headers, ttl, status, clock,
                 service>>

(* getV2Token: the service issues a token for MaxTTL, and says so. *)
getV2Token(m) ==
  /\ issues
  /\ Goto(m, "fetch", "put")
  /\ issued' = [issued EXCEPT ![m] = MaxTTL]
  /\ UNCHANGED <<cache, attempt, headers, ttl, status, clock, service>>

PutToken(m) ==
  /\ Goto(m, "put", "read")
  /\ v2Token' = issued[m]
  /\ tokenTTL' = MaxTTL
  /\ issued' = [issued EXCEPT ![m] = NoToken]
  /\ lock' = Nobody
  /\ UNCHANGED <<attempt, headers, ttl, status, clock, service>>

(* Mutant: the error path returns with the lock held. *)
NoTokenLockKept(m) ==
  /\ ~issues
  /\ Goto(m, "fetch", "read")
  /\ v2Token' = NoToken
  /\ tokenTTL' = -1
  /\ UNCHANGED <<lock, attempt, issued, headers, ttl, status, clock, service>>

(* No token can be had: the request is made without, as an IMDSv1 request. *)
NoTokenIssued(m) ==
  /\ ~issues
  /\ Goto(m, "fetch", "read")
  /\ v2Token' = NoToken
  /\ tokenTTL' = -1
  /\ lock' = Nobody
  /\ UNCHANGED <<attempt, issued, headers, ttl, status, clock, service>>

(* The cached token is read without the lock. *)
TestToken(m) ==
  /\ Goto(m, "read", IF v2Token = NoToken THEN "send" ELSE "add")
  /\ UNCHANGED <<cache, attempt, issued, headers, ttl, status, clock, service>>

(* It is read again, and added to the headers although it may be empty by  *)
(* now: the service rejects that as it does an expired one.                *)
AddToken(m) ==
  /\ Goto(m, "add", "send")
  /\ headers' = [headers EXCEPT ![m] =
                   Append(@, IF v2Token = NoToken THEN 0 ELSE v2Token)]
  /\ UNCHANGED <<cache, attempt, issued, ttl, status, clock, service>>

(***************************************************************************)
(* The data race of these reads: a string is two words, and while another    *)
(* monitor replaces the empty string by a token or a token by the empty    *)
(* string, the length of the one can be read with the pointer of the       *)
(* other.  The program then ends in an invalid memory access and is        *)
(* started again.                                                          *)
(***************************************************************************)
Torn(m) ==
  /\ pc[m] \in {"read", "add"}
  /\ \E n \in Monitor \ {m} :
       \/ pc[n] = "put" /\ v2Token = NoToken
       \/ pc[n] = "clear" /\ v2Token # NoToken /\ lock = Nobody
       \/ pc[n] = "fetch" /\ v2Token # NoToken /\ ~issues

Crash ==
  /\ \E m \in Monitor : Torn(m)
  /\ v2Token' = NoToken /\ tokenTTL' = 0 /\ lock' = Nobody
  /\ pc' = [m \in Monitor |-> "idle"]
  /\ attempt' = [m \in Monitor |-> 1]
  /\ issued' = [m \in Monitor |-> NoToken]
  /\ headers' = [m \in Monitor |-> <<>>]
  /\ ttl' = [m \in Monitor |-> NoTTL]
  /\ status' = [m \in Monitor |-> "none"]
  /\ clock' = [m \in Monitor |-> 0]
  /\ UNCHANGED service

(***************************************************************************)
(* The answer of the service.  The request's headers are added to, so the  *)
(* second attempt carries the rejected token as well as the new one; which *)
(* of them the service looks at is not specified.  An accepted token's     *)
(* remaining time is in the TTL header of the answer.                      *)
(***************************************************************************)
Answered(m) ==
  /\ up
  /\ \/ /\ headers[m] = <<>> /\ ~required
        /\ Goto(m, "send", "store")
        /\ UNCHANGED ttl
     \/ \E i \in DOMAIN headers[m] :
          /\ headers[m][i] > 0
          /\ Goto(m, "send", "store")
          /\ ttl' = [ttl EXCEPT ![m] = headers[m][i]]
  /\ status' = [status EXCEPT ![m] = "answered"]
  /\ UNCHANGED <<cache, attempt, issued, headers, clock, service>>

Unauthorized(m) ==
  /\ up
  /\ \/ headers[m] = <<>> /\ required
     \/ \E i \in DOMAIN headers[m] : headers[m][i] = 0
  /\ Goto(m, "send", "clear")
  /\ UNCHANGED <<cache, attempt, issued, headers, ttl, status, clock, service>>

(* An answer with another status, which the callers turn into an error. *)
ServerError(m) ==
  /\ ~up
  /\ Goto(m, "send", "store")
  /\ status' = [status EXCEPT ![m] = "error"]
  /\ UNCHANGED <<cache, attempt, issued, headers, ttl, clock, service>>

(* No answer to any of the tries. *)
NoAnswer(m) ==
  /\ ~up
  /\ pc[m] = "send"
  /\ Returns(m)
  /\ UNCHANGED cache

(* Mutant: the rejected token stays cached. *)
ClearNothing(m) ==
  /\ lock = Nobody
  /\ IF attempt[m] < tokenRetryAttempts
     THEN /\ Goto(m, "clear", "check")
          /\ attempt' = [attempt EXCEPT ![m] = @ + 1]
          /\ UNCHANGED status
     ELSE /\ Goto(m, "clear", "store")
          /\ status' = [status EXCEPT ![m] = "error"]
          /\ UNCHANGED attempt
  /\ UNCHANGED <<cache, issued, headers, ttl, clock, service>>

(* A 401: whatever token is cached by now is dropped, and the loop goes on. *)
ClearToken(m) ==
  /\ lock = Nobody
  /\ v2Token' = NoToken
  /\ tokenTTL' = 0
  /\ IF attempt[m] < tokenRetryAttempts
     THEN /\ Goto(m, "clear", "check")
          /\ attempt' = [attempt EXCEPT ![m] = @ + 1]
          /\ UNCHANGED status
     ELSE /\ Goto(m, "clear", "store")
          /\ status' = [status EXCEPT ![m] = "error"]
          /\ UNCHANGED attempt
  /\ UNCHANGED <<lock, issued, headers, ttl, clock, service>>

(* Mutant: the answer's TTL header is not read. *)
StoreNoTTL(m) ==
  /\ pc[m] = "store"
  /\ Returns(m)
  /\ UNCHANGED cache

StoreTTL(m) ==
  /\ pc[m] = "store"
  /\ IF ttl[m] = NoTTL THEN UNCHANGED tokenTTL
                       ELSE lock = Nobody /\ tokenTTL' = ttl[m]
  /\ Returns(m)
  /\ UNCHANGED <<v2Token, lock>>
-----------------------------------------------------------------------------
RequestStep(m) ==
  \/ CheckToken(m)
  \/ LockToken(m)
  \/ getV2Token(m)
  \/ PutToken(m)
  \/ NoTokenIssued(m)
  \/ TestToken(m)
  \/ AddToken(m)
  \/ Answered(m)
  \/ Unauthorized(m)
  \/ ServerError(m)
  \/ NoAnswer(m)
  \/ ClearToken(m)
  \/ StoreTTL(m)

Next ==
  \/ \E m \in Monitor : StartRequest(m) \/ RequestStep(m)
  \/ Crash
  \/ Tick
  \/ GoesDown
  \/ ComesBack

Spec == Init /\ [][Next]_vars

(***************************************************************************)
(* Time passes, the goroutines run, and Go's mutex does not let one of     *)
(* them wait forever.  Between the caching of a token and the statements   *)
(* that read it there are a few instructions: the other monitors do not    *)
(* drop the token there every time.                                        *)
(***************************************************************************)
Fairness ==
  /\ WF_vars(Tick)
  /\ \A m \in Monitor : /\ WF_vars(StartRequest(m))
                        /\ SF_vars(RequestStep(m))
                        /\ SF_vars(TestToken(m) /\ v2Token # NoToken)
                        /\ SF_vars(AddToken(m) /\ v2Token # NoToken /\ headers[m] = <<>>)

LiveSpec == Spec /\ Fairness

-----------------------------------------------------------------------------
(* Properties *)

MetadataTypeOK ==
  /\ v2Token \in {NoToken} \cup (0 .. MaxTTL)
  /\ tokenTTL \in -1 .. MaxTTL
  /\ lock \in Monitor \cup {Nobody}
  /\ pc \in [Monitor -> Pc]
  /\ attempt \in [Monitor -> 1 .. tokenRetryAttempts]
  /\ issued \in [Monitor -> {NoToken} \cup (0 .. MaxTTL)]
  /\ headers \in [Monitor -> Seq(0 .. MaxTTL)]
  /\ ttl \in [Monitor -> {NoTTL} \cup (0 .. MaxTTL)]
  /\ status \in [Monitor -> {"none", "answered", "error"}]
  /\ clock \in [Monitor -> Nat]
  /\ \A m \in Monitor : clock[m] <= Limit(m)
  /\ required \in BOOLEAN
  /\ up \in BOOLEAN /\ issues \in BOOLEAN
  /\ outages \in 0 .. MaxOutages

LockHeld == \A m \in Monitor : lock = m <=> pc[m] \in {"fetch", "put"}

(***************************************************************************)
(* The longest time since the answer tokenTTL was taken from, seen from a  *)
(* monitor that wrote it, or saw it written, when its last call ended.     *)
(***************************************************************************)
Lag(m) == clock[m] + Latency + (IF pc[m] = "idle" THEN 0 ELSE Period)

(* What the client knows of the token while the service has always answered. *)
TokenKnown(m) ==
  /\ pc[m] # "clear"
  /\ v2Token # NoToken => tokenTTL <= v2Token + Lag(m)
  /\ pc[m] \in {"read", "add", "send", "store"} => v2Token # NoToken
  /\ pc[m] = "put" => issued[m] >= v2Token /\ MaxTTL <= issued[m] + clock[m]
  /\ pc[m] \in {"read", "add"} => v2Token > Latency - clock[m]
  /\ pc[m] \notin {"send", "store"} => headers[m] = <<>>
  /\ pc[m] = "send" => /\ Len(headers[m]) = 1
                       /\ headers[m][1] > Latency - clock[m]
                       /\ headers[m][1] <= v2Token
  /\ pc[m] = "store" => ttl[m] # NoTTL /\ ttl[m] <= v2Token + clock[m]

(***************************************************************************)
(* The lock is held exactly while a token is being fetched, and until the  *)
(* first outage the cached TTL is never ahead of the token by more than    *)
(* the pauses and delays allow.  Inductive.                                *)
(***************************************************************************)
MetadataInv ==
  /\ MetadataTypeOK
  /\ LockHeld
  /\ outages = 0 => (up /\ issues /\ \A m \in Monitor : TokenKnown(m))

(***************************************************************************)
(* As long as the service has always answered, no monitor ever gets a 401, *)
(* and none reads the token while another one replaces the empty string:   *)
(* although tokenTTL is only as recent as the last answer, although an     *)
(* answer to an older token overwrites the TTL of the new one, and although*)
(* several monitors refresh the token one after the other.  This is what   *)
(* the margin secondsBeforeTTLRefresh is for.                              *)
(***************************************************************************)
TokenAlwaysValid ==
  outages = 0 => \A m \in Monitor : pc[m] # "clear" /\ ~Torn(m)

(***************************************************************************)
(* Every call of Request ends, with an answer or an error, whether or not  *)
(* the service answers and whoever holds the lock.                         *)
(***************************************************************************)
RequestEnds == \A m \in Monitor : pc[m] # "idle" ~> pc[m] = "idle"

(***************************************************************************)
(* Once the service stays up, every monitor gets answers again and again,  *)
(* whatever token was cached when it came back; without tokens too, where  *)
(* the service still accepts IMDSv1 requests.                              *)
(***************************************************************************)
PollsResume ==
  \A m \in Monitor :
    <>[](up /\ (issues \/ ~required)) => []<>(pc[m] = "store" /\ status[m] = "answered")
=============================================================================
