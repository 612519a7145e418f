----------------------------- MODULE NodeMarks ------------------------------
(***************************************************************************)
(* What the functions that mark a Kubernetes node promise: each of them    *)
(* adds one mark (a taint or an annotation) to the node or removes one, in *)
(* one step, at some moment between its call and its return.  A function   *)
(* that returns no error did so; one that returns an error did so once or  *)
(* not at all; and none of them touches a mark of anybody else.            *)
(***************************************************************************)
CONSTANTS
  Client,   \* goroutines that mark the node
  Mark,     \* marks the node can have
  Foreign   \* the marks that other programs place

VARIABLES
  marks,    \* the marks of the node
  call,     \* Client -> the operation it is in
  returned  \* who returned from an operation last, and with which result

vars == <<marks, call, returned>>

Operation == [key : Mark \ Foreign, adds : BOOLEAN]

NoCall == [key |-> "none", adds |-> FALSE]

Nobody == <<"none", "none">>

Effect(o, S) == IF o.adds THEN S \cup {o.key} ELSE S \ {o.key}

Init ==
  /\ marks \in SUBSET Foreign
  /\ call = [c \in Client |-> NoCall]
  /\ returned = Nobody

Begin(c, o) ==
  /\ call[c] = NoCall
  /\ call' = [call EXCEPT ![c] = o]
  /\ returned' = Nobody
  /\ UNCHANGED marks

Return(c, r) ==
  /\ call' = [call EXCEPT ![c] = NoCall]
  /\ returned' = <<c, r>>

Succeed(c) ==
  /\ call[c] # NoCall
  /\ marks' = Effect(call[c], marks)
  /\ Return(c, "ok")

(* An error tells nothing about the mark. *)
Fail(c) ==
  /\ call[c] # NoCall
  /\ marks' \in {marks, Effect(call[c], marks)}
  /\ Return(c, "error")

(* The process ends; what was not done is not done. *)
Stop ==
  /\ call' = [c \in Client |-> NoCall]
  /\ returned' = Nobody
  /\ UNCHANGED marks

OthersWrite(S) ==
  /\ marks' = (marks \ Foreign) \cup S
  /\ UNCHANGED <<call, returned>>

Next ==
  \/ \E c \in Client :
       \/ \E o \in Operation : Begin(c, o)
       \/ Succeed(c)
       \/ Fail(c)
  \/ Stop
  \/ \E S \in SUBSET Foreign : OthersWrite(S)

Spec == Init /\ [][Next]_vars
=============================================================================
