------------------------------ MODULE Sessions ------------------------------
(***************************************************************************)
(* The sessions of the REST server: a login adds a token to session_map,   *)
(* every request that is let in makes it young again, and                  *)
(* session_cleaner_thread takes away the ones that grew too old, so many   *)
(* at a time. session_map keeps the order of the logins; both threads      *)
(* work on it under one mutex. Age is counted in rounds of the cleaner's   *)
(* sleep and stops counting one above Expiry.                              *)
(***************************************************************************)
EXTENDS Integers, Sequences, FiniteSets, SequencesExt

CONSTANTS
  Tokens, \* tokens, used again once they are forgotten
  Expiry, \* age a token may have (TOKEN_EXPIRY_SECONDS)
  Sweep   \* tokens one round may take away (to_delete[128])

ASSUME SessionsAssumption == Expiry \in Nat /\ Sweep \in Nat \ {0}

VARIABLES
  sessionMap, \* the tokens in the order of their logins
  age         \* of each token: the time since its last use

sessionVars == <<sessionMap, age>>

SessionInit == sessionMap = <<>> /\ age = [t \in Tokens |-> 0]

Login(t) ==
  /\ t \notin ToSet(sessionMap)
  /\ sessionMap' = Append(sessionMap, t) /\ age' = [age EXCEPT ![t] = 0]

IsValid(t) == t \in ToSet(sessionMap) /\ age[t] <= Expiry

\* A request with this token; one that is not valid changes nothing.
Use(t) == IsValid(t) /\ age' = [age EXCEPT ![t] = 0] /\ UNCHANGED sessionMap

TimePasses ==
  /\ age' = [t \in Tokens |-> IF age[t] > Expiry THEN age[t] ELSE age[t] + 1]
  /\ UNCHANGED sessionMap

Expired(t) == age[t] > Expiry

FirstOf(tokens) == SubSeq(tokens, 1, Min({Len(tokens), Sweep}))

\* Mutant: the round looks at so many tokens, old or not.
Swept_FirstOnes == SelectSeq(FirstOf(sessionMap), Expired)

\* The first so many that are too old.
Swept == FirstOf(SelectSeq(sessionMap, Expired))

SessionCleaner ==
  /\ sessionMap' = SelectSeq(sessionMap, LAMBDA t : t \notin ToSet(Swept))
  /\ UNCHANGED age

SessionNext == SessionCleaner \/ TimePasses \/ \E t \in Tokens : Login(t) \/ Use(t)

----------------------------------------------------------------------------
(* Properties *)

\* A session that grew too old is forgotten in the end and never revived,
\* whatever other clients do: neither sessions kept alive in front of it nor
\* logins without end leave it no turn in the cleaner's rounds.
SessionsGo == \A t \in Tokens : (t \in ToSet(sessionMap) /\ Expired(t)) ~> t \notin ToSet(sessionMap)
=============================================================================
