------------------------------- MODULE OnceOnly -------------------------------
(***************************************************************************)
(* What an idempotency key promises a client of the daemon: while the      *)
(* answer behind a key is remembered the request is not executed again,    *)
(* every call with that key and that request is answered with that one     *)
(* result, and the key is refused to any other request.  Answers may be    *)
(* forgotten, but only when another execution ends or all at once when the *)
(* daemon restarts; a caller that waited for a forgotten answer is told so *)
(* or never answered.                                                      *)
(***************************************************************************)
CONSTANTS Thread, Key, Request, Result, None

VARIABLES
  remembered,  \* Key -> the request executed under it and its result
  answers      \* Thread -> the call it made and the reply it got

onceVars == <<remembered, answers>>

OnceInit ==
  /\ remembered = [k \in Key |-> None]
  /\ answers = [c \in Thread |-> None]

Reply(c, k, q, reply) ==
  answers' = [answers EXCEPT ![c] = [key |-> k, req |-> q, reply |-> reply]]

Execute(c, k, q, res) ==
  /\ Reply(c, k, q, res)
  /\ remembered[k] = None
  /\ \E forgotten \in SUBSET Key :
       remembered' = [j \in Key |->
         IF j \in forgotten THEN None
         ELSE IF j = k THEN [req |-> q, res |-> res] ELSE remembered[j]]

Replay(c, k, q) ==
  /\ remembered[k] # None /\ remembered[k].req = q
  /\ Reply(c, k, q, remembered[k].res)
  /\ UNCHANGED remembered

\* "conflict" for the key of another request, "invalid" for a lost answer.
Refuse(c, k, q) ==
  /\ remembered[k] # None => remembered[k].req # q
  /\ \E reply \in {"conflict", "invalid"} : Reply(c, k, q, reply)
  /\ UNCHANGED remembered

ForgetAll ==
  /\ remembered' = [k \in Key |-> None]
  /\ UNCHANGED answers

OnceNext ==
  \/ \E c \in Thread :
       /\ answers[c] = None /\ answers'[c] # None
       /\ \E k \in Key, q \in Request :
            \/ \E res \in Result : Execute(c, k, q, res)
            \/ Replay(c, k, q)
            \/ Refuse(c, k, q)
  \/ ForgetAll

OnceSpec == OnceInit /\ [][OnceNext]_onceVars
=============================================================================
