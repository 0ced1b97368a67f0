--------------------------- MODULE IdentityRegister ---------------------------
(***************************************************************************)
(* What the installation identity promises: it is written once, a start    *)
(* that asks for it when it is there gets it, and nobody gets another.     *)
(***************************************************************************)
CONSTANTS
    Process,
    Value,
    NoValue, Refused, Failed

VARIABLES
    value,       \* the identity
    confirmed,   \* it will survive a loss of power
    ask,         \* of each process: "idle", "asked", or "assured" if it was there
    answer       \* of each process: the last answer

vars == <<value, confirmed, ask, answer>>

Init ==
    /\ value \in Value \cup {NoValue}
    /\ confirmed \in BOOLEAN
    /\ ask = [p \in Process |-> "idle"]
    /\ answer = [p \in Process |-> NoValue]

Ask(p) ==
    /\ ask[p] = "idle"
    /\ ask' = [ask EXCEPT ![p] = IF value = NoValue THEN "asked" ELSE "assured"]
    /\ answer' = [answer EXCEPT ![p] = NoValue]
    /\ UNCHANGED <<value, confirmed>>

Establish ==
    /\ value = NoValue
    /\ value' \in Value
    /\ UNCHANGED <<confirmed, ask, answer>>

Reply(p, a) ==
    /\ ask[p] # "idle"
    /\ ask' = [ask EXCEPT ![p] = "idle"]
    /\ answer' = [answer EXCEPT ![p] = a]
    /\ UNCHANGED value

Answer(p) ==
    /\ value # NoValue
    /\ Reply(p, value)
    /\ confirmed => confirmed'

(* Without a failure of the machine only those are refused who asked before there
   was an identity. *)
Refuse(p) == ask[p] = "asked" /\ Reply(p, Refused) /\ UNCHANGED confirmed
Fail(p) == Reply(p, Failed) /\ UNCHANGED confirmed

Stop(p) ==
    /\ ask' = [ask EXCEPT ![p] = "idle"]
    /\ UNCHANGED <<value, confirmed, answer>>

PowerLoss ==
    /\ ask' = [p \in Process |-> "idle"]
    /\ value' = value \/ (value' = NoValue /\ ~confirmed)
    /\ confirmed' = (value' # NoValue)
    /\ UNCHANGED answer

Next ==
    \/ Establish \/ PowerLoss
    \/ \E p \in Process : Ask(p) \/ Answer(p) \/ Refuse(p) \/ Fail(p) \/ Stop(p)

Spec == Init /\ [][Next]_vars
=============================================================================
